---------------------------- MODULE Firmware_proofs ----------------------------
(***************************************************************************)
(* What is proved of the drivers.  A program uses one device, so each      *)
(* device has an invariant of its own, for the scenes of its programs; in  *)
(* the others the device rests where it began.                             *)
(***************************************************************************)
EXTENDS Firmware, SequenceTheorems, TLAPS

(***************************************************************************)
(* The timers and the watchdog.                                            *)
(*                                                                         *)
(* A count runs down by one in each cycle in which a history counts up by  *)
(* one, so their sum stays above the load until the count is out.  It is   *)
(* begun with the counter and its enable at rest: setup stops the unit,    *)
(* loads it and starts it, an access a cycle, and en_r follows en.         *)
(***************************************************************************)
CtrlRegs   == {"T0_CTRL", "T1_CTRL", "WDT_CTRL"}
LoadRegs   == {"T0_LOAD", "T1_LOAD", "WDT_LOAD"}
StatusRegs == {"T0_STATUS", "T1_STATUS", "WDT_STATUS"}
Settings   == {{}, {"EN"}, {"EN", "AUTO_RELOAD"}, {"EN", "AUTO_RELOAD", "IRQ_EN"}}

\* The accesses that neither load a unit nor start it.
Clearings == {W(r, 1) : r \in StatusRegs}
Plain ==
  {W(r, {}) : r \in CtrlRegs} \cup Clearings \cup {R(r) : r \in StatusRegs}
    \cup {<<"csrs", b>> : b \in {"external", "global"}}
    \cup (IF unit = "WDT" THEN {W("WDT_FEED", "MAGIC")} ELSE {})

\* What is left of a setup, and what it has done so far.
SetsUp(c, l, n, s) ==
  \/ todo = <<W(c, {}), W(l, n), W(c, s)>>
  \/ todo = <<W(l, n), W(c, s)>> /\ ctrl = {}
  \/ todo = <<W(c, s)>> /\ ctrl = {} /\ ~enR
AccessInv ==
  /\ Thread => isrTodo = <<>>
  /\ isrTodo \in Seq(Clearings)
  /\ \/ todo \in Seq(Plain)
     \/ \E c \in CtrlRegs, l \in LoadRegs, n \in Loads, s \in Settings : SetsUp(c, l, n, s)

CountInv ==
  /\ TimerTypeOK /\ ctrl \in Settings
  /\ unit = "WDT" => (fed => ran + count >= lasts)
  /\ unit # "WDT" =>
       /\ ~feed
       /\ en => load = lasts
       /\ en /\ enR => ran + count >= lasts + 1
       /\ en /\ enR /\ "IRQ_EN" \in ctrl => quiet + count >= lasts
       /\ flag => stale \/ ran >= lasts + 2

TimerInv == CountInv /\ AccessInv

LEMMA TimerInvIsEnough == CountInv => TimersKept
<1> SUFFICES ASSUME CountInv PROVE TimersKept
  OBVIOUS
<1>1. /\ ran \in Nat /\ quiet \in Nat /\ lasts \in Nat /\ count \in Nat
  BY TimerConstants DEF CountInv, TimerTypeOK, Counts, Longest
<1>2. FlagAfterLoad
  BY DEF CountInv, FlagAfterLoad
<1>3. IrqAfterLoad
  <2>1. irq => en /\ count = 0 /\ "IRQ_EN" \in ctrl
    BY DEF irq, timeout
  <2>2. CASE enR
    BY <1>1, <2>1, <2>2 DEF CountInv, IrqAfterLoad
  <2>3. CASE ~enR
    BY <2>1, <2>3 DEF IrqAfterLoad, en_rise
  <2> QED BY <2>2, <2>3
<1>4. ResetAfterPeriod
  <2>1. expired => count = 0
    BY DEF expired
  <2> QED BY <1>1, <2>1 DEF CountInv, ResetAfterPeriod
<1> QED BY <1>2, <1>3, <1>4 DEF TimersKept

\* What a cycle does to the counts, whatever the access that lands in it, if
\* it starts a unit at rest and loads one that is stopped.
LEMMA CycleKeepsCounts ==
  ASSUME CountInv, NEW lands \in BOOLEAN, TimerCycle(lands),
         ctrl' \in Settings, load' \in Counts,
         Starts(lands) => ~en /\ ~enR /\ load' = load,
         ~Starts(lands) => (en' => en) /\ ctrl' \subseteq ctrl /\ (en => load' = load),
         unit # "WDT" => ~feed'
  PROVE  CountInv'
<1> DEFINE begins == Starts(lands) \/ (feed /\ en)
<1>1. /\ unit \in Units /\ load \in Counts /\ count \in Counts /\ lasts \in Counts
      /\ enR \in BOOLEAN /\ flag \in BOOLEAN /\ clr \in BOOLEAN /\ feed \in BOOLEAN
      /\ rstReq \in BOOLEAN /\ pend \in BOOLEAN /\ stale \in BOOLEAN /\ fed \in BOOLEAN
      /\ rstCnt \in 0 .. RstCycles /\ ran \in 0 .. Longest /\ quiet \in 0 .. Longest
  BY DEF CountInv, TimerTypeOK
<1>2. /\ clr' \in BOOLEAN /\ feed' \in BOOLEAN /\ unit' = unit
      /\ pend' = (pend \/ (unit # "WDT" /\ irq /\ Thread))
      /\ ran' = IF begins THEN 0 ELSE Saturated(ran)
      /\ lasts' = IF begins THEN load ELSE lasts
      /\ quiet' = IF Starts(lands) \/ irq THEN 0 ELSE Saturated(quiet)
      /\ stale' = (flag' /\ (Starts(lands) \/ stale))
      /\ fed' = ((fed /\ ~Starts(lands)) \/ (feed /\ en))
  BY DEF TimerCycle, RegfileCycle
<1>3. unit # "WDT" => ChannelCycle
  BY DEF TimerCycle
<1>4. unit = "WDT" => WatchdogCycle
  BY DEF TimerCycle
<1> HIDE DEF begins
<1>5. AllOnes \in Nat /\ Longest = AllOnes + 2
  BY TimerConstants DEF Longest
<1>6. ASSUME NEW x \in 0 .. Longest
      PROVE  Saturated(x) \in 0 .. Longest /\ (Saturated(x) = x + 1 \/ (x = Longest /\ Saturated(x) = x))
  BY <1>5 DEF Saturated
<1>7. ran' \in 0 .. Longest /\ quiet' \in 0 .. Longest /\ lasts' \in Counts
  <2>1. 0 \in 0 .. Longest
    BY <1>5
  <2> QED BY <1>1, <1>2, <1>6, <2>1
<1>8. /\ pend' \in BOOLEAN /\ stale' \in BOOLEAN /\ fed' \in BOOLEAN
  BY <1>1, <1>2
<1>9. en \in BOOLEAN /\ en' \in BOOLEAN /\ begins \in BOOLEAN /\ irq \in BOOLEAN /\ Starts(lands) \in BOOLEAN
  BY DEF en, begins, irq, timeout, Starts, WritesCtrl, Writes
<1>10. Saturated(ran) >= ran /\ Saturated(ran) >= 1 /\ Saturated(quiet) >= quiet
  BY <1>1, <1>5, <1>6
<1>11. ASSUME unit # "WDT"
       PROVE  /\ flag' \in BOOLEAN /\ count' \in Counts /\ enR' = en /\ rstCnt' = rstCnt /\ rstReq' = rstReq
              /\ en' => load' = lasts'
              /\ en' /\ enR' => ran' + count' >= lasts' + 1
              /\ en' /\ enR' /\ "IRQ_EN" \in ctrl' => quiet' + count' >= lasts'
              /\ flag' => stale' \/ ran' >= lasts' + 2
  <2>1. /\ ~feed /\ (en => load = lasts)
        /\ en /\ enR => ran + count >= lasts + 1
        /\ en /\ enR /\ "IRQ_EN" \in ctrl => quiet + count >= lasts
        /\ flag => stale \/ ran >= lasts + 2
    BY <1>11 DEF CountInv
  <2>2. begins = Starts(lands)
    BY <1>9, <2>1 DEF begins
  <2>3. /\ enR' = en /\ rstCnt' = rstCnt /\ rstReq' = rstReq
        /\ flag' = ((en /\ count = 0 /\ enR) \/ (flag /\ ~clr))
        /\ en /\ ~enR => count' = load
        /\ ~en => count' = count
        /\ en /\ enR /\ count = 0 => count' = IF "AUTO_RELOAD" \in ctrl THEN load ELSE 0
        /\ en /\ enR /\ count # 0 => count' = count - 1
    BY <1>3, <1>9, <1>1, <1>11 DEF ChannelCycle, timeout, en_rise
  <2>4. /\ en \in BOOLEAN /\ enR \in BOOLEAN /\ load \in 0 .. AllOnes /\ count \in 0 .. AllOnes
        /\ lasts \in 0 .. AllOnes /\ ran \in 0 .. Longest /\ quiet \in 0 .. Longest
    BY <1>1, <1>9 DEF Counts
  <2>5. flag' \in BOOLEAN /\ count' \in Counts
    <3>1. flag' \in BOOLEAN
      BY <2>3
    <3>2. 0 \in 0 .. AllOnes /\ (count # 0 => count - 1 \in 0 .. AllOnes)
      BY <1>5, <2>4
    <3> QED BY <2>3, <2>4, <3>1, <3>2 DEF Counts
  <2>6. en' => load' = lasts'
    BY <1>2, <2>1, <2>2
  <2>7. ASSUME en', enR' PROVE /\ ran' + count' >= lasts' + 1
                               /\ "IRQ_EN" \in ctrl' => quiet' + count' >= lasts'
    <3>1. en /\ ~Starts(lands)
      BY <2>3, <2>7
    <3>2. /\ lasts' = lasts /\ load = lasts /\ ran' = Saturated(ran)
          /\ quiet' = IF irq THEN 0 ELSE Saturated(quiet)
      BY <1>2, <2>1, <2>2, <3>1
    <3>3. "IRQ_EN" \in ctrl' => "IRQ_EN" \in ctrl /\ "AUTO_RELOAD" \in ctrl
      BY <3>1 DEF CountInv, Settings
    <3>4. irq => count = 0
      BY DEF irq, timeout
    <3>5. CASE ~enR
      BY <1>5, <1>7, <1>10, <2>3, <2>4, <3>1, <3>2, <3>5
    <3>6. CASE enR /\ count = 0
      BY <1>5, <1>7, <1>10, <2>1, <2>3, <2>4, <3>1, <3>2, <3>3, <3>6
    <3>7. CASE enR /\ count # 0
      <4>1. count' = count - 1 /\ ran + count >= lasts + 1 /\ quiet' = Saturated(quiet)
        BY <2>1, <2>3, <3>1, <3>2, <3>4, <3>7
      <4>2. Saturated(ran) = ran + 1 \/ Saturated(ran) = AllOnes + 2
        BY <1>5, <1>6, <2>4
      <4>3. Saturated(quiet) = quiet + 1 \/ Saturated(quiet) = AllOnes + 2
        BY <1>5, <1>6, <2>4
      <4>4. "IRQ_EN" \in ctrl' => quiet + count >= lasts
        BY <2>1, <3>1, <3>3, <3>7
      <4> QED BY <1>5, <2>4, <3>2, <3>7, <4>1, <4>2, <4>3, <4>4
    <3> QED BY <2>4, <3>5, <3>6, <3>7
  <2>8. ASSUME flag' PROVE stale' \/ ran' >= lasts' + 2
    <3>1. CASE en /\ count = 0 /\ enR
      <4>1. ran >= lasts + 1 /\ ran' = Saturated(ran) /\ lasts' = lasts
        BY <1>2, <2>1, <2>2, <2>4, <3>1
      <4>2. Saturated(ran) = ran + 1 \/ Saturated(ran) = AllOnes + 2
        BY <1>5, <1>6, <2>4
      <4> QED BY <1>5, <2>4, <4>1, <4>2
    <3>2. CASE flag
      <4>1. CASE Starts(lands)
        BY <1>2, <2>8, <4>1
      <4>2. CASE ~Starts(lands)
        <5>1. ran' = Saturated(ran) /\ lasts' = lasts /\ stale' = stale
          BY <1>1, <1>2, <2>2, <2>8, <4>2
        <5> QED BY <1>5, <1>7, <1>10, <2>1, <2>4, <3>2, <5>1
      <4> QED BY <4>1, <4>2
    <3> QED BY <2>3, <2>8, <3>1, <3>2
  <2> QED BY <2>3, <2>5, <2>6, <2>7, <2>8
<1>12. ASSUME unit = "WDT"
       PROVE  /\ flag' \in BOOLEAN /\ count' \in Counts /\ enR' = en
              /\ rstCnt' \in 0 .. RstCycles /\ rstReq' \in BOOLEAN
              /\ fed' => ran' + count' >= lasts'
  <2>1. /\ enR' = en
        /\ count' = IF feed /\ en THEN load ELSE IF en /\ ~expired THEN count - 1 ELSE count
        /\ flag' \in BOOLEAN /\ rstReq' \in BOOLEAN
        /\ rstCnt' = IF rstCnt # 0 THEN rstCnt - 1
                     ELSE IF expired /\ ~flag THEN RstCycles ELSE 0
    BY <1>4, <1>12 DEF WatchdogCycle
  <2>2. rstCnt' \in 0 .. RstCycles
    BY <1>1, <2>1, TimerConstants
  <2>3. /\ load \in 0 .. AllOnes /\ count \in 0 .. AllOnes /\ lasts \in 0 .. AllOnes
        /\ ran \in 0 .. Longest /\ (expired <=> en /\ count = 0)
    BY <1>1 DEF Counts, expired
  <2>4. count' \in Counts
    <3>1. count # 0 => count - 1 \in 0 .. AllOnes
      BY <1>5, <2>3
    <3> QED BY <2>1, <2>3, <3>1 DEF Counts
  <2>5. ASSUME fed' PROVE ran' + count' >= lasts'
    <3>1. CASE feed /\ en
      <4>1. count' = load /\ lasts' = load /\ ran' = 0
        BY <1>2, <2>1, <3>1 DEF begins
      <4> QED BY <1>5, <2>3, <4>1
    <3>2. CASE ~(feed /\ en)
      <4>1. fed /\ ~Starts(lands)
        BY <1>2, <2>5, <3>2
      <4>2. lasts' = lasts /\ ran' = Saturated(ran) /\ ran + count >= lasts
        BY <1>2, <1>12, <3>2, <4>1 DEF begins, CountInv
      <4>3. count' = count \/ (count # 0 /\ count' = count - 1)
        BY <2>1, <2>3, <3>2
      <4>4. Saturated(ran) = ran + 1 \/ (ran = AllOnes + 2 /\ Saturated(ran) = ran)
        BY <1>5, <1>6, <2>3
      <4> QED BY <1>5, <2>3, <4>2, <4>3, <4>4
    <3> QED BY <3>1, <3>2
  <2> QED BY <2>1, <2>2, <2>4, <2>5
<1>13. TimerTypeOK'
  <2>1. unit' \in Units /\ ctrl' \subseteq {"EN", "AUTO_RELOAD", "IRQ_EN"}
    BY <1>1, <1>2 DEF Settings
  <2>2. /\ flag' \in BOOLEAN /\ count' \in Counts /\ enR' \in BOOLEAN
        /\ rstCnt' \in 0 .. RstCycles /\ rstReq' \in BOOLEAN
    BY <1>1, <1>9, <1>11, <1>12
  <2> QED BY <1>2, <1>7, <1>8, <2>1, <2>2 DEF TimerTypeOK
<1> QED BY <1>2, <1>11, <1>12, <1>13 DEF CountInv

\* What lands: an access that is plain, the load of a setup, or its start.
LEMMA PlainLands ==
  ASSUME CountInv, Head(Current) \in Plain, TimerCycle(TRUE)
  PROVE  /\ ~Starts(TRUE) /\ load' = load /\ (ctrl' = ctrl \/ ctrl' = {})
         /\ unit # "WDT" => ~feed'
<1>1. PICK a : a = Head(Current)
  OBVIOUS
<1>2. a \in Plain
  BY <1>1
<1>3. a[1] = "write" => \/ a[2] \in CtrlRegs /\ a[3] = {}
                        \/ a[2] \in StatusRegs
                        \/ a[2] = "WDT_FEED" /\ unit = "WDT"
  BY <1>2 DEF Plain, Clearings, W, R
<1>4. a[1] # "merge"
  BY <1>2 DEF Plain, Clearings, W, R
<1>5. Op = a[1] /\ Reg = a[2] /\ (Op # "merge" => Written = a[3])
  BY <1>1 DEF Op, Reg, Written
<1>6. ~WritesLoad
  BY <1>3, <1>4, <1>5 DEF WritesLoad, Writes, CtrlRegs, StatusRegs
<1>7. WritesCtrl => Written = {}
  BY <1>3, <1>4, <1>5 DEF WritesCtrl, Writes, CtrlRegs, StatusRegs
<1>8. Writes("WDT_FEED") => unit = "WDT"
  BY <1>3, <1>4, <1>5 DEF Writes, CtrlRegs, StatusRegs
<1>9. /\ ctrl' = IF WritesCtrl THEN Written ELSE ctrl
      /\ load' = IF WritesLoad THEN Written ELSE load
      /\ feed' => Writes("WDT_FEED")
  BY DEF TimerCycle, RegfileCycle
<1> QED BY <1>6, <1>7, <1>8, <1>9 DEF Starts

LEMMA LoadLands ==
  ASSUME NEW l \in LoadRegs, NEW n \in Loads, Head(Current) = W(l, n), TimerCycle(TRUE)
  PROVE  ~Starts(TRUE) /\ load' = n /\ ctrl' = ctrl /\ ~feed'
<1>1. Op = "write" /\ Reg = l /\ Written = n
  BY DEF Op, Reg, Written, W
<1>2. ~WritesCtrl /\ WritesLoad /\ ~Writes("WDT_FEED")
  BY <1>1 DEF WritesCtrl, WritesLoad, Writes, LoadRegs
<1> QED BY <1>1, <1>2 DEF TimerCycle, RegfileCycle, Starts

LEMMA StartLands ==
  ASSUME NEW c \in CtrlRegs, NEW x \in Settings, Head(Current) = W(c, x), TimerCycle(TRUE)
  PROVE  (Starts(TRUE) <=> "EN" \in x) /\ load' = load /\ ctrl' = x /\ ~feed'
<1>1. Op = "write" /\ Reg = c /\ Written = x
  BY DEF Op, Reg, Written, W
<1>2. WritesCtrl /\ ~WritesLoad /\ ~Writes("WDT_FEED")
  BY <1>1 DEF WritesCtrl, WritesLoad, Writes, CtrlRegs
<1> QED BY <1>1, <1>2 DEF TimerCycle, RegfileCycle, Starts

\* en_r follows en.
LEMMA EnableFollows ==
  ASSUME NEW lands, TimerCycle(lands)
  PROVE  enR' = en /\ unit' = unit
BY DEF TimerCycle, ChannelCycle, WatchdogCycle

\* A setup goes on by what it writes, and by the cycle that goes by.
LEMMA PlainStep ==
  ASSUME CountInv, Head(Current) \in Plain, TimerCycle(TRUE)
  PROVE  CountInv'
<1>1. /\ ~Starts(TRUE) /\ load' = load /\ (ctrl' = ctrl \/ ctrl' = {})
      /\ unit # "WDT" => ~feed'
  BY PlainLands
<1>2. ctrl' \in Settings /\ load' \in Counts
  BY <1>1 DEF CountInv, TimerTypeOK, Settings
<1>3. (en' => en) /\ ctrl' \subseteq ctrl
  BY <1>1 DEF en
<1> QED BY <1>1, <1>2, <1>3, CycleKeepsCounts

LEMMA TimerAccessStep ==
  ASSUME TimerInv, TimerAccess
  PROVE  TimerInv'
<1>1. CountInv /\ Current # <<>> /\ TimerCycle(TRUE)
  BY DEF TimerInv, TimerAccess
<1>2. enR' = en /\ unit' = unit /\ Plain' = Plain
  BY <1>1, EnableFollows DEF Plain
<1>3. isr' = isr
  BY DEF TimerAccess, Access
<1>4. CASE ~Thread
  <2>1. Current = isrTodo /\ isrTodo' = Tail(isrTodo) /\ todo' = todo
    BY <1>4 DEF TimerAccess, Access, Current
  <2>2. isrTodo \in Seq(Clearings) /\ isrTodo # <<>>
    BY <1>1, <2>1 DEF TimerInv, AccessInv
  <2>3. Head(isrTodo) \in Clearings /\ isrTodo' \in Seq(Clearings)
    BY <2>1, <2>2
  <2>4. Head(Current) \in Plain
    BY <2>1, <2>3 DEF Plain
  <2>5. CountInv'
    BY <1>1, <2>4, PlainStep
  <2>6. ctrl = {} => ctrl' = {} /\ ~enR'
    BY <1>1, <1>2, <2>4, PlainLands DEF en
  <2>7. ~Thread'
    BY <1>3, <1>4 DEF Thread
  <2>8. todo' \in Seq(Plain)' \/ \E c \in CtrlRegs, l \in LoadRegs, n \in Loads, s \in Settings : SetsUp(c, l, n, s)'
    <3>1. CASE todo \in Seq(Plain)
      BY <1>2, <2>1, <3>1
    <3>2. ASSUME NEW c \in CtrlRegs, NEW l \in LoadRegs, NEW n \in Loads, NEW s \in Settings,
                 SetsUp(c, l, n, s)
          PROVE  SetsUp(c, l, n, s)'
      BY <2>1, <2>6, <3>2 DEF SetsUp
    <3> QED BY <3>1, <3>2 DEF TimerInv, AccessInv
  <2> QED BY <2>3, <2>5, <2>7, <2>8 DEF TimerInv, AccessInv
<1>5. CASE Thread
  <2>1. Current = todo /\ todo' = Tail(todo) /\ isrTodo' = isrTodo /\ Thread'
    BY <1>3, <1>5 DEF TimerAccess, Access, Current, Thread
  <2>2. isrTodo' = <<>> /\ isrTodo' \in Seq(Clearings)
    BY <1>5, <2>1 DEF TimerInv, AccessInv
  <2>3. CASE todo \in Seq(Plain)
    <3>1. Head(todo) \in Plain /\ Tail(todo) \in Seq(Plain)
      BY <1>1, <2>1, <2>3
    <3>2. CountInv'
      BY <1>1, <2>1, <3>1, PlainStep
    <3>3. todo' \in Seq(Plain)'
      BY <1>2, <2>1, <3>1
    <3> QED BY <2>2, <3>2, <3>3 DEF TimerInv, AccessInv
  <2>4. ASSUME NEW c \in CtrlRegs, NEW l \in LoadRegs, NEW n \in Loads, NEW s \in Settings,
               SetsUp(c, l, n, s)
        PROVE  TimerInv'
    <3>1. CASE todo = <<W(c, {}), W(l, n), W(c, s)>>
      <4>1. Head(Current) = W(c, {}) /\ todo' = <<W(l, n), W(c, s)>>
        BY <2>1, <3>1
      <4>2. W(c, {}) \in Plain /\ {} \in Settings
        BY DEF Plain, Settings
      <4>3. ctrl' = {}
        BY <1>1, <4>1, <4>2, StartLands
      <4>4. SetsUp(c, l, n, s)'
        BY <4>1, <4>3 DEF SetsUp
      <4>5. CountInv'
        BY <1>1, <4>1, <4>2, PlainStep
      <4> QED BY <2>2, <4>4, <4>5 DEF TimerInv, AccessInv
    <3>2. CASE todo = <<W(l, n), W(c, s)>> /\ ctrl = {}
      <4>1. Head(Current) = W(l, n) /\ todo' = <<W(c, s)>>
        BY <2>1, <3>2
      <4>2. ~Starts(TRUE) /\ load' = n /\ ctrl' = {} /\ ~feed'
        BY <1>1, <3>2, <4>1, LoadLands
      <4>3. SetsUp(c, l, n, s)'
        BY <1>2, <3>2, <4>1, <4>2 DEF SetsUp, en
      <4>4. ctrl' \in Settings /\ load' \in Counts /\ ~en /\ ~en'
        BY <3>2, <4>2, TimerConstants DEF Settings, Counts, en
      <4>5. CountInv'
        BY <1>1, <3>2, <4>2, <4>4, CycleKeepsCounts
      <4> QED BY <2>2, <4>3, <4>5 DEF TimerInv, AccessInv
    <3>3. CASE todo = <<W(c, s)>> /\ ctrl = {} /\ ~enR
      <4>1. Head(Current) = W(c, s) /\ todo' = <<>>
        BY <2>1, <3>3
      <4>2. (Starts(TRUE) <=> "EN" \in s) /\ load' = load /\ ctrl' = s /\ ~feed'
        BY <1>1, <4>1, StartLands
      <4>3. todo' \in Seq(Plain)'
        BY <4>1
      <4>4. ctrl' \in Settings /\ load' \in Counts /\ ~en
        BY <1>1, <3>3, <4>2 DEF CountInv, TimerTypeOK, en
      <4>5. ~Starts(TRUE) => ~en' /\ ctrl' = {}
        BY <4>2 DEF en, Settings
      <4>6. CountInv'
        BY <1>1, <3>3, <4>2, <4>4, <4>5, CycleKeepsCounts
      <4> QED BY <2>2, <4>3, <4>6 DEF TimerInv, AccessInv
    <3> QED BY <2>4, <3>1, <3>2, <3>3 DEF SetsUp
  <2> QED BY <2>3, <2>4 DEF TimerInv, AccessInv
<1> QED BY <1>4, <1>5

\* A cycle without an access.
LEMMA IdleStep ==
  ASSUME TimerInv, TimerIdles
  PROVE  TimerInv'
<1>1. /\ CountInv /\ TimerCycle(FALSE)
      /\ todo' = todo /\ isr' = isr /\ isrTodo' = isrTodo
  BY DEF TimerInv, TimerIdles, hart, thread, handler
<1>2. ctrl' = ctrl /\ load' = load /\ ~feed' /\ ~Starts(FALSE)
  BY <1>1 DEF TimerCycle, RegfileCycle, Starts
<1>3. CountInv'
  <2>1. ctrl' \in Settings /\ load' \in Counts /\ (en' => en)
    BY <1>1, <1>2 DEF CountInv, TimerTypeOK, en
  <2> QED BY <1>1, <1>2, <2>1, CycleKeepsCounts
<1>4. enR' = en /\ unit' = unit /\ Plain' = Plain
  BY <1>1, EnableFollows DEF Plain
<1>5. (Thread => isrTodo = <<>>)' /\ isrTodo' \in Seq(Clearings)
  BY <1>1 DEF TimerInv, AccessInv, Thread
<1>6. CASE todo \in Seq(Plain)
  BY <1>1, <1>3, <1>4, <1>5, <1>6 DEF TimerInv, AccessInv
<1>7. ASSUME NEW c \in CtrlRegs, NEW l \in LoadRegs, NEW n \in Loads, NEW s \in Settings,
             SetsUp(c, l, n, s)
      PROVE  SetsUp(c, l, n, s)'
  BY <1>1, <1>2, <1>4, <1>7 DEF SetsUp, en
<1> QED BY <1>3, <1>5, <1>6, <1>7 DEF TimerInv, AccessInv

\* A step of the program that leaves the device alone, but for the latch of
\* the interrupt.
CountVars == <<unit, ctrl, load, enR, count, flag, clr, feed, rstCnt, rstReq, timerHistory>>
LEMMA CountKept ==
  ASSUME CountInv, UNCHANGED CountVars, pend' \in BOOLEAN
  PROVE  CountInv' /\ Plain' = Plain
<1>1. UNCHANGED <<unit, ctrl, load, enR, count, flag, clr, feed, rstCnt, rstReq>>
  BY DEF CountVars
<1>2. UNCHANGED <<ran, lasts, quiet, stale, fed>>
  BY DEF CountVars, timerHistory
<1>3. TimerTypeOK'
  BY <1>1, <1>2 DEF CountInv, TimerTypeOK
<1> QED BY <1>1, <1>2, <1>3 DEF CountInv, Plain, en

\* The functions of timer.h: a setup, or accesses that are plain.
LEMMA CallsFit ==
  ASSUME NEW f,
         \/ \E n \in Loads : f = Of(timer0_oneshot(n), timer1_oneshot(n))
         \/ \E n \in Loads, i \in {{}, {"IRQ_EN"}} :
              f = Of(timer0_autoreload(n, i), timer1_autoreload(n, i))
         \/ \E n \in Loads : f = wdt_enable(n)
  PROVE  \E c \in CtrlRegs, l \in LoadRegs, n \in Loads, s \in Settings :
           f = <<W(c, {}), W(l, n), W(c, s)>>
<1>1. /\ "T0_CTRL" \in CtrlRegs /\ "T1_CTRL" \in CtrlRegs /\ "WDT_CTRL" \in CtrlRegs
      /\ "T0_LOAD" \in LoadRegs /\ "T1_LOAD" \in LoadRegs /\ "WDT_LOAD" \in LoadRegs
  BY DEF CtrlRegs, LoadRegs
<1>2. /\ {"EN"} \in Settings
      /\ \A i \in {{}, {"IRQ_EN"}} : {"EN", "AUTO_RELOAD"} \cup i \in Settings
  BY DEF Settings
<1>3. ASSUME NEW n \in Loads, f = Of(timer0_oneshot(n), timer1_oneshot(n))
      PROVE  \E c \in CtrlRegs, l \in LoadRegs, m \in Loads, s \in Settings :
               f = <<W(c, {}), W(l, m), W(c, s)>>
  BY <1>1, <1>2, <1>3 DEF Of, timer0_oneshot, timer1_oneshot
<1>4. ASSUME NEW n \in Loads, NEW i \in {{}, {"IRQ_EN"}},
             f = Of(timer0_autoreload(n, i), timer1_autoreload(n, i))
      PROVE  \E c \in CtrlRegs, l \in LoadRegs, m \in Loads, s \in Settings :
               f = <<W(c, {}), W(l, m), W(c, s)>>
  <2>1. PICK s \in Settings : s = {"EN", "AUTO_RELOAD"} \cup i
    BY <1>2
  <2>2. \/ f = <<W("T0_CTRL", {}), W("T0_LOAD", n), W("T0_CTRL", s)>>
        \/ f = <<W("T1_CTRL", {}), W("T1_LOAD", n), W("T1_CTRL", s)>>
    BY <1>4, <2>1 DEF Of, timer0_autoreload, timer1_autoreload
  <2> QED BY <1>1, <2>2
<1>5. ASSUME NEW n \in Loads, f = wdt_enable(n)
      PROVE  \E c \in CtrlRegs, l \in LoadRegs, m \in Loads, s \in Settings :
               f = <<W(c, {}), W(l, m), W(c, s)>>
  BY <1>1, <1>2, <1>5 DEF wdt_enable
<1> QED BY <1>3, <1>4, <1>5

LEMMA OthersFit ==
  /\ Of(timer0_wait_timeout, timer1_wait_timeout) \in Seq(Plain)
  /\ Of(timer0_clear, timer1_clear) \in Seq(Plain)
  /\ Of(timer0_clear, timer1_clear) \in Seq(Clearings)
  /\ Of(timer0_stop, timer1_stop) \in Seq(Plain)
  /\ unit = "WDT" => wdt_feed \in Seq(Plain)
  /\ wdt_disable \in Seq(Plain) /\ wdt_expired \in Seq(Plain) /\ wdt_clear \in Seq(Plain)
  /\ TimerStart \in Seq(Plain) /\ <<>> \in Seq(Plain)
<1>1. ASSUME NEW S, NEW a \in S PROVE <<a>> \in Seq(S)
  OBVIOUS
<1>2. /\ \A r \in StatusRegs : W(r, 1) \in Plain /\ W(r, 1) \in Clearings /\ R(r) \in Plain
      /\ \A r \in CtrlRegs : W(r, {}) \in Plain
      /\ \A b \in {"external", "global"} : <<"csrs", b>> \in Plain
      /\ unit = "WDT" => W("WDT_FEED", "MAGIC") \in Plain
  BY DEF Plain, Clearings
<1>3. /\ "T0_STATUS" \in StatusRegs /\ "T1_STATUS" \in StatusRegs /\ "WDT_STATUS" \in StatusRegs
      /\ "T0_CTRL" \in CtrlRegs /\ "T1_CTRL" \in CtrlRegs /\ "WDT_CTRL" \in CtrlRegs
  BY DEF StatusRegs, CtrlRegs
<1>4. /\ Of(timer0_wait_timeout, timer1_wait_timeout) \in Seq(Plain)
      /\ wdt_expired \in Seq(Plain)
  BY <1>1, <1>2, <1>3 DEF Of, timer0_wait_timeout, timer1_wait_timeout, wdt_expired
<1>5. /\ Of(timer0_clear, timer1_clear) \in Seq(Plain)
      /\ Of(timer0_clear, timer1_clear) \in Seq(Clearings)
      /\ wdt_clear \in Seq(Plain)
  BY <1>1, <1>2, <1>3 DEF Of, timer0_clear, timer1_clear, wdt_clear
<1>6. Of(timer0_stop, timer1_stop) \in Seq(Plain) /\ wdt_disable \in Seq(Plain)
  BY <1>1, <1>2, <1>3 DEF Of, timer0_stop, timer1_stop, wdt_disable
<1>7. unit = "WDT" => wdt_feed \in Seq(Plain)
  BY <1>1, <1>2 DEF wdt_feed
<1>8. TimerStart \in Seq(Plain)
  <2>1. irq_enable_external \in Seq(Plain) /\ irq_enable_global \in Seq(Plain)
    BY <1>1, <1>2 DEF irq_enable_external, irq_enable_global
  <2> QED BY <2>1 DEF TimerStart
<1> QED BY <1>4, <1>5, <1>6, <1>7, <1>8

\* A function begins, or goes on, with accesses that are plain or a setup.
LEMMA ProgramStep ==
  ASSUME TimerInv, UNCHANGED CountVars, pend' \in BOOLEAN,
         (Thread => isrTodo = <<>>)', isrTodo' \in Seq(Clearings),
         \/ todo' \in Seq(Plain)
         \/ todo' = todo
         \/ \E c \in CtrlRegs, l \in LoadRegs, n \in Loads, s \in Settings :
              todo' = <<W(c, {}), W(l, n), W(c, s)>>
  PROVE  TimerInv'
<1>1. CountInv' /\ Plain' = Plain /\ enR' = enR /\ ctrl' = ctrl
  BY CountKept DEF TimerInv, CountVars
<1>2. CASE todo' \in Seq(Plain)
  BY <1>1, <1>2 DEF TimerInv, AccessInv
<1>3. CASE todo' = todo
  <2>1. \A c, l, n, s : SetsUp(c, l, n, s) => SetsUp(c, l, n, s)'
    BY <1>1, <1>3 DEF SetsUp
  <2> QED BY <1>1, <1>3, <2>1 DEF TimerInv, AccessInv
<1>4. ASSUME NEW c \in CtrlRegs, NEW l \in LoadRegs, NEW n \in Loads, NEW s \in Settings,
             todo' = <<W(c, {}), W(l, n), W(c, s)>>
      PROVE  TimerInv'
  BY <1>1, <1>4 DEF TimerInv, AccessInv, SetsUp
<1> QED BY <1>2, <1>3, <1>4

LEMMA BoardStep ==
  ASSUME TimerInv, BoardResets
  PROVE  TimerInv'
<1>1. /\ ctrl' = {} /\ load' = AllOnes /\ enR' = FALSE /\ count' = AllOnes
      /\ flag' = FALSE /\ clr' = FALSE /\ feed' = FALSE /\ rstCnt' = 0 /\ rstReq' = FALSE
      /\ pend' = FALSE /\ stale' = FALSE /\ fed' = FALSE
      /\ UNCHANGED <<unit, ran, lasts, quiet, isr, isrTodo, isrSeen>> /\ todo' = TimerStart
  BY DEF BoardResets, handler
<1>2. AllOnes \in Counts /\ 0 \in 0 .. RstCycles
  BY TimerConstants DEF Counts
<1>3. TimerTypeOK'
  BY <1>1, <1>2 DEF TimerInv, CountInv, TimerTypeOK
<1>4. ~en' /\ ctrl' \in Settings
  BY <1>1 DEF en, Settings
<1>5. CountInv'
  BY <1>1, <1>3, <1>4 DEF CountInv
<1>6. todo' \in Seq(Plain)'
  BY <1>1, OthersFit DEF Plain
<1> QED BY <1>1, <1>5, <1>6 DEF TimerInv, AccessInv, Thread

LEMMA TimerStep ==
  ASSUME TimerInv, TimerNext
  PROVE  TimerInv'
<1>1. CASE TimerAccess
  BY <1>1, TimerAccessStep
<1>2. CASE TimerIdles
  BY <1>2, IdleStep
<1>3. CASE BoardResets
  BY <1>3, BoardStep
<1>4. pend \in BOOLEAN /\ (UNCHANGED timerVars => UNCHANGED CountVars /\ pend' = pend)
  BY DEF TimerInv, CountInv, TimerTypeOK, timerVars, timer, CountVars
<1>5. ASSUME UNCHANGED handler PROVE (Thread => isrTodo = <<>>)' /\ isrTodo' \in Seq(Clearings)
  BY <1>5 DEF handler, TimerInv, AccessInv, Thread
<1>6. ASSUME NEW name, NEW f, Begin(name, f) PROVE UNCHANGED handler /\ todo' = f
  BY <1>6 DEF Begin
<1>7. CASE ChannelCall
  <2>1. \E name, f : /\ Begin(name, f)
                     /\ \/ f \in Seq(Plain)
                        \/ \E c \in CtrlRegs, l \in LoadRegs, n \in Loads, s \in Settings :
                             f = <<W(c, {}), W(l, n), W(c, s)>>
    <3>1. CASE \E n \in Loads : Begin("setup", Of(timer0_oneshot(n), timer1_oneshot(n)))
      BY <3>1, CallsFit
    <3>2. CASE \E n \in Loads, i \in {{}, {"IRQ_EN"}} :
                 Begin("setup", Of(timer0_autoreload(n, i), timer1_autoreload(n, i)))
      <4>1. PICK n \in Loads, i \in {{}, {"IRQ_EN"}} :
                Begin("setup", Of(timer0_autoreload(n, i), timer1_autoreload(n, i)))
        BY <3>2
      <4>2. PICK f : f = Of(timer0_autoreload(n, i), timer1_autoreload(n, i))
        OBVIOUS
      <4>3. \E c \in CtrlRegs, l \in LoadRegs, m \in Loads, s \in Settings :
              f = <<W(c, {}), W(l, m), W(c, s)>>
        BY <4>2, CallsFit
      <4> QED BY <4>1, <4>2, <4>3
    <3>3. CASE \/ Begin("wait", Of(timer0_wait_timeout, timer1_wait_timeout))
               \/ Begin("other", Of(timer0_clear, timer1_clear))
               \/ Begin("other", Of(timer0_stop, timer1_stop))
      BY <3>3, OthersFit
    <3> QED BY <1>7, <3>1, <3>2, <3>3 DEF ChannelCall
  <2> QED BY <1>4, <1>5, <1>6, <1>7, <2>1, ProgramStep DEF ChannelCall
<1>8. CASE WatchdogCall
  <2>1. \E name, f : /\ Begin(name, f)
                     /\ \/ f \in Seq(Plain)
                        \/ \E c \in CtrlRegs, l \in LoadRegs, n \in Loads, s \in Settings :
                             f = <<W(c, {}), W(l, n), W(c, s)>>
    <3>1. CASE \E n \in Loads : Begin("setup", wdt_enable(n))
      BY <3>1, CallsFit
    <3>2. CASE \E f \in {wdt_feed, wdt_disable, wdt_expired, wdt_clear} : Begin("other", f)
      BY <1>8, <3>2, OthersFit DEF WatchdogCall
    <3> QED BY <1>8, <3>1, <3>2 DEF WatchdogCall
  <2> QED BY <1>4, <1>5, <1>6, <1>8, <2>1, ProgramStep DEF WatchdogCall
<1>9. CASE WaitsOn
  <2>1. todo' = Of(timer0_wait_timeout, timer1_wait_timeout) /\ UNCHANGED handler /\ UNCHANGED timerVars
    BY <1>9 DEF WaitsOn, Continue
  <2> QED BY <1>4, <1>5, <2>1, OthersFit, ProgramStep
<1>10. CASE TimerReturn
  <2>1. todo' = todo /\ UNCHANGED handler /\ UNCHANGED timerVars
    BY <1>10 DEF TimerReturn, Return
  <2> QED BY <1>4, <1>5, <2>1, ProgramStep
<1>11. CASE TimerInterrupt
  <2>1. /\ todo' = todo /\ isr' = "external" /\ isrTodo' = Of(timer0_clear, timer1_clear)
        /\ UNCHANGED CountVars /\ pend' = FALSE
    BY <1>11 DEF TimerInterrupt, Interrupt, thread, CountVars
  <2>2. (Thread => isrTodo = <<>>)' /\ isrTodo' \in Seq(Clearings)
    BY <2>1, OthersFit DEF Thread
  <2> QED BY <2>1, <2>2, ProgramStep
<1>12. CASE TimerMret
  <2>1. todo' = todo /\ isrTodo' = isrTodo /\ isrTodo = <<>> /\ UNCHANGED timerVars
    BY <1>12 DEF TimerMret, Mret, HandlerAt, thread
  <2>2. (Thread => isrTodo = <<>>)' /\ isrTodo' \in Seq(Clearings)
    BY <2>1
  <2> QED BY <1>4, <2>1, <2>2, ProgramStep
<1> QED BY <1>1, <1>2, <1>3, <1>7, <1>8, <1>9, <1>10, <1>11, <1>12 DEF TimerNext

\* In the other scenes no timer runs.
TimersRest == unit = "WDT" /\ ctrl = {} /\ flag = FALSE /\ fed = FALSE
TimersInv  == IF scene = "timer" THEN TimerInv ELSE TimersRest

LEMMA TimersStart == Init => TimersInv
<1> SUFFICES ASSUME Init PROVE TimersInv
  OBVIOUS
<1>1. /\ unit \in Units /\ ctrl = {} /\ load = AllOnes /\ enR = FALSE
      /\ count = IF unit = "WDT" THEN AllOnes ELSE 0
      /\ flag = FALSE /\ clr = FALSE /\ feed = FALSE /\ rstCnt = 0 /\ rstReq = FALSE
      /\ pend = FALSE
      /\ ran = 0 /\ lasts = 0 /\ quiet = 0 /\ stale = FALSE /\ fed = FALSE
  BY DEF Init, TimerInit
<1>2. CASE scene = "timer"
  <2>1. AllOnes \in Counts /\ 0 \in Counts /\ 0 \in 0 .. RstCycles /\ 0 \in 0 .. Longest
    BY TimerConstants DEF Counts, Longest
  <2>2. TimerTypeOK
    BY <1>1, <2>1 DEF TimerTypeOK
  <2>3. ~en /\ ctrl \in Settings
    BY <1>1 DEF en, Settings
  <2>4. CountInv
    BY <1>1, <2>2, <2>3 DEF CountInv
  <2>5. todo = TimerStart /\ isrTodo = <<>>
    BY <1>2 DEF Init, HartInit, StartOf
  <2>6. AccessInv
    BY <2>5, OthersFit DEF AccessInv
  <2> QED BY <1>2, <2>4, <2>6 DEF TimersInv, TimerInv
<1>3. CASE scene # "timer"
  BY <1>1, <1>3 DEF Init, TimersInv, TimersRest
<1> QED BY <1>2, <1>3

LEMMA TimersGoOn == TimersInv /\ [Next]_vars => TimersInv'
<1> SUFFICES ASSUME TimersInv, [Next]_vars PROVE TimersInv'
  OBVIOUS
<1>1. CASE Timer
  BY <1>1, TimerStep DEF Timer, TimersInv
<1>2. CASE scene # "timer" /\ UNCHANGED <<scene, timerVars>>
  BY <1>2 DEF TimersInv, TimersRest, timerVars, timer, timerHistory
<1>3. CASE UNCHANGED vars
  <2>1. UNCHANGED <<scene, todo, isr, isrTodo>> /\ UNCHANGED timerVars
    BY <1>3 DEF vars, hart, thread, handler, devices
  <2>2. CASE scene = "timer"
    <3>1. /\ TimerInv /\ UNCHANGED CountVars /\ pend' = pend /\ pend \in BOOLEAN
      BY <2>1, <2>2 DEF TimersInv, TimerInv, CountInv, TimerTypeOK, timerVars, timer, CountVars
    <3>2. (Thread => isrTodo = <<>>)' /\ isrTodo' \in Seq(Clearings)
      BY <2>1, <3>1 DEF TimerInv, AccessInv, Thread
    <3> QED BY <2>1, <2>2, <3>1, <3>2, ProgramStep DEF TimersInv
  <2> QED BY <1>2, <2>1, <2>2
<1> QED BY <1>1, <1>2, <1>3 DEF Next, Clint, Perf, Uart, Spi, Irq, Ascon

\* The flag of a timer, its interrupt and the reset of the watchdog come when
\* the drivers of timer.h say (timer.h:75-82, timer_channel.v:11, wdt_core.v),
\* for every load, whatever the handler does between the accesses.
THEOREM TimersAreKept == Spec => []TimersKept
<1>1. TimersInv => TimersKept
  <2>1. TimersRest => TimersKept
    BY DEF TimersRest, TimersKept, FlagAfterLoad, IrqAfterLoad, ResetAfterPeriod, expired, en
  <2> QED BY <2>1, TimerInvIsEnough DEF TimersInv, TimerInv
<1> QED BY <1>1, TimersStart, TimersGoOn, PTL DEF Spec

-----------------------------------------------------------------------------
(***************************************************************************)
(* The 64-bit clocks.                                                      *)
(*                                                                         *)
(* The words a function has read are those of times in order, so two equal *)
(* high words have all between them on one page.  A deadline is set in     *)
(* three writes: between them the one in force is out of reach, and the    *)
(* shadow holds the low word, or a handler has crossed.                    *)
(***************************************************************************)
LEMMA WordsOf ==
  ASSUME NEW t \in Nat
  PROVE  Hi(t) \in Nat /\ Lo(t) \in 0 .. Half - 1 /\ Half * Hi(t) + Lo(t) = t
<1>1. Hi(t) \in Nat /\ Lo(t) \in 0 .. Half - 1
  BY ClintConstants DEF Hi, Lo
<1>2. Half * Hi(t) + Lo(t) = t
  BY ClintConstants DEF Hi, Lo
<1> QED BY <1>1, <1>2

LEMMA Steps ==
  ASSUME NEW h \in Nat, NEW a \in Nat, NEW b \in Nat, a < b
  PROVE  h * a + h <= h * b
<1>1. PICK k \in Nat : b = a + 1 + k
  <2>1. b - (a + 1) \in Nat
    OBVIOUS
  <2> QED BY <2>1
<1>2. h * a \in Nat /\ h * k \in Nat
  OBVIOUS
<1>3. h * b = h * a + h + h * k
  BY <1>1
<1> QED BY <1>2, <1>3

LEMMA Pages ==
  ASSUME NEW h \in Nat, NEW x \in Nat, NEW y \in Nat, NEW v \in Nat, NEW w \in Nat,
         w < h, h * x + v <= h * y + w
  PROVE  x <= y
<1>1. SUFFICES ASSUME y < x PROVE FALSE
  OBVIOUS
<1>2. h * y + h <= h * x
  BY <1>1, Steps
<1>3. h * x \in Nat /\ h * y \in Nat
  OBVIOUS
<1> QED BY <1>2, <1>3

LEMMA HighWordGrows ==
  ASSUME NEW a \in Nat, NEW b \in Nat, a <= b
  PROVE  Hi(a) <= Hi(b)
<1>1. Half \in Nat /\ Hi(a) \in Nat /\ Lo(a) \in Nat /\ Half * Hi(a) + Lo(a) = a
  BY WordsOf, ClintConstants
<1>2. Hi(b) \in Nat /\ Lo(b) \in Nat /\ Lo(b) < Half /\ Half * Hi(b) + Lo(b) = b
  BY WordsOf, ClintConstants
<1> QED BY <1>1, <1>2, Pages

\* Times between two on one page are on it.
LEMMA OnePage ==
  ASSUME NEW a \in Nat, NEW b \in Nat, NEW c \in Nat, a <= b, b <= c, Hi(a) = Hi(c)
  PROVE  Hi(b) = Hi(a)
<1>1. Hi(a) <= Hi(b) /\ Hi(b) <= Hi(c)
  BY HighWordGrows
<1>2. Hi(a) \in Nat /\ Hi(b) \in Nat
  BY WordsOf
<1> QED BY <1>1, <1>2

\* What a caller of clint_mtime, or of a counter, has left to read and has read.
ReadsClock(t, s, from) ==
  \/ t = clint_mtime /\ s = <<>>
  \/ \E t1 \in from .. mtime : t = <<R("mtime_lo"), R("mtime_hi")>> /\ s = <<Hi(t1)>>
  \/ \E t1 \in from .. mtime, t2 \in from .. mtime :
       t1 <= t2 /\ t = <<R("mtime_hi")>> /\ s = <<Hi(t1), Lo(t2)>>
  \/ \E t1 \in from .. mtime, t2 \in from .. mtime, t3 \in from .. mtime :
       t1 <= t2 /\ t2 <= t3 /\ t = <<>> /\ s = <<Hi(t1), Lo(t2), Hi(t3)>>
ReadsCount(t, s, from) ==
  \/ t \in {soc_perf_cycle64, soc_perf_instr64} /\ s = <<>>
  \/ \E t1 \in from .. counter : t \in {<<R("cycle_hi")>>, <<R("instr_hi")>>} /\ s = <<Lo(t1)>>
  \/ \E t1 \in from .. counter, t2 \in from .. counter :
       t1 <= t2 /\ t = <<>> /\ s = <<Lo(t1), Hi(t2)>>

\* What is left of the three writes of a deadline.
Arming(t, deadline) ==
  \/ t = clint_set_mtimecmp(deadline)
  \/ t = <<W("mtimecmp_lo", Lo(deadline)), CompareHi(Hi(deadline), deadline)>>
  \/ t = <<CompareHi(Hi(deadline), deadline)>>
  \/ t = <<>>
LastWrite(t, deadline) == t = <<CompareHi(Hi(deadline), deadline)>>

\* The accesses that touch no clock and no deadline.
Bare ==
  {<<"csrs", b>> : b \in {"software", "timer", "global"}}
    \cup {<<"csrc", b>> : b \in {"software", "timer", "global"}}
    \cup {W("msip", m) : m \in {0, 1}} \cup {W("perf_ctrl", on) : on \in BOOLEAN} \cup {R("msip")}
Reset == W("sys_ctrl", 1)

ClockInv ==
  /\ mtime \in 0 .. MaxTime /\ counter \in Nat /\ began \in Nat
  /\ mtimecmp \in Nat /\ shadow \in Nat /\ due \in Nat
  /\ crossed \in BOOLEAN /\ mixed \in BOOLEAN
  /\ ClocksReadTrue
  /\ ~mixed => mtimecmp = due \/ (due = Top /\ mtimecmp >= Half * (Half - 1))

ThreadInv ==
  \/ call \in {"none", "start", "other"} /\ todo \in Seq(Bare \cup {Reset})
  \/ call \in {"mtime", "arm"} /\ began <= mtime /\ ReadsClock(todo, seen, began)
  \/ call = "count" /\ began <= counter /\ ReadsCount(todo, seen, began)
  \/ /\ call \in {"arm", "other"} /\ seen = <<>>
     /\ \E d \in Nat : Arming(todo, d) /\ (LastWrite(todo, d) /\ ~crossed => shadow = Lo(d))

MsipThenClock == <<W("msip", 0), R("mtime_hi"), R("mtime_lo"), R("mtime_hi")>>
HandlerInv ==
  IF Thread THEN isrTodo = <<>> /\ isrSeen = <<>>
  ELSE \/ isrSeen = <<>> /\ isrTodo \in {<<W("msip", 0)>>, MsipThenClock}
       \/ ReadsClock(isrTodo, isrSeen, 0)
       \/ /\ isrSeen = <<>>
          /\ \E d \in Nat : Arming(isrTodo, d) /\ (LastWrite(isrTodo, d) => shadow = Lo(d))

ClintInv == ClockInv /\ ThreadInv /\ HandlerInv

LEMMA ClockInvIsEnough == ClockInv => ClintKept
<1> SUFFICES ASSUME ClockInv PROVE DeadlineKept
  BY DEF ClockInv, ClintKept
<1> SUFFICES ASSUME ~mixed PROVE timer_irq <=> mtime >= due
  BY DEF DeadlineKept
<1>1. /\ Half \in Nat /\ Half # 0 /\ MaxTime \in Nat /\ MaxTime < Half * (Half - 1)
      /\ mtime \in 0 .. MaxTime /\ mtimecmp \in Nat /\ due \in Nat
  BY ClintConstants DEF ClockInv
<1>2. CASE mtimecmp = due
  BY <1>2 DEF timer_irq
<1>3. CASE due = Top /\ mtimecmp >= Half * (Half - 1)
  <2>1. Half * (Half - 1) = Half * Half - Half /\ Half * Half \in Nat
    BY <1>1
  <2>2. Top >= Half * (Half - 1)
    BY <1>1, <2>1 DEF Top
  <2>3. mtime < Half * (Half - 1) /\ Half * (Half - 1) \in Int
    BY <1>1, <2>1
  <2> QED BY <1>1, <1>3, <2>2, <2>3 DEF timer_irq
<1> QED BY <1>2, <1>3 DEF ClockInv

\* An access moves on in the accesses of who runs.
LEMMA AccessMoves ==
  ASSUME ClintAccess
  PROVE  /\ Current # <<>> /\ Head(Current) # Reset
         /\ UNCHANGED <<call, isr, mtime, counter, began, told>> /\ Thread' = Thread
         /\ Thread => /\ Current = todo /\ todo' = Tail(todo) /\ UNCHANGED <<isrTodo, isrSeen>>
                      /\ seen' = IF Op = "read" THEN Append(seen, ClintRead) ELSE seen
         /\ ~Thread => /\ Current = isrTodo /\ isrTodo' = Tail(isrTodo) /\ UNCHANGED <<todo, seen>>
                       /\ isrSeen' = IF Op = "read" THEN Append(isrSeen, ClintRead) ELSE isrSeen
<1>1. Current # <<>> /\ ~Writes("sys_ctrl") /\ Access(ClintRead) /\ ClintWrite
  BY DEF ClintAccess
<1>2. Head(Current) # Reset
  BY <1>1 DEF Reset, W, Writes, Op, Reg
<1>3. UNCHANGED <<call, isr, mtime, counter, began, told>>
  BY <1>1 DEF Access, ClintWrite
<1>4. Thread' = Thread
  BY <1>3 DEF Thread
<1>5. CASE Thread
  BY <1>1, <1>2, <1>3, <1>4, <1>5 DEF Access, Current, Values
<1>6. CASE ~Thread
  BY <1>1, <1>2, <1>3, <1>4, <1>6 DEF Access, Current, Values
<1> QED BY <1>5, <1>6

\* An access that writes no word of a deadline leaves the deadline alone.
LEMMA ElseLands ==
  ASSUME ClockInv, ClintAccess, NEW a, a = Head(Current),
         a[1] \in {"read", "csrs", "csrc"} \/ (a[1] = "write" /\ a[2] \in {"msip", "perf_ctrl"})
  PROVE  /\ ClockInv' /\ UNCHANGED <<shadow, crossed>>
         /\ Op = a[1] /\ Reg = a[2]
<1>1. Op = a[1] /\ Reg = a[2]
  BY DEF Op, Reg
<1>2. ~Writes("mtimecmp_hi") /\ ~Writes("mtimecmp_lo")
  BY <1>1 DEF Writes
<1>3. UNCHANGED <<shadow, mtimecmp, due, mixed, mtime, counter, began, told>> /\ crossed' = crossed
  BY <1>2 DEF ClintAccess, ClintWrite, Register, ClockInv
<1> QED BY <1>1, <1>3 DEF ClockInv, ClocksReadTrue

LEMMA LowLands ==
  ASSUME ClockInv, ClintAccess, NEW v \in Nat, Head(Current) = W("mtimecmp_lo", v)
  PROVE  /\ ClockInv' /\ shadow' = v /\ Op # "read"
         /\ Thread => crossed' = crossed
         /\ ~Thread => crossed' = (crossed \/ Opened)
<1>1. Op = "write" /\ Reg = "mtimecmp_lo" /\ Written = v
  BY DEF Op, Reg, Written, W
<1>2. ~Writes("mtimecmp_hi") /\ Writes("mtimecmp_lo")
  BY <1>1 DEF Writes
<1>3. /\ UNCHANGED <<mtimecmp, due, mixed, mtime, counter, began, told>> /\ shadow' = v
      /\ crossed' = (crossed \/ (~Thread /\ Opened))
  BY <1>1, <1>2 DEF ClintAccess, ClintWrite, Register
<1>4. Opened \in BOOLEAN /\ crossed \in BOOLEAN
  BY DEF Opened, ClockInv
<1> QED BY <1>1, <1>3, <1>4 DEF ClockInv, ClocksReadTrue

LEMMA HighLands ==
  ASSUME ClockInv, ClintAccess, NEW hi \in Nat, NEW d \in Nat, Head(Current) = CompareHi(hi, d),
         ~(Thread /\ crossed) => Half * hi + shadow = d \/ (hi = Half - 1 /\ d = Top)
  PROVE  /\ ClockInv' /\ shadow' = shadow /\ Op # "read"
         /\ Thread => ~crossed'
         /\ ~Thread => crossed' = crossed
<1>1. Op = "write" /\ Reg = "mtimecmp_hi" /\ Written = hi /\ Head(Current)[4] = d
  BY DEF Op, Reg, Written, CompareHi
<1>2. Writes("mtimecmp_hi") /\ ~Writes("mtimecmp_lo")
  BY <1>1 DEF Writes
<1>3. /\ UNCHANGED <<shadow, mtime, counter, began, told>>
      /\ mtimecmp' = Half * hi + shadow /\ due' = d
      /\ mixed' = (Thread /\ crossed)
      /\ crossed' = IF Thread THEN FALSE ELSE crossed
  BY <1>1, <1>2 DEF ClintAccess, ClintWrite, Register, ClockInv
<1>4. /\ Half \in Nat \ {0} /\ shadow \in Nat /\ crossed \in BOOLEAN /\ Thread \in BOOLEAN
      /\ Half * hi \in Nat
  BY ClintConstants DEF ClockInv, Thread
<1>5. mtimecmp' \in Nat /\ mixed' \in BOOLEAN /\ crossed' \in BOOLEAN
  <2>1. mtimecmp' \in Nat
    BY <1>3, <1>4
  <2>2. mixed' \in BOOLEAN /\ crossed' \in BOOLEAN
    BY <1>3, <1>4
  <2> QED BY <2>1, <2>2
<1>6. ASSUME ~mixed' PROVE mtimecmp' = due' \/ (due' = Top /\ mtimecmp' >= Half * (Half - 1))
  <2>1. CASE Half * hi + shadow = d
    BY <1>3, <2>1
  <2>2. CASE hi = Half - 1 /\ d = Top
    <3>1. mtimecmp' = Half * (Half - 1) + shadow /\ Half * (Half - 1) \in Nat
      BY <1>3, <1>4, <2>2
    <3> QED BY <1>3, <1>4, <2>2, <3>1
  <2> QED BY <1>3, <1>6, <2>1, <2>2
<1> QED BY <1>1, <1>3, <1>5, <1>6 DEF ClockInv, ClocksReadTrue

LEMMA Appended1 == ASSUME NEW a, NEW b PROVE Append(<<a>>, b) = <<a, b>>
<1> DEFINE S == {a, b}
<1>1. <<a>> \in Seq(S) /\ <<a, b>> \in Seq(S) /\ b \in S
  OBVIOUS
<1>2. PICK t : t = Append(<<a>>, b) /\ t \in Seq(S) /\ Len(t) = 2 /\ t[1] = a /\ t[2] = b
  <2>1. Append(<<a>>, b) \in Seq(S) /\ Len(Append(<<a>>, b)) = 2
    BY <1>1, AppendProperties
  <2>2. Append(<<a>>, b)[1] = a /\ Append(<<a>>, b)[2] = b
    BY <1>1, AppendProperties
  <2>3. PICK t : t = Append(<<a>>, b)
    OBVIOUS
  <2> QED BY <2>1, <2>2, <2>3
<1>3. PICK u \in Seq(S) : u = <<a, b>> /\ Len(u) = 2 /\ u[1] = a /\ u[2] = b
  BY <1>1
<1>4. t \in Seq(S) /\ Len(t) = Len(u) /\ \A i \in 1 .. Len(t) : t[i] = u[i]
  BY <1>2, <1>3
<1>5. t = u
  <2> HIDE DEF S
  <2> QED BY <1>4, SeqEqual
<1> QED BY <1>2, <1>3, <1>5
LEMMA Appended2 == ASSUME NEW a, NEW b, NEW c PROVE Append(<<a, b>>, c) = <<a, b, c>>
<1> DEFINE S == {a, b, c}
<1>1. <<a, b>> \in Seq(S) /\ <<a, b, c>> \in Seq(S) /\ c \in S
  OBVIOUS
<1>2. PICK t : /\ t = Append(<<a, b>>, c) /\ t \in Seq(S) /\ Len(t) = 3
              /\ t[1] = a /\ t[2] = b /\ t[3] = c
  <2>1. Append(<<a, b>>, c) \in Seq(S) /\ Len(Append(<<a, b>>, c)) = 3
    BY <1>1, AppendProperties
  <2>2. Append(<<a, b>>, c)[1] = a /\ Append(<<a, b>>, c)[2] = b /\ Append(<<a, b>>, c)[3] = c
    BY <1>1, AppendProperties
  <2>3. PICK t : t = Append(<<a, b>>, c)
    OBVIOUS
  <2> QED BY <2>1, <2>2, <2>3
<1>3. PICK u \in Seq(S) : u = <<a, b, c>> /\ Len(u) = 3 /\ u[1] = a /\ u[2] = b /\ u[3] = c
  BY <1>1
<1>4. t \in Seq(S) /\ Len(t) = Len(u) /\ \A i \in 1 .. Len(t) : t[i] = u[i]
  BY <1>2, <1>3
<1>5. t = u
  <2> HIDE DEF S
  <2> QED BY <1>4, SeqEqual
<1> QED BY <1>2, <1>3, <1>5

\* The accesses of clint_mtime, one by one.
LEMMA ClockReadGoesOn ==
  ASSUME ClockInv, ClintAccess, NEW t, NEW s, NEW t2, NEW s2, NEW from \in Nat,
         ReadsClock(t, s, from), from <= mtime, t # <<>>, t = Current,
         t2 = Tail(t), s2 = IF Op = "read" THEN Append(s, ClintRead) ELSE s
  PROVE  ReadsClock(t2, s2, from)' /\ ClockInv' /\ UNCHANGED <<shadow, crossed>>
<1>1. mtime \in Nat /\ mtime' = mtime /\ mtime \in from .. mtime
  BY AccessMoves, ClintConstants DEF ClockInv
<1>2. ASSUME NEW reg, Head(t) = R(reg)
      PROVE  /\ ClockInv' /\ UNCHANGED <<shadow, crossed>>
             /\ Op = "read" /\ Reg = reg
  <2>1. PICK a : a = Head(Current)
    OBVIOUS
  <2>2. a[1] = "read" /\ a[2] = reg
    BY <1>2, <2>1 DEF R
  <2> QED BY <2>1, <2>2, ElseLands
<1>3. /\ Reg = "mtime_hi" => ClintRead = Hi(mtime)
      /\ Reg = "mtime_lo" => ClintRead = Lo(mtime)
  BY DEF ClintRead
<1>4. CASE t = clint_mtime /\ s = <<>>
  <2>1. Head(t) = R("mtime_hi") /\ t2 = <<R("mtime_lo"), R("mtime_hi")>>
    BY <1>4 DEF clint_mtime
  <2>2. s2 = <<Hi(mtime)>>
    BY <1>2, <1>3, <1>4, <2>1
  <2> QED BY <1>1, <1>2, <2>1, <2>2 DEF ReadsClock
<1>5. ASSUME NEW t1 \in from .. mtime, t = <<R("mtime_lo"), R("mtime_hi")>>, s = <<Hi(t1)>>
      PROVE  ReadsClock(t2, s2, from)' /\ ClockInv' /\ UNCHANGED <<shadow, crossed>>
  <2>1. Head(t) = R("mtime_lo") /\ t2 = <<R("mtime_hi")>>
    BY <1>5
  <2>2. s2 = <<Hi(t1), Lo(mtime)>>
    BY <1>2, <1>3, <1>5, <2>1, Appended1
  <2>3. t1 <= mtime
    BY <1>1
  <2> QED BY <1>1, <1>2, <2>1, <2>2, <2>3 DEF ReadsClock
<1>6. ASSUME NEW t1 \in from .. mtime, NEW u \in from .. mtime, t1 <= u,
             t = <<R("mtime_hi")>>, s = <<Hi(t1), Lo(u)>>
      PROVE  ReadsClock(t2, s2, from)' /\ ClockInv' /\ UNCHANGED <<shadow, crossed>>
  <2>1. Head(t) = R("mtime_hi") /\ t2 = <<>>
    BY <1>6
  <2>2. s2 = <<Hi(t1), Lo(u), Hi(mtime)>>
    BY <1>2, <1>3, <1>6, <2>1, Appended2
  <2>3. u <= mtime
    BY <1>1
  <2> QED BY <1>1, <1>2, <1>6, <2>1, <2>2, <2>3 DEF ReadsClock
<1> QED BY <1>4, <1>5, <1>6 DEF ReadsClock

\* The accesses of soc_perf_cycle64 and soc_perf_instr64, one by one.
LEMMA CountReadGoesOn ==
  ASSUME ClockInv, ClintAccess, NEW t, NEW s, NEW t2, NEW s2, NEW from \in Nat,
         ReadsCount(t, s, from), from <= counter, t # <<>>, t = Current,
         t2 = Tail(t), s2 = IF Op = "read" THEN Append(s, ClintRead) ELSE s
  PROVE  ReadsCount(t2, s2, from)' /\ ClockInv' /\ UNCHANGED <<shadow, crossed>>
<1>1. counter \in Nat /\ counter' = counter /\ counter \in from .. counter
  BY AccessMoves DEF ClockInv
<1>2. ASSUME NEW reg, Head(t) = R(reg)
      PROVE  /\ ClockInv' /\ UNCHANGED <<shadow, crossed>>
             /\ Op = "read" /\ Reg = reg
  <2>1. PICK a : a = Head(Current)
    OBVIOUS
  <2>2. a[1] = "read" /\ a[2] = reg
    BY <1>2, <2>1 DEF R
  <2> QED BY <2>1, <2>2, ElseLands
<1>3. /\ Reg \in {"cycle_hi", "instr_hi"} => ClintRead = Hi(counter)
      /\ Reg \in {"cycle_lo", "instr_lo"} => ClintRead = Lo(counter)
  BY DEF ClintRead
<1>4. CASE t \in {soc_perf_cycle64, soc_perf_instr64} /\ s = <<>>
  <2>1. PICK lo \in {"cycle_lo", "instr_lo"}, hi \in {"cycle_hi", "instr_hi"} : t = <<R(lo), R(hi)>>
    BY <1>4 DEF soc_perf_cycle64, soc_perf_instr64
  <2>2. Head(t) = R(lo) /\ t2 = <<R(hi)>>
    BY <2>1
  <2>3. s2 = <<Lo(counter)>>
    BY <1>2, <1>3, <1>4, <2>2
  <2> QED BY <1>1, <1>2, <2>2, <2>3 DEF ReadsCount
<1>5. ASSUME NEW t1 \in from .. counter, NEW hi \in {"cycle_hi", "instr_hi"},
             t = <<R(hi)>>, s = <<Lo(t1)>>
      PROVE  ReadsCount(t2, s2, from)' /\ ClockInv' /\ UNCHANGED <<shadow, crossed>>
  <2>1. Head(t) = R(hi) /\ t2 = <<>>
    BY <1>5
  <2>2. s2 = <<Lo(t1), Hi(counter)>>
    BY <1>2, <1>3, <1>5, <2>1, Appended1
  <2>3. t1 <= counter
    BY <1>1
  <2> QED BY <1>1, <1>2, <2>1, <2>2, <2>3 DEF ReadsCount
<1> QED BY <1>4, <1>5 DEF ReadsCount

\* The writes of a deadline, one by one, by the thread or by the handler.
LEMMA ArmingGoesOn ==
  ASSUME ClockInv, ClintAccess, NEW t, NEW t2, NEW d \in Nat,
         Arming(t, d), LastWrite(t, d) /\ ~(Thread /\ crossed) => shadow = Lo(d),
         t # <<>>, t = Current, t2 = Tail(t)
  PROVE  /\ Op # "read" /\ ClockInv' /\ Arming(t2, d)
         /\ LastWrite(t2, d) => shadow' = Lo(d)
         /\ Thread => (crossed' => crossed)
         /\ ~Thread => \/ crossed' = (crossed \/ Opened)
                       \/ crossed' = crossed /\ shadow' = shadow
<1>1. Hi(d) \in Nat /\ Lo(d) \in Nat /\ Half * Hi(d) + Lo(d) = d /\ Half - 1 \in Nat /\ Top \in Nat
  <2>1. Half \in Nat /\ Half * Half \in Nat /\ Half * Half >= 1
    <3>1. ASSUME NEW h \in Nat \ {0, 1} PROVE h * h \in Nat /\ h * h >= 1
      BY Steps
    <3> QED BY <3>1, ClintConstants
  <2> QED BY <2>1, WordsOf, ClintConstants DEF Top
<1>2. CASE t = clint_set_mtimecmp(d)
  <2>1. /\ Head(Current) = CompareHi(Half - 1, Top)
        /\ t2 = <<W("mtimecmp_lo", Lo(d)), CompareHi(Hi(d), d)>>
    BY <1>2 DEF clint_set_mtimecmp
  <2>2. ~LastWrite(t2, d) /\ Arming(t2, d)
    <3>1. \A a, b, c : <<a, b>> # <<c>>
      OBVIOUS
    <3>2. ~LastWrite(t2, d)
      BY <2>1, <3>1 DEF LastWrite
    <3> QED BY <2>1, <3>2 DEF Arming
  <2>3. /\ ClockInv' /\ shadow' = shadow /\ Op # "read" /\ (Thread => ~crossed')
        /\ ~Thread => crossed' = crossed
    BY <1>1, <2>1, HighLands
  <2> QED BY <2>2, <2>3
<1>3. CASE t = <<W("mtimecmp_lo", Lo(d)), CompareHi(Hi(d), d)>>
  <2>1. Head(Current) = W("mtimecmp_lo", Lo(d)) /\ t2 = <<CompareHi(Hi(d), d)>>
    BY <1>3
  <2>2. Arming(t2, d)
    BY <2>1 DEF Arming
  <2> QED BY <1>1, <2>1, <2>2, LowLands
<1>4. CASE t = <<CompareHi(Hi(d), d)>>
  <2>1. Head(Current) = CompareHi(Hi(d), d) /\ t2 = <<>>
    BY <1>4
  <2>2. Arming(t2, d) /\ ~LastWrite(t2, d)
    BY <2>1 DEF Arming, LastWrite
  <2>3. ~(Thread /\ crossed) => Half * Hi(d) + shadow = d
    BY <1>1, <1>4 DEF LastWrite
  <2> QED BY <1>1, <2>1, <2>2, <2>3, HighLands
<1> QED BY <1>2, <1>3, <1>4 DEF Arming

\* Where an access of nobody's clock is taken, and what is left after it.
LEMMA BareFits ==
  ASSUME NEW a \in Bare
  PROVE  /\ a[1] \in {"read", "csrs", "csrc"} \/ (a[1] = "write" /\ a[2] \in {"msip", "perf_ctrl"})
         /\ a[2] # "sys_ctrl"
<1>1. \A r, v : W(r, v)[1] = "write" /\ W(r, v)[2] = r
  BY DEF W
<1>2. \A r : R(r)[1] = "read" /\ R(r)[2] = r
  BY DEF R
<1>3. \A o, b : <<o, b>>[1] = o /\ <<o, b>>[2] = b
  OBVIOUS
<1> QED BY <1>1, <1>2, <1>3 DEF Bare

LEMMA SoftwareHandlerFits ==
  <<W("msip", 0)>> \o clint_mtime = MsipThenClock
<1> DEFINE S == {W("msip", 0), R("mtime_hi"), R("mtime_lo")}
<1>1. PICK m : m = <<W("msip", 0)>>
  OBVIOUS
<1>2. PICK c : c = clint_mtime
  OBVIOUS
<1>3. m \in Seq(S) /\ Len(m) = 1 /\ m[1] = W("msip", 0)
  BY <1>1
<1>4. /\ c \in Seq(S) /\ Len(c) = 3
      /\ c[1] = R("mtime_hi") /\ c[2] = R("mtime_lo") /\ c[3] = R("mtime_hi")
  BY <1>2 DEF clint_mtime
<1>5. PICK t : t = MsipThenClock
  OBVIOUS
<1>6. /\ t \in Seq(S) /\ Len(t) = 4 /\ t[1] = W("msip", 0)
      /\ t[2] = R("mtime_hi") /\ t[3] = R("mtime_lo") /\ t[4] = R("mtime_hi")
  BY <1>5 DEF MsipThenClock
<1>7. m \o c = t
  <2> HIDE DEF S
  <2>1. PICK u \in Seq(S) :
           /\ u = m \o c /\ Len(u) = 4
           /\ \A i \in 1 .. 4 : u[i] = IF i <= 1 THEN m[i] ELSE c[i - 1]
    <3>1. PICK u : u = m \o c
      OBVIOUS
    <3>2. /\ m \o c \in Seq(S) /\ Len(m \o c) = Len(m) + Len(c)
          /\ \A i \in 1 .. Len(m) + Len(c) :
               (m \o c)[i] = IF i <= Len(m) THEN m[i] ELSE c[i - Len(m)]
      BY <1>3, <1>4, ConcatProperties
    <3>3. /\ u \in Seq(S) /\ Len(u) = Len(m) + Len(c)
          /\ \A i \in 1 .. Len(m) + Len(c) : u[i] = IF i <= Len(m) THEN m[i] ELSE c[i - Len(m)]
      BY <3>1, <3>2
    <3>4. Len(m) = 1 /\ Len(c) = 3
      BY <1>3, <1>4
    <3>5. Len(m) + Len(c) = 4
      BY <3>4
    <3>6. Len(u) = 4 /\ \A i \in 1 .. 4 : u[i] = IF i <= 1 THEN m[i] ELSE c[i - 1]
      BY <3>3, <3>4, <3>5
    <3> QED BY <3>1, <3>3, <3>6
  <2>2. u[1] = m[1] /\ u[2] = c[1] /\ u[3] = c[2] /\ u[4] = c[3]
    BY <2>1
  <2>3. \A i \in 1 .. Len(u) : u[i] = t[i]
    BY <1>3, <1>4, <1>6, <2>1, <2>2
  <2> QED BY <1>6, <2>1, <2>3, SeqEqual
<1> QED BY <1>1, <1>2, <1>5, <1>7

\* What is the thread's stays so while nothing that it counts on moves back.
LEMMA ThreadWaits ==
  ASSUME ThreadInv, ClockInv, UNCHANGED <<call, todo, seen, began>>,
         mtime' \in Nat, counter' \in Nat, mtime <= mtime', counter <= counter',
         \/ UNCHANGED <<shadow, crossed>>
         \/ crossed' = (crossed \/ Opened)
  PROVE  ThreadInv'
<1>1. CASE call \in {"none", "start", "other"} /\ todo \in Seq(Bare \cup {Reset})
  BY <1>1 DEF ThreadInv, Bare, Reset
<1>2. CASE call \in {"mtime", "arm"} /\ began <= mtime /\ ReadsClock(todo, seen, began)
  <2>1. began <= mtime' /\ \A t1 \in began .. mtime : t1 \in began .. mtime'
    BY <1>2, ClintConstants DEF ClockInv
  <2>2. ReadsClock(todo, seen, began)'
    BY <1>2, <2>1 DEF ReadsClock
  <2> QED BY <1>2, <2>1, <2>2 DEF ThreadInv
<1>3. CASE call = "count" /\ began <= counter /\ ReadsCount(todo, seen, began)
  <2>1. began <= counter' /\ \A t1 \in began .. counter : t1 \in began .. counter'
    BY <1>3 DEF ClockInv
  <2>2. ReadsCount(todo, seen, began)'
    BY <1>3, <2>1 DEF ReadsCount
  <2> QED BY <1>3, <2>1, <2>2 DEF ThreadInv
<1>4. ASSUME call \in {"arm", "other"}, seen = <<>>, NEW d \in Nat, Arming(todo, d),
             LastWrite(todo, d) /\ ~crossed => shadow = Lo(d)
      PROVE  ThreadInv'
  <2>1. LastWrite(todo, d) => Opened
    BY DEF LastWrite, Opened, CompareHi
  <2>2. LastWrite(todo, d)' /\ ~crossed' => shadow' = Lo(d)
    BY <1>4, <2>1 DEF LastWrite
  <2>3. Arming(todo, d)'
    BY <1>4 DEF Arming
  <2> QED BY <1>4, <2>2, <2>3 DEF ThreadInv
<1> QED BY <1>1, <1>2, <1>3, <1>4 DEF ThreadInv

LEMMA ThreadAccess ==
  ASSUME ClintInv, ClintAccess, Thread
  PROVE  ClintInv'
<1>1. /\ todo # <<>> /\ Head(todo) # Reset /\ Current = todo /\ todo' = Tail(todo)
      /\ UNCHANGED <<call, isr, mtime, counter, began, told, isrTodo, isrSeen>> /\ Thread'
      /\ seen' = IF Op = "read" THEN Append(seen, ClintRead) ELSE seen
  BY AccessMoves
<1>2. HandlerInv'
  BY <1>1 DEF ClintInv, HandlerInv
<1>3. ClockInv /\ began \in Nat
  BY DEF ClintInv, ClockInv
<1>4. CASE call \in {"none", "start", "other"} /\ todo \in Seq(Bare \cup {Reset})
  <2>1. PICK a \in Bare : a = Head(todo)
    BY <1>1, <1>4, HeadTailProperties
  <2>2. todo' \in Seq(Bare \cup {Reset})
    BY <1>1, <1>4, HeadTailProperties
  <2>3. ClockInv'
    BY <1>1, <1>3, <2>1, BareFits, ElseLands
  <2> QED BY <1>1, <1>2, <1>4, <2>2, <2>3 DEF ClintInv, ThreadInv, Bare, Reset
<1>5. CASE call \in {"mtime", "arm"} /\ began <= mtime /\ ReadsClock(todo, seen, began)
  <2>1. PICK t2, s2 : t2 = todo' /\ s2 = seen'
    OBVIOUS
  <2>2. ReadsClock(t2, s2, began)' /\ ClockInv'
    BY <1>1, <1>3, <1>5, <2>1, ClockReadGoesOn
  <2> QED BY <1>1, <1>2, <1>5, <2>1, <2>2 DEF ClintInv, ThreadInv
<1>6. CASE call = "count" /\ began <= counter /\ ReadsCount(todo, seen, began)
  <2>1. PICK t2, s2 : t2 = todo' /\ s2 = seen'
    OBVIOUS
  <2>2. ReadsCount(t2, s2, began)' /\ ClockInv'
    BY <1>1, <1>3, <1>6, <2>1, CountReadGoesOn
  <2> QED BY <1>1, <1>2, <1>6, <2>1, <2>2 DEF ClintInv, ThreadInv
<1>7. ASSUME call \in {"arm", "other"}, seen = <<>>, NEW d \in Nat, Arming(todo, d),
             LastWrite(todo, d) /\ ~crossed => shadow = Lo(d)
      PROVE  ClintInv'
  <2>1. PICK t2 : t2 = todo'
    OBVIOUS
  <2>2. /\ Op # "read" /\ ClockInv' /\ Arming(t2, d)
        /\ LastWrite(t2, d) => shadow' = Lo(d)
    BY <1>1, <1>3, <1>7, <2>1, ArmingGoesOn
  <2> QED BY <1>1, <1>2, <1>7, <2>1, <2>2 DEF ClintInv, ThreadInv
<1> QED BY <1>4, <1>5, <1>6, <1>7 DEF ClintInv, ThreadInv

LEMMA HandlerAccess ==
  ASSUME ClintInv, ClintAccess, ~Thread
  PROVE  ClintInv'
<1>1. /\ isrTodo # <<>> /\ Current = isrTodo /\ isrTodo' = Tail(isrTodo)
      /\ UNCHANGED <<call, isr, mtime, counter, began, told, todo, seen>> /\ ~Thread'
      /\ isrSeen' = IF Op = "read" THEN Append(isrSeen, ClintRead) ELSE isrSeen
  BY AccessMoves
<1>2. ClockInv /\ mtime \in Nat /\ counter \in Nat /\ 0 <= mtime /\ crossed \in BOOLEAN
  BY ClintConstants DEF ClintInv, ClockInv
<1>3. ASSUME UNCHANGED <<shadow, crossed>> \/ crossed' = (crossed \/ Opened)
      PROVE  ThreadInv'
  BY <1>1, <1>2, <1>3, ThreadWaits DEF ClintInv
<1>4. CASE isrSeen = <<>> /\ isrTodo \in {<<W("msip", 0)>>, MsipThenClock}
  <2>1. PICK a : a = Head(isrTodo) /\ a = W("msip", 0)
    BY <1>4 DEF MsipThenClock
  <2>2. a[1] = "write" /\ a[2] = "msip"
    BY <2>1 DEF W
  <2>3. ClockInv' /\ UNCHANGED <<shadow, crossed>> /\ Op = "write"
    BY <1>1, <1>2, <2>1, <2>2, ElseLands
  <2>4. isrSeen' = <<>>
    BY <1>1, <1>4, <2>3
  <2>5. isrTodo' \in {<<>>, clint_mtime}
    <3>1. \A b : Tail(<<b>>) = <<>>
      OBVIOUS
    <3>2. Tail(MsipThenClock) = clint_mtime
      BY DEF MsipThenClock, clint_mtime
    <3> QED BY <1>1, <1>4, <3>1, <3>2
  <2>6. HandlerInv'
    <3>1. CASE isrTodo' = clint_mtime
      BY <1>1, <2>4, <3>1 DEF HandlerInv, ReadsClock
    <3>2. CASE isrTodo' = <<>>
      <4>1. Arming(isrTodo, 0)' /\ ~LastWrite(isrTodo, 0)'
        BY <3>2 DEF Arming, LastWrite
      <4> QED BY <1>1, <2>4, <4>1 DEF HandlerInv
    <3> QED BY <2>5, <3>1, <3>2
  <2> QED BY <1>3, <2>3, <2>6 DEF ClintInv
<1>5. CASE ReadsClock(isrTodo, isrSeen, 0)
  <2>1. PICK t2, s2 : t2 = isrTodo' /\ s2 = isrSeen'
    OBVIOUS
  <2>2. ReadsClock(t2, s2, 0)' /\ ClockInv' /\ UNCHANGED <<shadow, crossed>>
    BY <1>1, <1>2, <1>5, <2>1, ClockReadGoesOn
  <2> QED BY <1>1, <1>3, <2>1, <2>2 DEF ClintInv, HandlerInv
<1>6. ASSUME isrSeen = <<>>, NEW d \in Nat, Arming(isrTodo, d),
             LastWrite(isrTodo, d) => shadow = Lo(d)
      PROVE  ClintInv'
  <2>1. PICK t2 : t2 = isrTodo'
    OBVIOUS
  <2>2. /\ Op # "read" /\ ClockInv' /\ Arming(t2, d)
        /\ LastWrite(t2, d) => shadow' = Lo(d)
        /\ crossed' = (crossed \/ Opened) \/ UNCHANGED <<shadow, crossed>>
    BY <1>1, <1>2, <1>6, <2>1, ArmingGoesOn
  <2> QED BY <1>1, <1>3, <1>6, <2>1, <2>2 DEF ClintInv, HandlerInv
<1> QED BY <1>4, <1>5, <1>6 DEF ClintInv, HandlerInv

LEMMA HandlerWaits ==
  ASSUME HandlerInv, ClockInv, UNCHANGED <<handler, shadow>>, mtime' \in Nat, mtime <= mtime'
  PROVE  HandlerInv'
<1>1. UNCHANGED <<isr, isrTodo, isrSeen>> /\ Thread' = Thread
  BY DEF handler, Thread
<1>2. CASE Thread
  BY <1>1, <1>2 DEF HandlerInv
<1>3. CASE ~Thread /\ isrSeen = <<>> /\ isrTodo \in {<<W("msip", 0)>>, MsipThenClock}
  BY <1>1, <1>3 DEF HandlerInv
<1>4. CASE ~Thread /\ ReadsClock(isrTodo, isrSeen, 0)
  <2>1. \A t1 \in 0 .. mtime : t1 \in 0 .. mtime'
    BY ClintConstants DEF ClockInv
  <2>2. ReadsClock(isrTodo, isrSeen, 0)'
    BY <1>1, <1>4, <2>1 DEF ReadsClock
  <2> QED BY <1>1, <1>4, <2>2 DEF HandlerInv
<1>5. ASSUME ~Thread, isrSeen = <<>>, NEW d \in Nat, Arming(isrTodo, d),
             LastWrite(isrTodo, d) => shadow = Lo(d)
      PROVE  HandlerInv'
  <2>1. Arming(isrTodo, d)' /\ (LastWrite(isrTodo, d)' => shadow' = Lo(d))
    BY <1>1, <1>5 DEF Arming, LastWrite
  <2> QED BY <1>1, <1>5, <2>1 DEF HandlerInv
<1> QED BY <1>2, <1>3, <1>4, <1>5 DEF HandlerInv

\* The clocks, the deadline and what the drivers told of them.
LEMMA TopIsNat == Top \in Nat /\ Half - 1 \in Nat /\ 0 <= MaxTime /\ MaxTime \in Nat
<1>1. ASSUME NEW h \in Nat \ {0, 1} PROVE h * h \in Nat /\ h * h >= 1
  BY Steps
<1> QED BY <1>1, ClintConstants DEF Top

LEMMA UntoldIsTrue == ASSUME told = Untold PROVE ClocksReadTrue
<1>1. told[1] = "none" /\ told[2] = 0 /\ told[3] = 0 /\ told[4] = 0
  BY DEF Untold
<1> QED BY <1>1 DEF ClocksReadTrue

LEMMA TickStep ==
  ASSUME ClintInv, ClintTick \/ CounterTick
  PROVE  ClintInv'
<1>1. /\ UNCHANGED <<call, todo, seen, isr, isrTodo, isrSeen, mtimecmp, shadow>>
      /\ UNCHANGED <<began, told, due, crossed, mixed>>
  BY DEF ClintTick, CounterTick, hart, thread, handler, clint, clintHistory
<1>2. ClockInv /\ mtime \in Nat /\ counter \in Nat /\ MaxTime \in Nat
  BY TopIsNat DEF ClintInv, ClockInv
<1>3. mtime' \in 0 .. MaxTime /\ counter' \in Nat /\ mtime <= mtime' /\ counter <= counter'
  BY <1>2 DEF ClintTick, CounterTick, clint, perf, ClockInv
<1>4. ClockInv'
  BY <1>1, <1>2, <1>3 DEF ClockInv, ClocksReadTrue
<1>5. ThreadInv'
  BY <1>1, <1>2, <1>3, ThreadWaits DEF ClintInv
<1>6. HandlerInv'
  BY <1>1, <1>2, <1>3, HandlerWaits DEF ClintInv, handler
<1> QED BY <1>4, <1>5, <1>6 DEF ClintInv

LEMMA OthersAreBare ==
  /\ ClintStart \in Seq(Bare \cup {Reset})
  /\ \A f \in {clint_sw_irq_set, clint_sw_irq_clear, clint_sw_irq_pending,
               irq_disable_timer \o irq_disable_software \o irq_disable_global,
               soc_perf_enable, soc_perf_disable, soc_ctrl_soft_reset} :
       f \in Seq(Bare \cup {Reset})
  /\ <<>> \in Seq(Bare \cup {Reset})
<1> DEFINE S == Bare \cup {Reset}
<1>1. ASSUME NEW T, NEW a \in T PROVE <<a>> \in Seq(T)
  OBVIOUS
<1>2. /\ \A b \in {"software", "timer", "global"} : <<"csrs", b>> \in S /\ <<"csrc", b>> \in S
      /\ W("msip", 1) \in S /\ W("msip", 0) \in S /\ R("msip") \in S /\ W("sys_ctrl", 1) \in S
  BY DEF Bare, Reset
<1>3. \A on \in BOOLEAN : W("perf_ctrl", on) \in S
  BY DEF Bare
<1> HIDE DEF S
<1>4. irq_enable_software \in Seq(S) /\ irq_enable_timer \in Seq(S) /\ irq_enable_global \in Seq(S)
  BY <1>1, <1>2 DEF irq_enable_software, irq_enable_timer, irq_enable_global
<1>5. irq_disable_software \in Seq(S) /\ irq_disable_timer \in Seq(S) /\ irq_disable_global \in Seq(S)
  BY <1>1, <1>2 DEF irq_disable_software, irq_disable_timer, irq_disable_global
<1>6. \A s, t \in Seq(S) : s \o t \in Seq(S)
  OBVIOUS
<1>7. ClintStart \in Seq(S) /\ irq_disable_timer \o irq_disable_software \o irq_disable_global \in Seq(S)
  BY <1>4, <1>5, <1>6 DEF ClintStart
<1>8. clint_sw_irq_set \in Seq(S) /\ clint_sw_irq_clear \in Seq(S) /\ clint_sw_irq_pending \in Seq(S)
  BY <1>1, <1>2 DEF clint_sw_irq_set, clint_sw_irq_clear, clint_sw_irq_pending
<1>9. soc_perf_enable \in Seq(S) /\ soc_perf_disable \in Seq(S)
  BY <1>1, <1>3, Zenon DEF soc_perf_enable, soc_perf_disable
<1>10. soc_ctrl_soft_reset \in Seq(S)
  BY <1>1, <1>2 DEF soc_ctrl_soft_reset
<1>11. <<>> \in Seq(S)
  OBVIOUS
<1> QED BY <1>7, <1>8, <1>9, <1>10, <1>11 DEF S

LEMMA ResetStep ==
  ASSUME ClintInv, SoftReset
  PROVE  ClintInv'
<1>1. /\ Current # <<>> /\ Writes("sys_ctrl")
      /\ call' = "start" /\ todo' = ClintStart /\ mtime' = 0 /\ mtimecmp' = Top
      /\ shadow' = Half - 1 /\ counter' = 0 /\ due' = Top /\ crossed' = FALSE /\ mixed' = FALSE
      /\ told' = Untold /\ UNCHANGED <<isr, isrTodo, isrSeen, began>>
  BY DEF SoftReset, handler
<1>2. ThreadInv'
  BY <1>1, OthersAreBare DEF ThreadInv, Bare, Reset
<1>3. ClocksReadTrue'
  <2>1. told'[1] = "none" /\ told'[2] = 0 /\ told'[3] = 0 /\ told'[4] = 0
    BY <1>1 DEF Untold
  <2> QED BY <2>1 DEF ClocksReadTrue
<1>4. ClockInv'
  <2>1. /\ mtime' \in 0 .. MaxTime /\ counter' \in Nat
        /\ mtimecmp' \in Nat /\ shadow' \in Nat /\ due' \in Nat
    BY <1>1, TopIsNat
  <2>2. began' \in Nat
    BY <1>1 DEF ClintInv, ClockInv
  <2>3. crossed' \in BOOLEAN /\ mixed' \in BOOLEAN
    BY <1>1
  <2>4. mtimecmp' = due'
    BY <1>1
  <2> QED BY <1>3, <2>1, <2>2, <2>3, <2>4 DEF ClockInv
<1>5. Thread
  <2> SUFFICES ASSUME ~Thread PROVE FALSE
    OBVIOUS
  <2>1. Current = isrTodo /\ Head(isrTodo)[2] = "sys_ctrl" /\ isrTodo # <<>>
    BY <1>1 DEF Current, Writes, Reg
  <2>2. \A r : R(r)[2] = r /\ \A v : W(r, v)[2] = r
    BY DEF R, W
  <2>3. \A h, d : CompareHi(h, d)[2] = "mtimecmp_hi"
    BY DEF CompareHi
  <2>4. CASE isrTodo \in {<<W("msip", 0)>>, MsipThenClock}
    <3>1. Head(isrTodo) = W("msip", 0)
      BY <2>4 DEF MsipThenClock
    <3> QED BY <2>1, <2>2, <3>1
  <2>5. CASE ReadsClock(isrTodo, isrSeen, 0)
    <3>1. Head(clint_mtime) = R("mtime_hi")
      BY DEF clint_mtime
    <3>2. Head(isrTodo) \in {R("mtime_hi"), R("mtime_lo")}
      BY <2>1, <2>5, <3>1 DEF ReadsClock
    <3> QED BY <2>1, <2>2, <3>2
  <2>6. ASSUME NEW d \in Nat, Arming(isrTodo, d) PROVE FALSE
    <3>1. \/ Head(isrTodo) = CompareHi(Half - 1, Top)
          \/ Head(isrTodo) = W("mtimecmp_lo", Lo(d))
          \/ Head(isrTodo) = CompareHi(Hi(d), d)
      BY <2>1, <2>6 DEF Arming, clint_set_mtimecmp
    <3> QED BY <2>1, <2>2, <2>3, <3>1
  <2> QED BY <2>4, <2>5, <2>6 DEF ClintInv, HandlerInv
<1>6. HandlerInv'
  BY <1>1, <1>5 DEF ClintInv, HandlerInv, Thread
<1> QED BY <1>2, <1>4, <1>6 DEF ClintInv

\* A deadline, all of it still to be written.
LEMMA ArmingBegins ==
  ASSUME NEW d, NEW t, t = clint_set_mtimecmp(d)
  PROVE  Arming(t, d) /\ ~LastWrite(t, d)
<1>1. \A a, b, c, e : <<a, b, c>> # <<e>>
  OBVIOUS
<1>2. ~LastWrite(t, d)
  BY <1>1 DEF LastWrite, clint_set_mtimecmp
<1> QED BY <1>2 DEF Arming

\* The steps that leave the clocks alone, but for what the call remembers.
LEMMA CallStep ==
  ASSUME ClintInv, NEW name, NEW f, Begin(name, f), NEW now \in Nat, Called(now),
         \/ name = "other" /\ f \in Seq(Bare \cup {Reset})
         \/ name = "other" /\ f = clint_clear_timer
         \/ name \in {"mtime", "arm"} /\ f = clint_mtime /\ now = mtime
         \/ name = "count" /\ f \in {soc_perf_cycle64, soc_perf_instr64} /\ now = counter
  PROVE  ClintInv'
<1>1. /\ Thread /\ call' = name /\ todo' = f /\ seen' = <<>> /\ UNCHANGED <<isr, isrTodo, isrSeen>>
      /\ began' = now /\ told' = Untold
      /\ UNCHANGED <<mtime, mtimecmp, shadow, counter, due, crossed, mixed>>
  BY DEF Begin, handler, Called, clint, perf
<1>2. HandlerInv'
  BY <1>1 DEF ClintInv, HandlerInv, Thread
<1>3. ClocksReadTrue'
  <2>1. told'[1] = "none" /\ told'[2] = 0 /\ told'[3] = 0 /\ told'[4] = 0
    BY <1>1 DEF Untold
  <2> QED BY <2>1 DEF ClocksReadTrue
<1>4. ClockInv' /\ mtime \in Nat /\ counter \in Nat
  BY <1>1, <1>3, TopIsNat DEF ClintInv, ClockInv
<1>5. CASE name = "other" /\ f \in Seq(Bare \cup {Reset})
  BY <1>1, <1>2, <1>4, <1>5 DEF ClintInv, ThreadInv, Bare, Reset
<1>6. CASE name = "other" /\ f = clint_clear_timer
  <2>1. Arming(f, Top) /\ ~LastWrite(f, Top) /\ Top \in Nat
    BY <1>6, ArmingBegins, TopIsNat DEF clint_clear_timer
  <2> QED BY <1>1, <1>2, <1>4, <1>6, <2>1 DEF ClintInv, ThreadInv
<1>7. CASE name \in {"mtime", "arm"} /\ f = clint_mtime /\ now = mtime
  BY <1>1, <1>2, <1>4, <1>7 DEF ClintInv, ThreadInv, ReadsClock
<1>8. CASE name = "count" /\ f \in {soc_perf_cycle64, soc_perf_instr64} /\ now = counter
  BY <1>1, <1>2, <1>4, <1>8 DEF ClintInv, ThreadInv, ReadsCount
<1> QED BY <1>5, <1>6, <1>7, <1>8

LEMMA ClockKept ==
  ASSUME ClockInv, UNCHANGED clintVars
  PROVE  /\ ClockInv' /\ UNCHANGED <<mtime, counter, shadow, crossed, began>>
         /\ mtime \in Nat /\ counter \in Nat
<1>1. /\ UNCHANGED <<mtime, mtimecmp, shadow, counter, began, told, due, crossed, mixed>>
  BY DEF clintVars, clint, perf, clintHistory
<1> QED BY <1>1, TopIsNat DEF ClockInv, ClocksReadTrue

\* The thread has read the three words of the clock, and goes on.
LEMMA ThreadHasTheClock ==
  ASSUME ClintInv, call \in {"mtime", "arm"}, todo = <<>>, seen # <<>>
  PROVE  /\ began <= mtime
         /\ \E t1 \in began .. mtime, t2 \in began .. mtime, t3 \in began .. mtime :
              t1 <= t2 /\ t2 <= t3 /\ seen = <<Hi(t1), Lo(t2), Hi(t3)>>
<1>1. clint_mtime # <<>> /\ \A a, b : <<a>> # <<>> /\ <<a, b>> # <<>>
  BY DEF clint_mtime
<1>2. began <= mtime /\ ReadsClock(todo, seen, began)
  BY DEF ClintInv, ThreadInv
<1> QED BY <1>1, <1>2 DEF ReadsClock

LEMMA HandlerHasTheClock ==
  ASSUME ClintInv, isrTodo = <<>>, isrSeen # <<>>
  PROVE  /\ ~Thread
         /\ \E t1 \in 0 .. mtime, t2 \in 0 .. mtime, t3 \in 0 .. mtime :
              t1 <= t2 /\ t2 <= t3 /\ isrSeen = <<Hi(t1), Lo(t2), Hi(t3)>>
<1>1. clint_mtime # <<>> /\ \A a, b : <<a>> # <<>> /\ <<a, b>> # <<>>
  BY DEF clint_mtime
<1>2. ~Thread /\ ReadsClock(isrTodo, isrSeen, 0)
  BY DEF ClintInv, HandlerInv
<1> QED BY <1>1, <1>2 DEF ReadsClock

LEMMA TimeRead ==
  ASSUME NEW t1 \in Nat, NEW t2 \in Nat, NEW t3 \in Nat, t1 <= t2, t2 <= t3,
         NEW v, v = <<Hi(t1), Lo(t2), Hi(t3)>>
  PROVE  MtimeOf(v) \in Nat /\ (Agree(v) => MtimeOf(v) = t2)
<1>1. v[1] = Hi(t1) /\ v[2] = Lo(t2) /\ v[3] = Hi(t3)
  OBVIOUS
<1>2. Half \in Nat /\ Hi(t1) \in Nat /\ Lo(t2) \in Nat /\ Half * Hi(t2) + Lo(t2) = t2
  BY WordsOf, ClintConstants
<1>3. MtimeOf(v) = Half * Hi(t1) + Lo(t2) /\ MtimeOf(v) \in Nat
  BY <1>1, <1>2 DEF MtimeOf
<1>4. ASSUME Agree(v) PROVE Hi(t2) = Hi(t1)
  BY <1>1, <1>4, OnePage DEF Agree
<1> QED BY <1>2, <1>3, <1>4

\* The thread or the handler goes on, with the clock or without.
LEMMA GoOnStep ==
  ASSUME ClintInv, ReadAgain \/ Arms
  PROVE  ClintInv'
<1>1. UNCHANGED clintVars
  BY DEF ReadAgain, Arms
<1>2. /\ ClockInv' /\ UNCHANGED <<mtime, counter, shadow, crossed, began>>
      /\ mtime \in Nat /\ counter \in Nat
  BY <1>1, ClockKept DEF ClintInv
<1>3. Len(<<>>) = 0 /\ 0 # 3
  OBVIOUS
<1>4. ASSUME NEW f, GoesOn("mtime") \/ GoesOn("arm"), Len(seen) = 3, Continue(f)
      PROVE  /\ call' = call /\ todo' = f /\ seen' = <<>> /\ HandlerInv' /\ began <= mtime
             /\ call \in {"mtime", "arm"}
             /\ \E t1 \in began .. mtime, t2 \in began .. mtime, t3 \in began .. mtime :
                  t1 <= t2 /\ t2 <= t3 /\ seen = <<Hi(t1), Lo(t2), Hi(t3)>>
  <2>1. Thread /\ call \in {"mtime", "arm"} /\ todo = <<>> /\ seen # <<>>
    BY <1>3, <1>4 DEF GoesOn
  <2>2. call' = call /\ todo' = f /\ seen' = <<>> /\ UNCHANGED <<isr, isrTodo, isrSeen>>
    BY <1>4 DEF Continue, handler
  <2>3. HandlerInv'
    BY <2>1, <2>2 DEF ClintInv, HandlerInv, Thread
  <2> QED BY <2>1, <2>2, <2>3, ThreadHasTheClock
<1>5. ASSUME NEW f, isrTodo = <<>>, Len(isrSeen) = 3, HandlerContinue(f)
      PROVE  /\ ~Thread' /\ isrTodo' = f /\ isrSeen' = <<>> /\ ThreadInv'
             /\ \E t1 \in 0 .. mtime, t2 \in 0 .. mtime, t3 \in 0 .. mtime :
                  t1 <= t2 /\ t2 <= t3 /\ isrSeen = <<Hi(t1), Lo(t2), Hi(t3)>>
  <2>1. isrSeen # <<>>
    BY <1>3, <1>5
  <2>2. UNCHANGED <<call, todo, seen, isr>> /\ isrTodo' = f /\ isrSeen' = <<>>
    BY <1>5 DEF HandlerContinue, thread
  <2>3. ThreadInv'
    BY <1>2, <2>2, ThreadWaits DEF ClintInv
  <2> QED BY <1>5, <2>1, <2>2, <2>3, HandlerHasTheClock DEF Thread
<1>6. CASE \/ /\ GoesOn("mtime") \/ GoesOn("arm")
              /\ Len(seen) = 3 /\ Continue(clint_mtime)
           \/ isrTodo = <<>> /\ Len(isrSeen) = 3 /\ HandlerContinue(clint_mtime)
  <2>1. CASE (GoesOn("mtime") \/ GoesOn("arm")) /\ Len(seen) = 3 /\ Continue(clint_mtime)
    <3>1. /\ call' \in {"mtime", "arm"} /\ todo' = clint_mtime /\ seen' = <<>> /\ HandlerInv'
          /\ began' <= mtime'
      BY <1>2, <1>4, <2>1
    <3> QED BY <1>2, <3>1 DEF ClintInv, ThreadInv, ReadsClock
  <2>2. CASE isrTodo = <<>> /\ Len(isrSeen) = 3 /\ HandlerContinue(clint_mtime)
    <3>1. ~Thread' /\ isrTodo' = clint_mtime /\ isrSeen' = <<>> /\ ThreadInv'
      BY <1>5, <2>2
    <3> QED BY <1>2, <3>1 DEF ClintInv, HandlerInv, ReadsClock
  <2> QED BY <1>6, <2>1, <2>2
<1>7. ASSUME NEW us \in Delays, GoesOn("arm"), Len(seen) = 3,
             Continue(clint_set_mtimecmp(MtimeOf(seen) + us))
      PROVE  ClintInv'
  <2>1. PICK t1 \in began .. mtime, t2 \in began .. mtime, t3 \in began .. mtime :
           t1 <= t2 /\ t2 <= t3 /\ seen = <<Hi(t1), Lo(t2), Hi(t3)>>
    BY <1>4, <1>7
  <2>2. t1 \in Nat /\ t2 \in Nat /\ t3 \in Nat /\ us \in Nat
    BY <1>2, ClintConstants DEF ClintInv, ClockInv
  <2>3. MtimeOf(seen) \in Nat
    BY <2>1, <2>2, TimeRead
  <2>4. PICK d \in Nat : d = MtimeOf(seen) + us
    BY <2>2, <2>3
  <2>5. PICK f : f = clint_set_mtimecmp(d)
    OBVIOUS
  <2>6. call' = "arm" /\ todo' = f /\ seen' = <<>> /\ HandlerInv'
    BY <1>4, <1>7, <2>4, <2>5 DEF GoesOn
  <2> QED BY <1>2, <2>5, <2>6, ArmingBegins DEF ClintInv, ThreadInv
<1>8. ASSUME NEW us \in Delays, isrTodo = <<>>, Len(isrSeen) = 3,
             HandlerContinue(clint_set_mtimecmp(MtimeOf(isrSeen) + us))
      PROVE  ClintInv'
  <2>1. PICK t1 \in 0 .. mtime, t2 \in 0 .. mtime, t3 \in 0 .. mtime :
           t1 <= t2 /\ t2 <= t3 /\ isrSeen = <<Hi(t1), Lo(t2), Hi(t3)>>
    BY <1>5, <1>8
  <2>2. t1 \in Nat /\ t2 \in Nat /\ t3 \in Nat /\ us \in Nat
    BY ClintConstants
  <2>3. MtimeOf(isrSeen) \in Nat
    BY <2>1, <2>2, TimeRead
  <2>4. PICK d \in Nat : d = MtimeOf(isrSeen) + us
    BY <2>2, <2>3
  <2>5. PICK f : f = clint_set_mtimecmp(d)
    OBVIOUS
  <2>6. ~Thread' /\ isrTodo' = f /\ isrSeen' = <<>> /\ ThreadInv'
    BY <1>5, <1>8, <2>4, <2>5
  <2> QED BY <1>2, <2>5, <2>6, ArmingBegins DEF ClintInv, HandlerInv
<1>9. CASE ReadAgain
  BY <1>6, <1>9 DEF ReadAgain
<1>10. CASE Arms
  BY <1>7, <1>8, <1>10 DEF Arms
<1> QED BY <1>9, <1>10

LEMMA ReturnStep ==
  ASSUME ClintInv, ClintReturn
  PROVE  ClintInv'
<1>1. /\ Thread /\ todo = <<>> /\ Return
      /\ UNCHANGED <<mtime, mtimecmp, shadow, counter, began, due, crossed, mixed>>
  BY DEF ClintReturn, GoesOn, clint, perf
<1>2. /\ call' = "none" /\ todo' = <<>> /\ UNCHANGED <<isr, isrTodo, isrSeen>>
  BY <1>1 DEF Return, handler
<1>3. ThreadInv' /\ HandlerInv'
  BY <1>1, <1>2, OthersAreBare DEF ClintInv, ThreadInv, HandlerInv, Thread, Bare, Reset
<1>4. mtime \in Nat /\ counter \in Nat /\ began \in Nat /\ Half \in Nat
  BY TopIsNat, ClintConstants DEF ClintInv, ClockInv
<1>5. SUFFICES ClocksReadTrue'
  BY <1>1, <1>3 DEF ClintInv, ClockInv
<1>6. CASE GoesOn("mtime") /\ Agree(seen) /\ told' = <<"mtime", MtimeOf(seen), began, mtime>>
  <2>1. seen # <<>>
    <3>1. call = "mtime" /\ clint_mtime # <<>> /\ <<Hi(0)>> # <<>>
      BY <1>6 DEF GoesOn, clint_mtime
    <3>2. \A a, b, c : <<a>> # <<>> /\ <<a, b>> # <<>> /\ <<a, b, c>> # <<>>
      OBVIOUS
    <3> QED BY <1>1, <3>1, <3>2 DEF ClintInv, ThreadInv, ReadsClock
  <2>2. PICK t1 \in began .. mtime, t2 \in began .. mtime, t3 \in began .. mtime :
           t1 <= t2 /\ t2 <= t3 /\ seen = <<Hi(t1), Lo(t2), Hi(t3)>>
    BY <1>1, <1>6, <2>1, ThreadHasTheClock DEF GoesOn
  <2>3. t1 \in Nat /\ t2 \in Nat /\ t3 \in Nat
    BY <1>4
  <2>4. MtimeOf(seen) = t2
    BY <1>6, <2>2, <2>3, TimeRead
  <2>5. told'[1] = "mtime" /\ told'[2] = t2 /\ told'[3] = began /\ told'[4] = mtime
    BY <1>6, <2>4
  <2> QED BY <2>2, <2>5 DEF ClocksReadTrue
<1>7. CASE GoesOn("count") /\ told' = <<"count", Half * seen[2] + seen[1], began, counter>>
  <2>1. call = "count" /\ soc_perf_cycle64 # <<>> /\ soc_perf_instr64 # <<>>
    BY <1>7 DEF GoesOn, soc_perf_cycle64, soc_perf_instr64
  <2>2. PICK t1 \in began .. counter, t2 \in began .. counter :
           t1 <= t2 /\ seen = <<Lo(t1), Hi(t2)>>
    <3>1. \A a : <<a>> # <<>>
      OBVIOUS
    <3> QED BY <1>1, <2>1, <3>1 DEF ClintInv, ThreadInv, ReadsCount
  <2>3. t1 \in Nat /\ t2 \in Nat /\ seen[1] = Lo(t1) /\ seen[2] = Hi(t2)
    BY <1>4, <2>2
  <2>4. Lo(t1) \in Nat /\ Hi(t2) \in Nat /\ Half * Hi(t1) + Lo(t1) = t1
    BY <2>3, WordsOf
  <2>5. PICK v \in Nat : v = Half * Hi(t2) + Lo(t1)
    BY <1>4, <2>4
  <2>6. ASSUME Hi(began) = Hi(counter) PROVE v = t1
    <3>1. Hi(t1) = Hi(began) /\ Hi(t2) = Hi(began)
      BY <1>4, <2>2, <2>3, <2>6, OnePage
    <3> QED BY <2>4, <2>5, <3>1
  <2>7. told'[1] = "count" /\ told'[2] = v /\ told'[3] = began /\ told'[4] = counter
    BY <1>7, <2>3, <2>5
  <2> QED BY <2>2, <2>6, <2>7 DEF ClocksReadTrue
<1>8. CASE told' = told
  BY <1>1, <1>8 DEF ClintInv, ClockInv, ClocksReadTrue
<1> QED BY <1>6, <1>7, <1>8 DEF ClintReturn

\* The handler begins and ends.
LEMMA HandlerStep ==
  ASSUME ClintInv, ClintInterrupt \/ ClintMret
  PROVE  ClintInv'
<1>1. UNCHANGED clintVars /\ UNCHANGED <<call, todo, seen>>
  BY DEF ClintInterrupt, ClintMret, Interrupt, Mret, thread
<1>2. /\ ClockInv' /\ UNCHANGED <<mtime, counter, shadow, crossed, began>>
      /\ mtime \in Nat /\ counter \in Nat
  BY <1>1, ClockKept DEF ClintInv
<1>3. ThreadInv'
  BY <1>1, <1>2, ThreadWaits DEF ClintInv
<1>4. ASSUME NEW cause \in {"timer", "software"}, NEW f, Interrupt(cause, f)
      PROVE  ~Thread' /\ isrTodo' = f /\ isrSeen' = <<>>
  BY <1>4 DEF Interrupt, Thread
<1>5. CASE Interrupt("timer", clint_clear_timer)
  <2>1. Arming(clint_clear_timer, Top) /\ ~LastWrite(clint_clear_timer, Top) /\ Top \in Nat
    BY ArmingBegins, TopIsNat DEF clint_clear_timer
  <2>2. ~Thread' /\ isrTodo' = clint_clear_timer /\ isrSeen' = <<>>
    BY <1>4, <1>5
  <2> QED BY <1>2, <1>3, <2>1, <2>2 DEF ClintInv, HandlerInv
<1>6. CASE Interrupt("timer", clint_mtime)
  <2>1. ~Thread' /\ isrTodo' = clint_mtime /\ isrSeen' = <<>>
    BY <1>4, <1>6
  <2> QED BY <1>2, <1>3, <2>1 DEF ClintInv, HandlerInv, ReadsClock
<1>7. ASSUME NEW f \in {<<>>, clint_mtime}, Interrupt("software", clint_sw_irq_clear \o f)
      PROVE  ClintInv'
  <2>1. PICK g : g = clint_sw_irq_clear \o f
    OBVIOUS
  <2>2. ~Thread' /\ isrTodo' = g /\ isrSeen' = <<>>
    BY <1>4, <1>7, <2>1
  <2>3. g \in {<<W("msip", 0)>>, MsipThenClock}
    <3>1. <<W("msip", 0)>> \o <<>> = <<W("msip", 0)>>
      <4>1. <<W("msip", 0)>> \in Seq({W("msip", 0)})
        OBVIOUS
      <4> QED BY <4>1, ConcatEmptySeq
    <3> QED BY <2>1, <3>1, SoftwareHandlerFits DEF clint_sw_irq_clear
  <2> QED BY <1>2, <1>3, <2>2, <2>3 DEF ClintInv, HandlerInv
<1>8. CASE ClintMret
  <2>1. isr' = "none" /\ isrTodo' = <<>> /\ isrSeen' = <<>>
    BY <1>8 DEF ClintMret, Mret, HandlerAt, thread
  <2> QED BY <1>2, <1>3, <2>1 DEF ClintInv, HandlerInv, Thread
<1> QED BY <1>5, <1>6, <1>7, <1>8 DEF ClintInterrupt

LEMMA ClintStep ==
  ASSUME ClintInv, ClintNext \/ PerfNext
  PROVE  ClintInv'
<1>1. mtime \in Nat /\ counter \in Nat
  BY TopIsNat DEF ClintInv, ClockInv
<1>2. CASE ClintAccess
  BY <1>2, ThreadAccess, HandlerAccess
<1>3. CASE ClintTick \/ CounterTick
  BY <1>3, TickStep
<1>4. CASE SoftReset
  BY <1>4, ResetStep
<1>5. CASE ClintCall
  <2>1. ASSUME NEW f \in {clint_clear_timer, clint_sw_irq_set, clint_sw_irq_clear, clint_sw_irq_pending,
                          irq_disable_timer \o irq_disable_software \o irq_disable_global}
        PROVE  f = clint_clear_timer \/ f \in Seq(Bare \cup {Reset})
    BY <2>1, OthersAreBare
  <2>2. CASE Begin("mtime", clint_mtime) \/ Begin("arm", clint_mtime)
    BY <1>1, <1>5, <2>2, CallStep DEF ClintCall
  <2>3. ASSUME NEW f, Begin("other", f), f = clint_clear_timer \/ f \in Seq(Bare \cup {Reset})
        PROVE  ClintInv'
    BY <1>1, <1>5, <2>3, CallStep DEF ClintCall
  <2> QED BY <1>5, <2>1, <2>2, <2>3 DEF ClintCall
<1>6. CASE PerfCall
  <2>1. ASSUME NEW f \in {soc_perf_enable, soc_perf_disable, soc_ctrl_soft_reset}
        PROVE  f \in Seq(Bare \cup {Reset})
    BY <2>1, OthersAreBare
  <2>2. ASSUME NEW f \in {soc_perf_cycle64, soc_perf_instr64}, Begin("count", f)
        PROVE  ClintInv'
    BY <1>1, <1>6, <2>2, CallStep DEF PerfCall
  <2>3. ASSUME NEW f, Begin("other", f), f \in Seq(Bare \cup {Reset})
        PROVE  ClintInv'
    BY <1>1, <1>6, <2>3, CallStep DEF PerfCall
  <2> QED BY <1>6, <2>1, <2>2, <2>3 DEF PerfCall
<1>7. CASE ReadAgain \/ Arms
  BY <1>7, GoOnStep
<1>8. CASE ClintReturn
  BY <1>8, ReturnStep
<1>9. CASE ClintInterrupt \/ ClintMret
  BY <1>9, HandlerStep
<1> QED BY <1>2, <1>3, <1>4, <1>5, <1>6, <1>7, <1>8, <1>9 DEF ClintNext, PerfNext

\* In the other scenes the clocks stand still.
ClintRest ==
  told = Untold /\ mixed = FALSE /\ mtime = 0 /\ mtimecmp = Top /\ due = Top
ClintsInv == IF scene \in {"clint", "perf"} THEN ClintInv ELSE ClintRest

LEMMA ClintStarts == Init => ClintsInv
<1> SUFFICES ASSUME Init PROVE ClintsInv
  OBVIOUS
<1>1. /\ mtime = 0 /\ mtimecmp = Top /\ shadow = Half - 1 /\ counter = 0
      /\ began = 0 /\ told = Untold /\ due = Top /\ crossed = FALSE /\ mixed = FALSE
  BY DEF Init, ClintInit
<1>2. CASE scene \in {"clint", "perf"}
  <2>1. call = "start" /\ todo = ClintStart /\ isr = "none" /\ isrTodo = <<>> /\ isrSeen = <<>>
    BY <1>2 DEF Init, HartInit, StartOf
  <2>2. ThreadInv /\ HandlerInv
    BY <2>1, OthersAreBare DEF ThreadInv, HandlerInv, Thread
  <2>3. mtime \in 0 .. MaxTime /\ counter \in Nat /\ began \in Nat
    BY <1>1, TopIsNat
  <2>4. mtimecmp \in Nat /\ shadow \in Nat /\ due \in Nat /\ mtimecmp = due
    BY <1>1, TopIsNat
  <2>5. crossed \in BOOLEAN /\ mixed \in BOOLEAN
    BY <1>1
  <2>6. ClockInv
    BY <1>1, <2>3, <2>4, <2>5, UntoldIsTrue DEF ClockInv
  <2> QED BY <1>2, <2>2, <2>6 DEF ClintsInv, ClintInv
<1>3. CASE scene \notin {"clint", "perf"}
  BY <1>1, <1>3 DEF ClintsInv, ClintRest
<1> QED BY <1>2, <1>3

LEMMA ClintsGoOn == ClintsInv /\ [Next]_vars => ClintsInv'
<1> SUFFICES ASSUME ClintsInv, [Next]_vars PROVE ClintsInv'
  OBVIOUS
<1>1. CASE Clint \/ Perf
  BY <1>1, ClintStep DEF Clint, Perf, ClintsInv
<1>2. CASE scene \notin {"clint", "perf"} /\ UNCHANGED <<scene, clintVars>>
  BY <1>2 DEF ClintsInv, ClintRest, clintVars, clint, clintHistory
<1>3. CASE UNCHANGED vars
  <2>1. UNCHANGED <<scene, call, todo, seen>> /\ UNCHANGED handler /\ UNCHANGED clintVars
    BY <1>3 DEF vars, hart, thread, devices
  <2>2. CASE scene \in {"clint", "perf"}
    <3>1. ClintInv
      BY <2>2 DEF ClintsInv
    <3>2. /\ ClockInv' /\ UNCHANGED <<mtime, counter, shadow, crossed, began>>
          /\ mtime \in Nat /\ counter \in Nat
      BY <2>1, <3>1, ClockKept DEF ClintInv
    <3>3. ThreadInv'
      BY <2>1, <3>1, <3>2, ThreadWaits DEF ClintInv
    <3>4. HandlerInv'
      BY <2>1, <3>1, <3>2, HandlerWaits DEF ClintInv
    <3> QED BY <2>1, <2>2, <3>2, <3>3, <3>4 DEF ClintsInv, ClintInv
  <2> QED BY <1>2, <2>1, <2>2
<1> QED BY <1>1, <1>2, <1>3 DEF Next, Timer, Uart, Spi, Irq, Ascon

\* The clocks of the SoC, read and set a word at a time, are read and set whole
\* (clint.h:29-58, soc_ctrl.h:115-129), for every word size, every delay and
\* every handler that reads or sets them in between.
THEOREM ClintIsKept == Spec => []ClintKept
<1>1. ClintsInv => ClintKept
  <2>1. ASSUME ClintRest PROVE ClintKept
    <3>1. ClocksReadTrue
      BY <2>1, UntoldIsTrue DEF ClintRest
    <3>2. DeadlineKept
      BY <2>1 DEF ClintRest, DeadlineKept, timer_irq
    <3> QED BY <3>1, <3>2 DEF ClintKept
  <2> QED BY <2>1, ClockInvIsEnough DEF ClintsInv, ClintInv
<1> QED BY <1>1, ClintStarts, ClintsGoOn, PTL DEF Spec

-----------------------------------------------------------------------------
(***************************************************************************)
(* The interrupts of the pins.                                             *)
(*                                                                         *)
(* A register whose bits belong to several callers is written only with    *)
(* what was just read of it, and that is still what it holds, unless the   *)
(* handler has written it since.  Only the handler claims, and it looks at *)
(* the pins next.                                                          *)
(***************************************************************************)
KeptValue(reg) == CASE reg = "DOUT" -> dout [] reg = "IRQ_EN" -> irqEn [] OTHER -> plicEnable

\* What a function may do to the registers its callers share.
MayMake(a, who) ==
  /\ a[2] # "PLIC_CLAIM"
  /\ a[1] = "write" => a[2] \notin {"DOUT", "IRQ_EN"} /\ (a[2] = "PLIC_ENABLE" => who = "init")
  /\ a[1] = "merge" /\ a[2] = "IRQ_EN" => a[3] \subseteq Pins
IsSequence(t) == \E S : t \in Seq(S)
MayRun(t, who) ==
  /\ IsSequence(t)
  /\ \A i \in 1 .. Len(t) :
       MayMake(t[i], who) /\ (t[i][1] = "merge" => i > 1 /\ t[i - 1] = R(t[i][2]))

\* The read of a merge is made, and its write is next.
Merges(t, s, who) ==
  /\ IsSequence(t) /\ t # <<>> /\ MayRun(Tail(t), who)
  /\ MayMake(Head(t), who) /\ Head(t)[1] = "merge"
  /\ Head(t)[2] \in Kept => s[Len(s)] = KeptValue(Head(t)[2]) \/ Head(t)[2] \in tangled
  /\ Head(t)[2] = "IRQ_EN" => s[Len(s)] \subseteq Pins
Runs(t, s, who) == IsSequence(s) /\ (MayRun(t, who) \/ Merges(t, s, who))

Claims == <<R("PLIC_CLAIM"), R("IRQ_STAT")>>
Looks  == <<R("IRQ_STAT")>>
RunInv ==
  /\ Runs(todo, seen, call)
  /\ ~Thread => \/ IsSequence(isrSeen) /\ isrTodo \in {Claims, Looks}
                \/ Runs(isrTodo, isrSeen, "handler")

PinsInv ==
  /\ EnabledAsAsked /\ LevelIsPending
  /\ irqEn \subseteq Pins /\ unseen \in BOOLEAN /\ missed \in BOOLEAN
  /\ unseen => \/ "GPIO" \in pending
               \/ missed
               \/ ~Thread /\ isrTodo = Looks /\ "GPIO" \in inService
IrqInv == PinsInv /\ RunInv

LEMMA PinsInvIsEnough == PinsInv => IrqKept
  BY DEF PinsInv, IrqKept, EdgeIsPending

\* The sequences of accesses.
LEMMA AppendedIsSequence == ASSUME NEW s, NEW v, IsSequence(s) PROVE IsSequence(Append(s, v))
<1>1. PICK S : s \in Seq(S)
  BY DEF IsSequence
<1>2. s \in Seq(S \cup {v}) /\ v \in S \cup {v}
  BY <1>1, SeqMonotonic
<1>3. Append(s, v) \in Seq(S \cup {v})
  BY <1>2, AppendProperties
<1> QED BY <1>3 DEF IsSequence

LEMMA LastAppended == ASSUME NEW s, NEW v, IsSequence(s) PROVE Append(s, v)[Len(Append(s, v))] = v
<1>1. PICK S : s \in Seq(S)
  BY DEF IsSequence
<1>2. s \in Seq(S \cup {v}) /\ v \in S \cup {v}
  BY <1>1, SeqMonotonic
<1> QED BY <1>2, AppendProperties

LEMMA OneRuns ==
  ASSUME NEW a, NEW who, MayMake(a, who), a[1] # "merge"
  PROVE  MayRun(<<a>>, who)
<1>1. <<a>> \in Seq({a}) /\ Len(<<a>>) = 1 /\ \A i \in 1 .. Len(<<a>>) : <<a>>[i] = a
  OBVIOUS
<1> QED BY <1>1 DEF MayRun, IsSequence

LEMMA NoneRuns == \A who : MayRun(<<>>, who)
<1>1. <<>> \in Seq({}) /\ Len(<<>>) = 0
  OBVIOUS
<1> QED BY <1>1 DEF MayRun, IsSequence

LEMMA MergeRuns ==
  ASSUME NEW reg, NEW bits, NEW mask, NEW who,
         reg # "PLIC_CLAIM", reg = "IRQ_EN" => bits \subseteq Pins
  PROVE  MayRun(Merge(reg, bits, mask), who)
<1>1. PICK a, b : a = R(reg) /\ b = <<"merge", reg, bits, mask>>
  OBVIOUS
<1>2. a[1] = "read" /\ a[2] = reg /\ b[1] = "merge" /\ b[2] = reg /\ b[3] = bits
  BY <1>1 DEF R
<1>3. MayMake(a, who) /\ MayMake(b, who)
  BY <1>2 DEF MayMake
<1>4. PICK t : t = <<a, b>>
  OBVIOUS
<1>5. t \in Seq({a, b}) /\ Len(t) = 2 /\ t[1] = a /\ t[2] = b
  BY <1>4
<1>6. MayRun(t, who)
  <2>1. ASSUME NEW i \in 1 .. Len(t)
        PROVE  MayMake(t[i], who) /\ (t[i][1] = "merge" => i > 1 /\ t[i - 1] = R(t[i][2]))
    <3>1. i = 1 \/ i = 2
      BY <1>5
    <3>2. CASE i = 1
      BY <1>2, <1>3, <1>5, <3>2
    <3>3. CASE i = 2
      BY <1>1, <1>2, <1>3, <1>5, <3>3
    <3> QED BY <3>1, <3>2, <3>3
  <2> QED BY <1>5, <2>1 DEF MayRun, IsSequence
<1> QED BY <1>1, <1>4, <1>6 DEF Merge

LEMMA BothRun ==
  ASSUME NEW s, NEW t, NEW who, MayRun(s, who), MayRun(t, who)
  PROVE  MayRun(s \o t, who)
<1>1. PICK S : s \in Seq(S)
  BY DEF MayRun, IsSequence
<1>2. PICK T : t \in Seq(T)
  BY DEF MayRun, IsSequence
<1>3. PICK U : U = S \cup T
  OBVIOUS
<1>4. s \in Seq(U) /\ t \in Seq(U)
  BY <1>1, <1>2, <1>3, SeqMonotonic
<1>5. PICK u : u = s \o t
  OBVIOUS
<1>6. /\ u \in Seq(U) /\ Len(u) = Len(s) + Len(t) /\ Len(s) \in Nat /\ Len(t) \in Nat
      /\ \A i \in 1 .. Len(s) + Len(t) : u[i] = IF i <= Len(s) THEN s[i] ELSE t[i - Len(s)]
  BY <1>4, <1>5, ConcatProperties, LenProperties
<1>7. ASSUME NEW i \in 1 .. Len(u)
      PROVE  MayMake(u[i], who) /\ (u[i][1] = "merge" => i > 1 /\ u[i - 1] = R(u[i][2]))
  <2>1. CASE i <= Len(s)
    <3>1. i \in 1 .. Len(s) /\ u[i] = s[i] /\ (i > 1 => u[i - 1] = s[i - 1])
      BY <1>6, <2>1
    <3> QED BY <3>1 DEF MayRun
  <2>2. CASE ~(i <= Len(s))
    <3>1. PICK j : j = i - Len(s)
      OBVIOUS
    <3>2. j \in 1 .. Len(t) /\ u[i] = t[j]
      BY <1>6, <2>2, <3>1
    <3>3. ASSUME j > 1 PROVE i > 1 /\ u[i - 1] = t[j - 1]
      <4>1. PICK m, n : m = Len(s) /\ n = Len(t) /\ m \in Nat /\ n \in Nat
        BY <1>6
      <4>2. i > 1 /\ i - 1 \in 1 .. m + n /\ ~(i - 1 <= m) /\ (i - 1) - m = j - 1
        BY <1>6, <2>2, <3>1, <3>2, <3>3, <4>1
      <4> QED BY <1>6, <4>1, <4>2
    <3> QED BY <3>2, <3>3 DEF MayRun
  <2> QED BY <2>1, <2>2
<1>8. MayRun(u, who)
  BY <1>6, <1>7 DEF MayRun, IsSequence
<1> QED BY <1>5, <1>8

\* What is left of a sequence runs on, or is a merge whose read was made.
LEMMA RestRuns ==
  ASSUME NEW t, NEW who, MayRun(t, who), t # <<>>
  PROVE  /\ MayMake(Head(t), who) /\ Head(t)[1] # "merge" /\ IsSequence(Tail(t))
         /\ \/ MayRun(Tail(t), who)
            \/ /\ Tail(t) # <<>> /\ Head(Tail(t))[1] = "merge" /\ MayMake(Head(Tail(t)), who)
               /\ Head(t) = R(Head(Tail(t))[2]) /\ MayRun(Tail(Tail(t)), who)
<1>1. PICK S : t \in Seq(S)
  BY DEF MayRun, IsSequence
<1>2. PICK u : u = Tail(t)
  OBVIOUS
<1>3. /\ Len(t) \in Nat /\ Len(t) >= 1 /\ Head(t) = t[1] /\ u \in Seq(S)
      /\ Len(u) = Len(t) - 1 /\ \A i \in 1 .. Len(u) : u[i] = t[i + 1]
  BY <1>1, <1>2, HeadTailProperties
<1>4. /\ MayMake(Head(t), who) /\ Head(t)[1] # "merge"
  BY <1>3 DEF MayRun
<1>5. ASSUME NEW i \in 1 .. Len(u)
      PROVE  MayMake(u[i], who) /\ (u[i][1] = "merge" => t[i] = R(u[i][2]))
  <2>1. i + 1 \in 1 .. Len(t) /\ u[i] = t[i + 1] /\ (i + 1) - 1 = i
    BY <1>3
  <2> QED BY <2>1 DEF MayRun
<1>6. CASE u = <<>>
  BY <1>1, <1>2, <1>3, <1>4, <1>6, NoneRuns DEF IsSequence
<1>7. CASE u # <<>> /\ u[1][1] # "merge"
  <2>1. ASSUME NEW i \in 1 .. Len(u), u[i][1] = "merge" PROVE i > 1 /\ u[i - 1] = R(u[i][2])
    <3>1. i > 1
      BY <1>3, <1>7, <2>1
    <3>2. u[i - 1] = t[i]
      BY <1>3, <3>1
    <3> QED BY <1>5, <2>1, <3>1, <3>2
  <2>2. MayRun(u, who)
    BY <1>3, <1>5, <2>1 DEF MayRun, IsSequence
  <2> QED BY <1>2, <1>3, <1>4, <2>2 DEF IsSequence
<1>8. CASE u # <<>> /\ u[1][1] = "merge"
  <2>1. Len(u) >= 1 /\ Head(u) = u[1] /\ 1 \in 1 .. Len(u)
    BY <1>3, <1>8
  <2>2. MayMake(Head(u), who) /\ Head(t) = R(Head(u)[2])
    BY <1>3, <1>5, <1>8, <2>1
  <2>3. PICK v : v = Tail(u)
    OBVIOUS
  <2>4. /\ v \in Seq(S) /\ Len(v) = Len(u) - 1 /\ \A i \in 1 .. Len(v) : v[i] = u[i + 1]
    BY <1>3, <1>8, <2>3, HeadTailProperties
  <2>5. ASSUME NEW i \in 1 .. Len(v)
        PROVE  MayMake(v[i], who) /\ (v[i][1] = "merge" => i > 1 /\ v[i - 1] = R(v[i][2]))
    <3>1. i + 1 \in 1 .. Len(u) /\ v[i] = u[i + 1] /\ t[i + 1] = u[i]
      BY <1>3, <2>4
    <3>2. MayMake(v[i], who) /\ (v[i][1] = "merge" => u[i] = R(v[i][2]))
      BY <1>5, <3>1
    <3>3. ASSUME v[i][1] = "merge" PROVE i > 1
      <4>1. u[i][1] = "read"
        BY <3>2, <3>3 DEF R
      <4>2. i # 1
        BY <1>8, <4>1
      <4> QED BY <4>2
    <3>4. i > 1 => v[i - 1] = u[i]
      BY <2>4
    <3> QED BY <3>2, <3>3, <3>4
  <2>6. MayRun(v, who)
    BY <2>4, <2>5 DEF MayRun, IsSequence
  <2> QED BY <1>2, <1>3, <1>4, <1>8, <2>1, <2>2, <2>3, <2>6 DEF IsSequence
<1> QED BY <1>6, <1>7, <1>8

\* What an access does to the registers that are kept.
LEMMA KeptRegisters ==
  ASSUME IrqAccess
  PROVE  /\ \A reg \in Kept : KeptValue(reg)' = IF Writes(reg) THEN Written ELSE KeptValue(reg)
         /\ \A reg \in Kept : wanted'[reg] = Asks(reg)
         /\ Reg \in Kept => IrqRead = KeptValue(Reg)
         /\ irqEn' = IF Writes("IRQ_EN") THEN Written ELSE irqEn
         /\ \A reg \in Kept : reg \in tangled \/ (Writes(reg) /\ (Overwrites(reg) \/ Behind(reg, TRUE, FALSE)))
                                => reg \in tangled'
<1>1. /\ dout' = IF Writes("DOUT") THEN Written ELSE dout
      /\ irqEn' = IF Writes("IRQ_EN") THEN Written ELSE irqEn
      /\ plicEnable' = IF Writes("PLIC_ENABLE") THEN Written ELSE plicEnable
      /\ wanted' = [reg \in Kept |-> Asks(reg)]
      /\ tangled' = tangled \cup {reg \in Kept :
                       Writes(reg) /\ (Overwrites(reg) \/ Behind(reg, TRUE, FALSE))}
  BY DEF IrqAccess
<1>2. \A reg \in Kept : KeptValue(reg)' = IF Writes(reg) THEN Written ELSE KeptValue(reg)
  BY <1>1 DEF KeptValue, Kept
<1>3. Reg \in Kept => IrqRead = KeptValue(Reg)
  BY DEF Kept, KeptValue, IrqRead
<1> QED BY <1>1, <1>2, <1>3

\* A function goes on by an access of its own.
LEMMA RunGoesOn ==
  ASSUME IrqAccess, irqEn \subseteq Pins, NEW t, NEW s, NEW who, NEW t2, NEW s2,
         Runs(t, s, who), t # <<>>, t = Current, s = Values,
         t2 = Tail(t), s2 = IF Op = "read" THEN Append(s, IrqRead) ELSE s
  PROVE  /\ MayMake(Head(t), who) /\ Runs(t2, s2, who)'
         /\ Op = "merge" => /\ Reg \in Kept => Values[Len(Values)] = KeptValue(Reg) \/ Reg \in tangled
                            /\ Reg = "IRQ_EN" => Values[Len(Values)] \subseteq Pins
<1>1. Op = Head(t)[1] /\ Reg = Head(t)[2]
  BY DEF Op, Reg
<1>2. IsSequence(s2)
  BY AppendedIsSequence DEF Runs
<1>3. ASSUME MayRun(t2, who) PROVE Runs(t2, s2, who)'
  BY <1>2, <1>3 DEF Runs, MayRun, MayMake, IsSequence
<1>4. CASE MayRun(t, who)
  <2>1. /\ MayMake(Head(t), who) /\ Head(t)[1] # "merge" /\ IsSequence(t2)
        /\ \/ MayRun(t2, who)
           \/ /\ t2 # <<>> /\ Head(t2)[1] = "merge" /\ MayMake(Head(t2), who)
              /\ Head(t) = R(Head(t2)[2]) /\ MayRun(Tail(t2), who)
    BY <1>4, RestRuns
  <2>2. CASE /\ t2 # <<>> /\ Head(t2)[1] = "merge" /\ MayMake(Head(t2), who)
             /\ Head(t) = R(Head(t2)[2]) /\ MayRun(Tail(t2), who)
    <3>1. PICK reg : reg = Head(t2)[2]
      OBVIOUS
    <3>2. Op = "read" /\ Reg = reg
      BY <1>1, <2>2, <3>1 DEF R
    <3>3. PICK v : v = s2[Len(s2)]
      OBVIOUS
    <3>4. v = IrqRead
      BY <3>2, <3>3, LastAppended DEF Runs
    <3>5. \A r : ~Writes(r)
      BY <3>2 DEF Writes
    <3>6. reg \in Kept => v = KeptValue(reg)'
      BY <3>2, <3>4, <3>5, KeptRegisters
    <3>7. reg = "IRQ_EN" => v \subseteq Pins
      BY <3>2, <3>4 DEF IrqRead
    <3>8. Merges(t2, s2, who)'
      <4>1. IsSequence(t2)' /\ MayRun(Tail(t2), who)' /\ MayMake(Head(t2), who)'
        BY <2>1, <2>2 DEF MayRun, MayMake, IsSequence
      <4> QED BY <2>2, <3>1, <3>3, <3>6, <3>7, <4>1 DEF Merges
    <3> QED BY <1>1, <1>2, <2>1, <3>8 DEF Runs, IsSequence
  <2> QED BY <1>1, <1>3, <2>1, <2>2
<1>5. CASE Merges(t, s, who)
  <2>1. /\ MayRun(t2, who) /\ MayMake(Head(t), who)
        /\ Reg \in Kept => Values[Len(Values)] = KeptValue(Reg) \/ Reg \in tangled
        /\ Reg = "IRQ_EN" => Values[Len(Values)] \subseteq Pins
    BY <1>1, <1>5 DEF Merges
  <2> QED BY <1>3, <2>1
<1> QED BY <1>4, <1>5 DEF Runs

\* The thread waits while the handler makes an access: what it has read of a
\* register that the handler writes is tangled.
LEMMA RunWaits ==
  ASSUME IrqAccess, ~Thread, Runs(todo, seen, call), UNCHANGED <<todo, seen, call>>
  PROVE  Runs(todo, seen, call)'
<1>1. CASE MayRun(todo, call)
  BY <1>1 DEF Runs, MayRun, MayMake, IsSequence
<1>2. CASE Merges(todo, seen, call)
  <2>1. PICK reg : reg = Head(todo)[2]
    OBVIOUS
  <2>2. ASSUME reg \in Kept
        PROVE  seen[Len(seen)] = KeptValue(reg)' \/ reg \in tangled'
    <3>1. CASE Writes(reg)
      <4>1. Behind(reg, TRUE, FALSE)
        BY <1>2, <2>1 DEF Behind, Relies, Merges
      <4> QED BY <2>2, <3>1, <4>1, KeptRegisters
    <3>2. CASE ~Writes(reg)
      BY <1>2, <2>1, <2>2, <3>2, KeptRegisters DEF Merges
    <3> QED BY <3>1, <3>2
  <2>3. /\ IsSequence(todo)' /\ todo' # <<>> /\ MayRun(Tail(todo), call)'
        /\ MayMake(Head(todo), call)' /\ Head(todo')[1] = "merge"
        /\ reg = "IRQ_EN" => seen'[Len(seen')] \subseteq Pins
    BY <1>2, <2>1 DEF Merges, MayRun, MayMake, IsSequence
  <2>4. Merges(todo, seen, call)'
    BY <2>1, <2>2, <2>3 DEF Merges
  <2> QED BY <1>2, <2>4 DEF Runs, IsSequence
<1> QED BY <1>1, <1>2 DEF Runs

\* What an enabled level that is up means to the pins together.
LEMMA LevelIsRaw ==
  ASSUME irqEn' \subseteq Pins, NEW from,
         IrqRaw(from, din', irqMode', irqPol') \cap irqEn' # {} => "GPIO" \in pending' \cup inService'
  PROVE  LevelIsPending'
<1> SUFFICES ASSUME NEW p \in irqEn', irqMode' = {}, p \in irqPol' <=> p \in din',
                    irqPol' # {} => p \in irqPol'
             PROVE  "GPIO" \in pending' \cup inService'
  BY DEF LevelIsPending
<1>1. p \in IrqRaw(from, din', irqMode', irqPol')
  BY DEF IrqRaw, LevelDet
<1> QED BY <1>1

\* An access of the thread, or of the handler, as far as it keeps to its part.
LEMMA PinsAccess ==
  ASSUME PinsInv, IrqAccess, MayMake(Head(Current), IF Thread THEN call ELSE "handler")
                             \/ (~Thread /\ isrTodo \in {Claims, Looks}),
         Op = "merge" => /\ Reg \in Kept => Values[Len(Values)] = KeptValue(Reg) \/ Reg \in tangled
                         /\ Reg = "IRQ_EN" => Values[Len(Values)] \subseteq Pins
  PROVE  PinsInv'
<1>1. /\ Current # <<>> /\ isr' = isr /\ din' = din
      /\ ~Thread => Current = isrTodo /\ isrTodo' = Tail(isrTodo)
      /\ Thread => isrTodo' = isrTodo
      /\ unseen' = (unseen /\ ~(Reads("IRQ_STAT") /\ ~Thread))
      /\ missed' = (missed /\ ~(Reads("IRQ_STAT") /\ ~Thread))
      /\ inService' = IF Reads("PLIC_CLAIM") THEN inService \cup PlicWins
                      ELSE IF Writes("PLIC_COMPLETE") THEN inService \ Written ELSE inService
      /\ Pinned(IrqRaw(din, din, irqMode', irqPol'))
  BY DEF IrqAccess, Access, Current
<1>2. PICK a : a = Head(Current)
  OBVIOUS
<1>3. Op = a[1] /\ Reg = a[2] /\ Thread' = Thread
  BY <1>1, <1>2 DEF Op, Reg, Thread
<1>4. ASSUME ~Thread, isrTodo \in {Claims, Looks}
      PROVE  /\ Op = "read" /\ (isrTodo = Claims => Reg = "PLIC_CLAIM" /\ isrTodo' = Looks)
             /\ isrTodo = Looks => Reg = "IRQ_STAT"
  <2>1. /\ Head(Claims) = R("PLIC_CLAIM") /\ Tail(Claims) = Looks /\ Head(Looks) = R("IRQ_STAT")
    BY DEF Claims, Looks
  <2>2. \A r : R(r)[1] = "read" /\ R(r)[2] = r
    BY DEF R
  <2> QED BY <1>1, <1>2, <1>3, <1>4, <2>1, <2>2
<1>5. irqEn' \subseteq Pins
  <2>1. CASE Writes("IRQ_EN")
    <3>1. Op = "merge"
      BY <1>2, <1>3, <1>4, <2>1 DEF Writes, MayMake
    <3>2. Reg = "IRQ_EN" /\ a[3] \subseteq Pins
      BY <1>2, <1>3, <1>4, <2>1, <3>1 DEF Writes, MayMake
    <3>3. Written = (Values[Len(Values)] \ a[4]) \cup a[3]
      BY <1>2, <3>1 DEF Written, Into
    <3> QED BY <2>1, <3>1, <3>2, <3>3, KeptRegisters
  <2>2. CASE ~Writes("IRQ_EN")
    BY <2>2, KeptRegisters DEF PinsInv
  <2> QED BY <2>1, <2>2
<1>6. LevelIsPending'
  <2>1. IrqRaw(din, din', irqMode', irqPol') \cap irqEn' # {} => "GPIO" \in pending' \cup inService'
    BY <1>1 DEF Pinned
  <2> QED BY <1>5, <2>1, LevelIsRaw
<1>7. ASSUME NEW reg \in Kept \ tangled'
      PROVE  wanted'[reg] = KeptValue(reg)'
  <2>1. reg \notin tangled /\ wanted[reg] = KeptValue(reg) /\ wanted'[reg] = Asks(reg)
    <3>1. reg \notin tangled
      BY <1>7, KeptRegisters
    <3> QED BY <3>1, KeptRegisters DEF PinsInv, EnabledAsAsked, KeptValue
  <2>2. CASE ~Writes(reg)
    BY <2>1, <2>2, KeptRegisters DEF Asks
  <2>3. CASE Writes(reg) /\ Op = "merge"
    <3>1. Reg = reg /\ Values[Len(Values)] = KeptValue(reg)
      BY <2>1, <2>3 DEF Writes
    <3>2. Asks(reg) = Into(wanted[reg]) /\ Written = Into(Values[Len(Values)])
      BY <2>3 DEF Asks, Written
    <3> QED BY <2>1, <2>3, <3>1, <3>2, KeptRegisters
  <2>4. CASE Writes(reg) /\ Op # "merge"
    <3>1. Op = "write" /\ Reg = reg
      BY <2>4 DEF Writes
    <3>2. reg = "PLIC_ENABLE" /\ Thread /\ call = "init"
      BY <1>2, <1>3, <1>4, <3>1 DEF MayMake, Kept
    <3>3. ~Overwrites(reg)
      BY <1>7, <2>4, KeptRegisters
    <3>4. wanted[reg] \cup Written = Written
      BY <3>2, <3>3 DEF Overwrites
    <3> QED BY <2>1, <2>4, <3>4, KeptRegisters DEF Asks
  <2> QED BY <2>2, <2>3, <2>4
<1>8. EnabledAsAsked'
  BY <1>7 DEF EnabledAsAsked, KeptValue
<1>9. unseen' \in BOOLEAN /\ missed' \in BOOLEAN
  BY <1>1 DEF PinsInv
<1>10. ASSUME unseen'
       PROVE  "GPIO" \in pending' \/ missed' \/ (~Thread' /\ isrTodo' = Looks /\ "GPIO" \in inService')
  <2>1. unseen /\ ~(Reads("IRQ_STAT") /\ ~Thread)
    BY <1>1, <1>10
  <2>2. CASE "GPIO" \in pending
    <3>1. CASE Reads("PLIC_CLAIM") /\ "GPIO" \in PlicWins
      <4>1. ~Thread /\ isrTodo = Claims
        BY <1>2, <1>3, <1>4, <3>1 DEF Reads, MayMake
      <4> QED BY <1>1, <1>3, <1>4, <3>1, <4>1
    <3>2. CASE ~(Reads("PLIC_CLAIM") /\ "GPIO" \in PlicWins)
      BY <1>1, <2>2, <3>2 DEF Pinned
    <3> QED BY <3>1, <3>2
  <2>3. CASE missed
    BY <1>1, <2>1, <2>3
  <2>4. CASE ~Thread /\ isrTodo = Looks
    BY <1>4, <2>1, <2>4 DEF Reads
  <2> QED BY <2>1, <2>2, <2>3, <2>4 DEF PinsInv
<1> QED BY <1>5, <1>6, <1>8, <1>9, <1>10 DEF PinsInv

LEMMA IrqAccessStep ==
  ASSUME IrqInv, IrqAccess
  PROVE  IrqInv'
<1>1. /\ Current # <<>> /\ UNCHANGED <<call, isr>> /\ Thread' = Thread /\ irqEn \subseteq Pins
      /\ Thread => /\ Current = todo /\ Values = seen /\ UNCHANGED <<isrTodo, isrSeen>>
                   /\ todo' = Tail(todo)
                   /\ seen' = IF Op = "read" THEN Append(seen, IrqRead) ELSE seen
      /\ ~Thread => /\ Current = isrTodo /\ Values = isrSeen /\ UNCHANGED <<todo, seen>>
                    /\ isrTodo' = Tail(isrTodo)
                    /\ isrSeen' = IF Op = "read" THEN Append(isrSeen, IrqRead) ELSE isrSeen
  <2>1. Current # <<>> /\ Access(IrqRead)
    BY DEF IrqAccess
  <2>2. UNCHANGED <<call, isr>> /\ Thread' = Thread
    BY <2>1 DEF Access, Thread
  <2>3. CASE Thread
    BY <2>1, <2>2, <2>3 DEF Access, Current, Values, IrqInv, PinsInv
  <2>4. CASE ~Thread
    BY <2>1, <2>2, <2>4 DEF Access, Current, Values, IrqInv, PinsInv
  <2> QED BY <2>3, <2>4
<1>2. CASE Thread
  <2>1. PICK t2, s2 : t2 = todo' /\ s2 = seen'
    OBVIOUS
  <2>2. /\ MayMake(Head(todo), call) /\ Runs(t2, s2, call)'
        /\ Op = "merge" => /\ Reg \in Kept => Values[Len(Values)] = KeptValue(Reg) \/ Reg \in tangled
                           /\ Reg = "IRQ_EN" => Values[Len(Values)] \subseteq Pins
    BY <1>1, <1>2, <2>1, RunGoesOn DEF IrqInv, RunInv
  <2>3. PinsInv'
    BY <1>1, <1>2, <2>2, PinsAccess DEF IrqInv
  <2> QED BY <1>1, <1>2, <2>1, <2>2, <2>3 DEF IrqInv, RunInv, Runs, Merges, MayRun, MayMake, KeptValue
<1>3. CASE ~Thread
  <2>1. Runs(todo, seen, call)'
    BY <1>1, <1>3, RunWaits DEF IrqInv, RunInv
  <2>2. CASE Runs(isrTodo, isrSeen, "handler")
    <3>1. PICK t2, s2 : t2 = isrTodo' /\ s2 = isrSeen'
      OBVIOUS
    <3>2. /\ MayMake(Head(isrTodo), "handler") /\ Runs(t2, s2, "handler")'
          /\ Op = "merge" => /\ Reg \in Kept => Values[Len(Values)] = KeptValue(Reg) \/ Reg \in tangled
                             /\ Reg = "IRQ_EN" => Values[Len(Values)] \subseteq Pins
      BY <1>1, <1>3, <2>2, <3>1, RunGoesOn
    <3>3. PinsInv'
      BY <1>1, <1>3, <3>2, PinsAccess DEF IrqInv
    <3> QED BY <1>1, <2>1, <3>1, <3>2, <3>3 DEF IrqInv, RunInv, Runs, Merges, MayRun, MayMake, KeptValue
  <2>3. CASE IsSequence(isrSeen) /\ isrTodo \in {Claims, Looks}
    <3>1. /\ Head(Claims) = R("PLIC_CLAIM") /\ Tail(Claims) = Looks
          /\ Head(Looks) = R("IRQ_STAT") /\ Tail(Looks) = <<>>
      BY DEF Claims, Looks
    <3>2. Op = "read"
      BY <1>1, <1>3, <2>3, <3>1 DEF Op, R
    <3>3. PinsInv'
      BY <1>3, <2>3, <3>2, PinsAccess DEF IrqInv
    <3>4. IsSequence(isrSeen') /\ isrTodo' \in {Looks, <<>>}
      BY <1>1, <1>3, <2>3, <3>1, AppendedIsSequence
    <3>5. \/ isrTodo' \in {Claims, Looks}
          \/ MayRun(isrTodo', "handler")
      BY <3>4, NoneRuns
    <3> QED BY <2>1, <3>3, <3>4, <3>5 DEF IrqInv, RunInv, Runs, MayRun, MayMake, IsSequence
  <2> QED BY <1>3, <2>2, <2>3 DEF IrqInv, RunInv
<1> QED BY <1>2, <1>3

LEMMA PinStep ==
  ASSUME IrqInv, NEW p \in Pins, PinMoves(p)
  PROVE  IrqInv'
<1>1. PICK to, raw : /\ raw = IrqRaw(din, to, irqMode, irqPol) \cap irqEn /\ din' = to
                     /\ irqStat' = irqStat \cup raw
                     /\ pending' = pending \cup (IF raw # {} /\ "GPIO" \notin inService THEN {"GPIO"} ELSE {})
                     /\ unseen' = (unseen \/ (irqMode # {} /\ raw # {}))
                     /\ missed' = (missed \/ (irqMode # {} /\ raw # {} /\ "GPIO" \in inService))
  BY DEF PinMoves
<1>2. /\ UNCHANGED <<call, todo, seen, isr, isrTodo, isrSeen>>
      /\ UNCHANGED <<dout, irqEn, irqMode, irqPol, plicEnable, inService, wanted, tangled>>
  BY DEF PinMoves, hart, thread, handler
<1>3. irqEn' \subseteq Pins
  BY <1>2 DEF IrqInv, PinsInv
<1>4. IrqRaw(din, din', irqMode', irqPol') \cap irqEn' # {} => "GPIO" \in pending' \cup inService'
  BY <1>1, <1>2
<1>5. LevelIsPending'
  BY <1>3, <1>4, LevelIsRaw
<1>6. EnabledAsAsked'
  BY <1>2 DEF IrqInv, PinsInv, EnabledAsAsked
<1>7. unseen' \in BOOLEAN /\ missed' \in BOOLEAN
  BY <1>1 DEF IrqInv, PinsInv
<1>8. ASSUME unseen'
      PROVE  "GPIO" \in pending' \/ missed' \/ (~Thread' /\ isrTodo' = Looks /\ "GPIO" \in inService')
  BY <1>1, <1>2, <1>8 DEF IrqInv, PinsInv, Thread
<1>9. RunInv'
  BY <1>2 DEF IrqInv, RunInv, Runs, Merges, MayRun, MayMake, KeptValue, Thread
<1> QED BY <1>3, <1>5, <1>6, <1>7, <1>8, <1>9 DEF IrqInv, PinsInv

\* The drivers' functions keep to their part.
LEMMA AccessRuns ==
  ASSUME NEW who
  PROVE  /\ \A reg, v : reg \notin {"PLIC_CLAIM", "DOUT", "IRQ_EN", "PLIC_ENABLE"}
                          => MayRun(<<W(reg, v)>>, who)
         /\ \A reg : reg # "PLIC_CLAIM" => MayRun(<<R(reg)>>, who)
         /\ \A b : b # "PLIC_CLAIM" => MayRun(<<<<"csrs", b>>>>, who) /\ MayRun(<<<<"csrc", b>>>>, who)
<1>1. ASSUME NEW reg, NEW v, reg \notin {"PLIC_CLAIM", "DOUT", "IRQ_EN", "PLIC_ENABLE"}
      PROVE  MayRun(<<W(reg, v)>>, who)
  <2>1. PICK a : a = W(reg, v)
    OBVIOUS
  <2>2. a[1] = "write" /\ a[2] = reg
    BY <2>1 DEF W
  <2> QED BY <1>1, <2>1, <2>2, OneRuns DEF MayMake
<1>2. ASSUME NEW reg, reg # "PLIC_CLAIM" PROVE MayRun(<<R(reg)>>, who)
  <2>1. PICK a : a = R(reg)
    OBVIOUS
  <2>2. a[1] = "read" /\ a[2] = reg
    BY <2>1 DEF R
  <2> QED BY <1>2, <2>1, <2>2, OneRuns DEF MayMake
<1>3. ASSUME NEW b, b # "PLIC_CLAIM", NEW op \in {"csrs", "csrc"} PROVE MayRun(<<<<op, b>>>>, who)
  <2>1. PICK a : a = <<op, b>>
    OBVIOUS
  <2>2. a[1] = op /\ a[2] = b
    BY <2>1
  <2> QED BY <1>3, <2>1, <2>2, OneRuns DEF MayMake
<1> QED BY <1>1, <1>2, <1>3

LEMMA DriversRun ==
  ASSUME NEW who
  PROVE  /\ \A mask : MayRun(gpio_set(mask), who) /\ MayRun(gpio_clear(mask), who)
         /\ \A val, mask : MayRun(gpio_write(val, mask), who)
         /\ \A src : MayRun(plic_enable(src), who) /\ MayRun(plic_disable(src), who)
         /\ \A pins : MayRun(gpio_irq_clear(pins), who)
         /\ MayRun(gpio_read, who) /\ MayRun(gpio_irq_status, who)
         /\ \A src : MayRun(plic_complete(src), who)
         /\ MayRun(mstatus_enable_irq, who) /\ MayRun(mstatus_disable_irq, who)
         /\ MayRun(mie_enable_external, who) /\ MayRun(irq_set_mtvec, who)
         /\ \A out : MayRun(gpio_set_dir(out), who)
         /\ \A src, prio : MayRun(plic_set_priority(src, prio), who)
         /\ \A t : MayRun(plic_set_threshold(t), who)
         /\ \A m : MayRun(soc_ctrl_irq_mask_set(m), who) /\ MayRun(soc_ctrl_irq_clear(m), who)
         /\ MayRun(soc_ctrl_irq_status, who)
<1>1. \A mask : MayRun(gpio_set(mask), who) /\ MayRun(gpio_clear(mask), who)
  BY MergeRuns DEF gpio_set, gpio_clear, SetBits, ClearBits
<1>2. \A val, mask : MayRun(gpio_write(val, mask), who)
  BY MergeRuns DEF gpio_write
<1>3. \A src : MayRun(plic_enable(src), who) /\ MayRun(plic_disable(src), who)
  BY MergeRuns DEF plic_enable, plic_disable, SetBits, ClearBits
<1>4. /\ \A pins : MayRun(gpio_irq_clear(pins), who)
      /\ MayRun(gpio_read, who) /\ MayRun(gpio_irq_status, who)
      /\ \A src : MayRun(plic_complete(src), who)
  BY AccessRuns DEF gpio_irq_clear, gpio_read, gpio_irq_status, plic_complete
<1>5. /\ MayRun(mstatus_enable_irq, who) /\ MayRun(mstatus_disable_irq, who)
      /\ MayRun(mie_enable_external, who) /\ MayRun(irq_set_mtvec, who)
  BY AccessRuns DEF mstatus_enable_irq, mstatus_disable_irq, mie_enable_external, irq_set_mtvec
<1>6. /\ \A out : MayRun(gpio_set_dir(out), who)
      /\ \A src, prio : MayRun(plic_set_priority(src, prio), who)
      /\ \A t : MayRun(plic_set_threshold(t), who)
  BY AccessRuns DEF gpio_set_dir, plic_set_priority, plic_set_threshold
<1>7. /\ \A m : MayRun(soc_ctrl_irq_mask_set(m), who) /\ MayRun(soc_ctrl_irq_clear(m), who)
      /\ MayRun(soc_ctrl_irq_status, who)
  BY AccessRuns DEF soc_ctrl_irq_mask_set, soc_ctrl_irq_clear, soc_ctrl_irq_status
<1> QED BY <1>1, <1>2, <1>3, <1>4, <1>5, <1>6, <1>7

LEMMA StartRuns == MayRun(IrqStart, "start")
<1>1. MayRun(plic_init_source("GPIO"), "start")
  BY DriversRun, BothRun DEF plic_init_source
<1>2. MayRun(irq_set_mtvec \o gpio_set_dir({}), "start")
  BY DriversRun, BothRun
<1>3. MayRun(irq_set_mtvec \o gpio_set_dir({}) \o plic_init_source("GPIO"), "start")
  BY <1>1, <1>2, BothRun
<1>4. MayRun(irq_set_mtvec \o gpio_set_dir({}) \o plic_init_source("GPIO")
               \o soc_ctrl_irq_mask_set({"GPIO"}), "start")
  BY <1>3, DriversRun, BothRun
<1>5. MayRun(irq_set_mtvec \o gpio_set_dir({}) \o plic_init_source("GPIO")
               \o soc_ctrl_irq_mask_set({"GPIO"}) \o soc_ctrl_irq_status, "start")
  BY <1>4, DriversRun, BothRun
<1>6. MayRun(irq_set_mtvec \o gpio_set_dir({}) \o plic_init_source("GPIO")
               \o soc_ctrl_irq_mask_set({"GPIO"}) \o soc_ctrl_irq_status
               \o soc_ctrl_irq_clear({"GPIO"}), "start")
  BY <1>5, DriversRun, BothRun
<1>7. MayRun(irq_set_mtvec \o gpio_set_dir({}) \o plic_init_source("GPIO")
               \o soc_ctrl_irq_mask_set({"GPIO"}) \o soc_ctrl_irq_status
               \o soc_ctrl_irq_clear({"GPIO"}) \o mie_enable_external, "start")
  BY <1>6, DriversRun, BothRun
<1> QED BY <1>7, DriversRun, BothRun DEF IrqStart

LEMMA CallsRun ==
  /\ \A p \in Pins, edge, polarity \in BOOLEAN : MayRun(gpio_irq_enable({p}, edge, polarity), "other")
  /\ \A f \in {gpio_set({0}), gpio_clear({0}), gpio_write(Pins, {4}),
               gpio_read \o gpio_irq_status \o gpio_irq_clear(Pins),
               plic_enable("ASCON"), plic_disable("GPIO"),
               mstatus_disable_irq \o plic_enable("ASCON") \o mstatus_enable_irq} :
       MayRun(f, "other")
  /\ MayRun(plic_init_ascon, "init")
  /\ \A seenPins, claimed : \A f \in {gpio_set({0}), plic_enable("ASCON")} :
       MayRun(gpio_irq_clear(seenPins) \o f \o plic_complete(claimed), "handler")
<1>1. ASSUME NEW p \in Pins, NEW edge \in BOOLEAN, NEW polarity \in BOOLEAN
      PROVE  MayRun(gpio_irq_enable({p}, edge, polarity), "other")
  <2>1. PICK e, q : /\ e = Merge("IRQ_MODE", IF edge THEN {p} ELSE {}, {p})
                    /\ q = Merge("IRQ_POL", IF polarity THEN {p} ELSE {}, {p})
    OBVIOUS
  <2>2. MayRun(e, "other") /\ MayRun(q, "other")
    BY <2>1, MergeRuns
  <2>3. MayRun(SetBits("IRQ_EN", {p}), "other")
    BY MergeRuns DEF SetBits
  <2>4. MayRun(e \o q, "other")
    BY <2>2, BothRun
  <2>5. MayRun(e \o q \o SetBits("IRQ_EN", {p}), "other")
    BY <2>3, <2>4, BothRun
  <2> QED BY <2>1, <2>5 DEF gpio_irq_enable
<1>2. MayRun(gpio_read \o gpio_irq_status \o gpio_irq_clear(Pins), "other")
  <2>1. MayRun(gpio_read \o gpio_irq_status, "other")
    BY DriversRun, BothRun
  <2> QED BY <2>1, DriversRun, BothRun
<1>3. MayRun(mstatus_disable_irq \o plic_enable("ASCON") \o mstatus_enable_irq, "other")
  <2>1. MayRun(mstatus_disable_irq \o plic_enable("ASCON"), "other")
    BY DriversRun, BothRun
  <2> QED BY <2>1, DriversRun, BothRun
<1>4. MayRun(plic_init_ascon, "init")
  <2>1. PICK a : a = W("PLIC_ENABLE", {"ASCON"})
    OBVIOUS
  <2>2. a[1] = "write" /\ a[2] = "PLIC_ENABLE"
    BY <2>1 DEF W
  <2>3. MayRun(<<a>>, "init")
    BY <2>2, OneRuns DEF MayMake
  <2>4. MayRun(plic_set_priority("ASCON", 1) \o <<a>>, "init")
    BY <2>3, DriversRun, BothRun
  <2>5. MayRun(plic_set_priority("ASCON", 1) \o <<a>> \o plic_set_threshold(0), "init")
    BY <2>4, DriversRun, BothRun
  <2> QED BY <2>1, <2>5 DEF plic_init_ascon
<1>5. ASSUME NEW seenPins, NEW claimed, NEW f \in {gpio_set({0}), plic_enable("ASCON")}
      PROVE  MayRun(gpio_irq_clear(seenPins) \o f \o plic_complete(claimed), "handler")
  <2>1. MayRun(f, "handler")
    BY DriversRun
  <2>2. MayRun(gpio_irq_clear(seenPins) \o f, "handler")
    BY <2>1, DriversRun, BothRun
  <2> QED BY <2>2, DriversRun, BothRun
<1>6. ASSUME NEW f \in {gpio_set({0}), gpio_clear({0}), gpio_write(Pins, {4}),
                        gpio_read \o gpio_irq_status \o gpio_irq_clear(Pins),
                        plic_enable("ASCON"), plic_disable("GPIO"),
                        mstatus_disable_irq \o plic_enable("ASCON") \o mstatus_enable_irq}
      PROVE  MayRun(f, "other")
  BY <1>2, <1>3, <1>6, DriversRun
<1> QED BY <1>1, <1>4, <1>5, <1>6

\* The handler begins with its claim.
LEMMA HandlerClaims == plic_claim \o gpio_irq_status = Claims
<1>1. PICK a, b : a = R("PLIC_CLAIM") /\ b = R("IRQ_STAT")
  OBVIOUS
<1>2. PICK s, t, u : s = <<a>> /\ t = <<b>> /\ u = <<a, b>>
  OBVIOUS
<1>3. s \in Seq({a, b}) /\ t \in Seq({a, b}) /\ u \in Seq({a, b})
  BY <1>2
<1>4. Len(s) = 1 /\ Len(t) = 1 /\ s[1] = a /\ t[1] = b /\ Len(u) = 2 /\ u[1] = a /\ u[2] = b
  BY <1>2
<1>5. PICK v : v = s \o t
  OBVIOUS
<1>6. /\ v \in Seq({a, b}) /\ Len(v) = Len(s) + Len(t)
      /\ \A i \in 1 .. Len(s) + Len(t) : v[i] = IF i <= Len(s) THEN s[i] ELSE t[i - Len(s)]
  BY <1>3, <1>5, ConcatProperties
<1>7. Len(v) = 2 /\ v[1] = a /\ v[2] = b
  BY <1>4, <1>6
<1>8. v = u
  BY <1>3, <1>4, <1>6, <1>7, SeqEqual
<1> QED BY <1>1, <1>2, <1>5, <1>8 DEF plic_claim, gpio_irq_status, Claims

\* The steps that leave the pins and the PLIC alone.
LEMMA ProgramKeepsPins ==
  ASSUME PinsInv, UNCHANGED irqVars,
         Thread \/ isrTodo # Looks
  PROVE  PinsInv'
<1>1. /\ UNCHANGED <<din, dout, irqEn, irqMode, irqPol, plicEnable, pending, inService>>
      /\ UNCHANGED <<wanted, tangled, unseen, missed>>
  BY DEF irqVars, gpio, plic, irqHistory
<1>2. EnabledAsAsked' /\ LevelIsPending'
  BY <1>1 DEF PinsInv, EnabledAsAsked, LevelIsPending
<1> QED BY <1>1, <1>2 DEF PinsInv

LEMMA RunStays ==
  ASSUME UNCHANGED irqVars
  PROVE  /\ UNCHANGED <<todo, seen, call>> /\ Runs(todo, seen, call) => Runs(todo, seen, call)'
         /\ UNCHANGED <<isrTodo, isrSeen>> /\ Runs(isrTodo, isrSeen, "handler")
              => Runs(isrTodo, isrSeen, "handler")'
  BY DEF Runs, Merges, MayRun, MayMake, IsSequence, KeptValue, irqVars, gpio, plic, irqHistory

LEMMA RunBegins ==
  ASSUME NEW t, NEW who, MayRun(t, who)
  PROVE  /\ todo' = t /\ seen' = <<>> /\ call' = who => Runs(todo, seen, call)'
         /\ isrTodo' = t /\ isrSeen' = <<>> /\ who = "handler" => Runs(isrTodo, isrSeen, "handler")'
<1>1. IsSequence(<<>>)
  <2>1. <<>> \in Seq({})
    OBVIOUS
  <2> QED BY <2>1 DEF IsSequence
<1>2. ASSUME todo' = t, seen' = <<>>, call' = who PROVE Runs(todo, seen, call)'
  <2>1. MayRun(todo', call') /\ IsSequence(seen')
    BY <1>1, <1>2
  <2> QED BY <2>1 DEF Runs, MayRun, MayMake, IsSequence
<1>3. ASSUME isrTodo' = t, isrSeen' = <<>>, who = "handler" PROVE Runs(isrTodo, isrSeen, "handler")'
  <2>1. MayRun(isrTodo', "handler") /\ IsSequence(isrSeen')
    BY <1>1, <1>3
  <2> QED BY <2>1 DEF Runs, MayRun, MayMake, IsSequence
<1> QED BY <1>2, <1>3

LEMMA IrqProgramStep ==
  ASSUME IrqInv, IrqCall \/ IrqReturn \/ IrqInterrupt \/ IrqHandles \/ IrqMret
  PROVE  IrqInv'
<1>1. UNCHANGED irqVars
  BY DEF IrqCall, IrqReturn, IrqInterrupt, IrqHandles, IrqMret
<1>2. CASE IrqCall
  <2>1. PICK name, f : Begin(name, f) /\ MayRun(f, name)
    BY <1>2, CallsRun DEF IrqCall
  <2>2. Thread /\ call' = name /\ todo' = f /\ seen' = <<>> /\ UNCHANGED <<isr, isrTodo, isrSeen>>
    BY <2>1 DEF Begin, handler
  <2>3. Runs(todo, seen, call)' /\ Thread'
    BY <2>1, <2>2, RunBegins DEF Thread
  <2>4. PinsInv'
    BY <1>1, <2>2, ProgramKeepsPins DEF IrqInv
  <2> QED BY <2>3, <2>4 DEF IrqInv, RunInv
<1>3. CASE IrqReturn
  <2>1. Thread /\ todo' = <<>> /\ call' = "none" /\ seen' = <<>> /\ UNCHANGED <<isr, isrTodo, isrSeen>>
    BY <1>3 DEF IrqReturn, GoesOn, Return, handler
  <2>2. Runs(todo, seen, call)' /\ Thread'
    BY <2>1, NoneRuns, RunBegins DEF Thread
  <2>3. PinsInv'
    BY <1>1, <2>1, ProgramKeepsPins DEF IrqInv
  <2> QED BY <2>2, <2>3 DEF IrqInv, RunInv
<1>4. CASE IrqInterrupt
  <2>1. /\ Thread /\ UNCHANGED <<call, todo, seen>>
        /\ isr' = "external" /\ isrTodo' = Claims /\ isrSeen' = <<>>
    BY <1>4, HandlerClaims DEF IrqInterrupt, Interrupt, thread
  <2>2. Runs(todo, seen, call)'
    BY <1>1, <2>1, RunStays DEF IrqInv, RunInv
  <2>3. PinsInv'
    BY <1>1, <2>1, ProgramKeepsPins DEF IrqInv
  <2>4. IsSequence(isrSeen')
    <3>1. <<>> \in Seq({})
      OBVIOUS
    <3> QED BY <2>1, <3>1 DEF IsSequence
  <2> QED BY <2>1, <2>2, <2>3, <2>4 DEF IrqInv, RunInv, IsSequence
<1>5. CASE IrqHandles
  <2>1. PICK f \in {gpio_set({0}), plic_enable("ASCON")} :
           HandlerContinue(gpio_irq_clear(isrSeen[2]) \o f \o plic_complete(isrSeen[1]))
    BY <1>5 DEF IrqHandles
  <2>2. PICK pins, claimed : pins = isrSeen[2] /\ claimed = isrSeen[1]
    OBVIOUS
  <2>3. PICK t : t = gpio_irq_clear(pins) \o f \o plic_complete(claimed) /\ MayRun(t, "handler")
    BY CallsRun
  <2>4. /\ isrTodo = <<>> /\ UNCHANGED <<isr, call, todo, seen>> /\ isrTodo' = t /\ isrSeen' = <<>>
    BY <1>5, <2>1, <2>2, <2>3 DEF IrqHandles, HandlerAt, HandlerContinue, thread
  <2>5. Runs(todo, seen, call)'
    BY <1>1, <2>4, RunStays DEF IrqInv, RunInv
  <2>6. Runs(isrTodo, isrSeen, "handler")'
    BY <2>3, <2>4, RunBegins
  <2>7. PinsInv'
    BY <1>1, <2>4, ProgramKeepsPins DEF IrqInv, Looks
  <2> QED BY <2>5, <2>6, <2>7 DEF IrqInv, RunInv
<1>6. CASE IrqMret
  <2>1. isrTodo = <<>> /\ UNCHANGED <<call, todo, seen>> /\ isr' = "none"
    BY <1>6 DEF IrqMret, Completed, HandlerAt, Mret, thread
  <2>2. Runs(todo, seen, call)'
    BY <1>1, <2>1, RunStays DEF IrqInv, RunInv
  <2>3. PinsInv'
    BY <1>1, <2>1, ProgramKeepsPins DEF IrqInv, Looks
  <2> QED BY <2>1, <2>2, <2>3 DEF IrqInv, RunInv, Thread
<1> QED BY <1>2, <1>3, <1>4, <1>5, <1>6

\* In the other scenes the pins and the PLIC rest.
IrqRest ==
  /\ wanted = [reg \in Kept |-> {}] /\ dout = {} /\ irqEn = {} /\ plicEnable = {}
  /\ unseen = FALSE
IrqsInv == IF scene = "irq" THEN IrqInv ELSE IrqRest

LEMMA IrqRestIsEnough == IrqRest => IrqKept
<1> SUFFICES ASSUME IrqRest PROVE IrqKept
  OBVIOUS
<1>1. EnabledAsAsked
  BY DEF IrqRest, EnabledAsAsked
<1> QED BY <1>1 DEF IrqRest, IrqKept, EdgeIsPending, LevelIsPending

LEMMA IrqsStart == Init => IrqsInv
<1> SUFFICES ASSUME Init PROVE IrqsInv
  OBVIOUS
<1>1. /\ wanted = [reg \in Kept |-> {}] /\ dout = {} /\ irqEn = {} /\ plicEnable = {}
      /\ tangled = {} /\ unseen = FALSE /\ missed = FALSE
  BY DEF Init, IrqInit
<1>2. CASE scene = "irq"
  <2>1. call = "start" /\ todo = IrqStart /\ seen = <<>> /\ isr = "none"
    BY <1>2 DEF Init, HartInit, StartOf
  <2>2. IsSequence(<<>>)
    <3>1. <<>> \in Seq({})
      OBVIOUS
    <3> QED BY <3>1 DEF IsSequence
  <2>3. RunInv
    BY <2>1, <2>2, StartRuns DEF RunInv, Runs, Thread
  <2>4. EnabledAsAsked
    BY <1>1 DEF EnabledAsAsked
  <2>5. PinsInv
    BY <1>1, <2>4 DEF PinsInv, LevelIsPending
  <2> QED BY <1>2, <2>3, <2>5 DEF IrqsInv, IrqInv
<1>3. CASE scene # "irq"
  BY <1>1, <1>3 DEF IrqsInv, IrqRest
<1> QED BY <1>2, <1>3

LEMMA IrqsGoOn == IrqsInv /\ [Next]_vars => IrqsInv'
<1> SUFFICES ASSUME IrqsInv, [Next]_vars PROVE IrqsInv'
  OBVIOUS
<1>1. CASE Irq
  BY <1>1, IrqAccessStep, PinStep, IrqProgramStep DEF Irq, IrqNext, IrqsInv
<1>2. CASE scene # "irq" /\ UNCHANGED <<scene, irqVars>>
  BY <1>2 DEF IrqsInv, IrqRest, irqVars, gpio, plic, irqHistory
<1>3. CASE UNCHANGED vars
  <2>1. UNCHANGED <<scene, call, todo, seen, isr, isrTodo, isrSeen>> /\ UNCHANGED irqVars
    BY <1>3 DEF vars, hart, thread, handler, devices
  <2>2. CASE scene = "irq"
    <3>1. IrqInv
      BY <2>2 DEF IrqsInv
    <3>2. /\ UNCHANGED <<din, dout, irqEn, irqMode, irqPol, plicEnable, pending, inService>>
          /\ UNCHANGED <<wanted, tangled, unseen, missed>>
      BY <2>1 DEF irqVars, gpio, plic, irqHistory
    <3>3. PinsInv'
      BY <2>1, <3>1, <3>2
         DEF IrqInv, PinsInv, EnabledAsAsked, LevelIsPending, Thread
    <3>4. RunInv'
      <4>1. Runs(todo, seen, call)'
        BY <2>1, <3>1, RunStays DEF IrqInv, RunInv
      <4>2. ~Thread' => \/ IsSequence(isrSeen)' /\ isrTodo' \in {Claims, Looks}
                        \/ Runs(isrTodo, isrSeen, "handler")'
        BY <2>1, <3>1, RunStays DEF IrqInv, RunInv, Thread, IsSequence
      <4> QED BY <4>1, <4>2 DEF RunInv, Claims, Looks
    <3> QED BY <2>1, <2>2, <3>3, <3>4 DEF IrqsInv, IrqInv
  <2> QED BY <1>2, <2>1, <2>2
<1> QED BY <1>1, <1>2, <1>3 DEF Next, Clint, Perf, Timer, Uart, Spi, Ascon

\* The enables are what the callers of gpio.h and plic.h asked for, and an edge
\* or a level they let through reaches the PLIC (gpio.h:38-70, plic.h:40-50),
\* for every set of pins and every interleaving of a thread with its handler.
THEOREM IrqIsKept == Spec => []IrqKept
<1>1. IrqsInv => IrqKept
  BY IrqRestIsEnough, PinsInvIsEnough DEF IrqsInv, IrqInv
<1> QED BY <1>1, IrqsStart, IrqsGoOn, PTL DEF Spec

(***************************************************************************)
(* The cipher core and the program main.                                   *)
(*                                                                         *)
(* A run that was started clean and that nobody disturbs has read, of each *)
(* input, nothing or what it was started with; so its text and its tag are *)
(* those of its inputs, where it leaves them.  A collect finds the run of  *)
(* its context at its end: while it lasts no sticky bit is set, and one is *)
(* what the collect waits for.                                             *)
(***************************************************************************)
DmaStart == W("CTRL", {"CORE_START", "DMA_EN"})
DmaWait  == Until("STATUS", {"DMA_DONE", "DMA_ERR"})
JobRegs  == {"DMA_SRC", "DMA_DST", "DMA_LEN"}
Job ==
  IF scene = "main"
  THEN [DMA_SRC |-> PT_MULTI_BASE, DMA_DST |-> CT_MULTI_BASE, DMA_LEN |-> DMEM_MULTI_PT_LEN]
  ELSE [DMA_SRC |-> Base("PTEXT_0"), DMA_DST |-> Base("CTEXT_0"), DMA_LEN |-> 8]

\* What is left of a function that prepares and starts runs: the start of a job
\* of the DMA finds its registers set, and is followed by nothing but the wait.
Prepares(a) ==
  \/ a[1] = "write" /\ a[2] \in Inputs
  \/ scene = "ascon" /\ \E c \in Contexts : a = W("CONTEXT_SEL", c)
  \/ \E r \in JobRegs : a = W(r, Job[r])
  \/ a \in {W("PTEXT_0", 4), W("PT_MULTI", 5), W("CTRL", {"SOFT_RST"})}
MayStart(a) ==
  \/ Prepares(a) \/ a \in {DmaStart, DmaWait}
  \/ scene = "ascon" /\ a = W("CTRL", {"CORE_START"})
IsSet(t, i, r) == dmaRegs[r] = Job[r] \/ \E j \in 1 .. i - 1 : t[j] = W(r, Job[r])
StartsRuns(t) ==
  /\ IsSequence(t)
  /\ \A i \in 1 .. Len(t) :
       /\ MayStart(t[i])
       /\ t[i] = DmaStart => /\ Len(t) = i + 1 /\ t[i + 1] = DmaWait
                             /\ \A r \in JobRegs : IsSet(t, i, r)

\* A run that nobody has disturbed.
JobWaits ==
  \/ todo = <<DmaWait>>
  \/ scene = "main" /\ (todo = <<>> \/ \E x : todo = <<W("RETCODE", x)>>)
Known ==
  CASE core.phase = "ad"   -> {"MODE", "KEY", "NONCE"}
    [] core.phase = "data" -> {"MODE", "KEY", "NONCE", "AD"}
    [] core.phase = "tag"  -> Inputs \ {"TAG_IN"}
    [] OTHER -> {}
RunsOn(c)  == core_busy /\ active = c
TakesOurs(c) ==
  \A r \in Inputs : /\ Input(r) = promised[c][r]
                    /\ core.in[r] \in {Unread, promised[c][r]}
                    /\ r \in Known => core.in[r] = promised[c][r]
Running(c) ==
  /\ sticky = {} /\ landing = <<>> /\ dmaBusy = dmaEn
  /\ dmaEn => JobWaits
  /\ TakesOurs(c)
  /\ core.phase # "tag" => wrFifo = <<>>
  /\ core.phase = "tag" => wrFifo = <<CtextOf(promised[c])>> /\ ctext[c] = CtextOf(promised[c])
Result(c)  == ctext[c] = CtextOf(promised[c]) /\ tag[c] = TagOf(promised[c])
Wrong(c)   == promised[c]["MODE"] = Dec /\ ~Matches(promised[c])
ResultOf(c) ==
  "result" \in good[c] => (RunsOn(c) => Running(c)) /\ (~RunsOn(c) => Result(c))
VerdictOf(c) ==
  "verdict" \in good[c] =>
    /\ "result" \in good[c]
    /\ core_busy => active = c
    /\ ~core_busy => ("TAG_MISMATCH" \in sticky <=> Wrong(c))

CipherTyped ==
  /\ Thread /\ selected \in Contexts /\ active \in Contexts
  /\ {dmaBusy, dmaEn} \subseteq BOOLEAN
  /\ bank = [c \in Contexts |-> bank[c]]
  /\ promised = [c \in Contexts |-> promised[c]]
  /\ ctext = [c \in Contexts |-> ctext[c]]
  /\ good = [c \in Contexts |-> good[c]]
  /\ \A c \in Contexts : bank[c] = [r \in Inputs |-> bank[c][r]]
  /\ dmaRegs = [r \in JobRegs |-> dmaRegs[r]]
JobInv ==
  /\ dmaBusy => \A r \in JobRegs : dmaRegs[r] = Job[r]
  /\ landing # <<>> => landing[2] = Job["DMA_DST"] /\ landing[3] = Job["DMA_LEN"] + 16
  /\ \A a \in {"g_stream", "PTEXT_0", "PT_MULTI", "guard"} : mem[a] # Torn
RunsInv == \A c \in Contexts : ResultOf(c) /\ VerdictOf(c)
CoreInv == CipherTyped /\ JobInv /\ RunsInv

\* What is left of a collect, and what it has found.
Collects == <<Until("STATUS", {"CORE_DONE"}), R("CTEXT"), R("TAG")>>
Polled ==
  /\ "result" \in good[selected] => ~RunsOn(selected)
  /\ "verdict" \in good[selected] => (Verdict = "wrong" <=> Wrong(selected))
CollectInv ==
  \/ /\ \E c \in Contexts :
          todo = <<W("CONTEXT_SEL", c), Until("STATUS", {"CORE_DONE"}), R("CTEXT"), R("TAG")>>
     /\ seen = <<>>
  \/ todo = Collects /\ seen = <<>>
  \/ todo = <<R("CTEXT"), R("TAG")>> /\ seen = <<>> /\ Polled
  \/ /\ todo = <<R("TAG")>> /\ Polled
     /\ "result" \in good[selected] => seen = <<CtextOf(promised[selected])>>
  \/ /\ todo = <<>> /\ Polled
     /\ "result" \in good[selected] => seen = <<CtextOf(promised[selected]), TagOf(promised[selected])>>
RunsThread ==
  /\ mem["RETCODE"] = "none"
  /\ \/ call \in {"start", "none"} /\ todo = <<>>
     \/ call = "other" /\ StartsRuns(todo)
     \/ call = "collect" /\ CollectInv

\* main: until it starts the job, nothing has happened; it writes 0 when the
\* job is done, and then its text and tag are in memory or on their way.
Both == <<CtextOf(promised[0]), TagOf(promised[0])>>
Delivered ==
  "memory" \in good[0] /\ "DMA_ERR" \notin sticky =>
    /\ "result" \in good[0] /\ active = 0
    /\ dmaBusy => landing = <<>> /\ "DMA_DONE" \notin sticky /\ (~core_busy => wrFifo = Both)
    /\ ~dmaBusy => /\ ~core_busy
                   /\ landing # <<>> => landing[1] = Both
                   /\ landing = <<>> => mem["CT_MULTI"] = Both
Settled   == "memory" \in good[0] => "DMA_ERR" \notin sticky /\ ~dmaBusy
Untouched ==
  /\ ~core_busy /\ ~dmaBusy /\ sticky = {} /\ wrFifo = <<>> /\ landing = <<>> /\ active = 0
  /\ \A c \in Contexts : good[c] = {}
MainThread ==
  /\ call = "main" /\ selected = 0 /\ Delivered
  /\ \/ /\ StartsRuns(todo) /\ Untouched /\ mem["RETCODE"] = "none"
        /\ \E i \in 1 .. Len(todo) : todo[i] = DmaStart
     \/ todo = <<DmaWait>> /\ mem["RETCODE"] = "none"
     \/ todo = <<>> /\ mem["RETCODE"] = "none" /\ ("DMA_ERR" \notin polled => Settled)
     \/ /\ mem["RETCODE"] = "none"
        /\ \E x \in {"0", "-1", "-2"} : todo = <<W("RETCODE", x)>> /\ (x = "0" => Settled)
     \/ todo = <<>> /\ mem["RETCODE"] # "none" /\ (mem["RETCODE"] = "0" => Settled)
CipherInv == CoreInv /\ (scene = "ascon" => RunsThread) /\ (scene = "main" => MainThread)

\* The layout of the data memory.
LEMMA Layout ==
  /\ Base("g_stream") = 0 /\ Base("PTEXT_0") = 448 /\ Base("CTEXT_0") = 464 /\ Base("RETCODE") = 536
  /\ Base("PT_MULTI") = 544 /\ Base("CT_MULTI") = 672 /\ Base("guard") = 2048
  /\ Areas = {"g_stream", "PTEXT_0", "CTEXT_0", "RETCODE", "PT_MULTI", "CT_MULTI", "guard"}
  /\ DmemLayout["g_stream"][2] = 436 /\ DmemLayout["PTEXT_0"][2] = 456
  /\ DmemLayout["RETCODE"][2] = 540 /\ DmemLayout["PT_MULTI"][2] = 672
<1>1. Areas = {"g_stream", "PTEXT_0", "CTEXT_0", "RETCODE", "PT_MULTI", "CT_MULTI", "guard"}
  BY DEF Areas, DmemLayout
<1>2. /\ Base("g_stream") = 0 /\ Base("PTEXT_0") = 448 /\ Base("CTEXT_0") = 464
      /\ Base("RETCODE") = 536
  BY DEF Base, DmemLayout, DMEM_BASE
<1>3. Base("PT_MULTI") = 544 /\ Base("CT_MULTI") = 672 /\ Base("guard") = 2048
  BY DEF Base, DmemLayout, PT_MULTI_BASE, CT_MULTI_BASE, DMEM_MULTI_PT_LEN
<1>4. /\ DmemLayout["g_stream"][2] = 436 /\ DmemLayout["PTEXT_0"][2] = 456
      /\ DmemLayout["RETCODE"][2] = 540 /\ DmemLayout["PT_MULTI"][2] = 672
  BY DEF DmemLayout, DMEM_BASE, PT_MULTI_BASE, DMEM_MULTI_PT_LEN
<1> QED BY <1>1, <1>2, <1>3, <1>4

\* The jobs read an area of their own, and write to none but their output.
LEMMA JobAreas ==
  ASSUME NEW src \in {Job["DMA_SRC"]}, NEW dst \in {Job["DMA_DST"]}, NEW len \in {Job["DMA_LEN"] + 16}
  PROVE  /\ At(src) = IF scene = "main" THEN "PT_MULTI" ELSE "PTEXT_0"
         /\ dst = IF scene = "main" THEN Base("CT_MULTI") ELSE Base("CTEXT_0")
         /\ \A a \in {"g_stream", "PTEXT_0", "RETCODE", "PT_MULTI", "guard"} : a \notin Hit(dst, len)
         /\ scene = "main" => "CT_MULTI" \in Hit(dst, len)
<1>1. IF scene = "main" THEN src = 544 /\ dst = 672 /\ len = 144
                        ELSE src = 448 /\ dst = 464 /\ len = 24
  BY Layout DEF Job, PT_MULTI_BASE, CT_MULTI_BASE, DMEM_MULTI_PT_LEN
<1>2. \A a \in Areas : Base(a) = 448 => a = "PTEXT_0"
  BY Layout
<1>3. \A a \in Areas : Base(a) = 544 => a = "PT_MULTI"
  BY Layout
<1>4. At(448) = "PTEXT_0" /\ At(544) = "PT_MULTI"
  BY <1>2, <1>3, Layout DEF At
<1>5. ASSUME NEW a \in {"g_stream", "PTEXT_0", "RETCODE", "PT_MULTI", "guard"}
      PROVE  ~(Base(a) < dst + len /\ dst < DmemLayout[a][2])
  BY <1>1, Layout
<1>6. scene = "main" => Base("CT_MULTI") < dst + len /\ dst < DmemLayout["CT_MULTI"][2]
  BY <1>1, Layout DEF DmemLayout, CT_MULTI_BASE, DMEM_MULTI_PT_LEN
<1> QED BY <1>1, <1>4, <1>5, <1>6, Layout DEF Hit

\* Of a step that leaves the core and its DMA alone, what it may do to the rest.
LEMMA CoreKept ==
  ASSUME CoreInv, UNCHANGED <<scene, active, core, sticky, landing, wrFifo, dmaBusy, ctext, tag, promised>>,
         Thread', dmaEn' \in BOOLEAN, selected' \in Contexts,
         core_busy /\ "result" \in good'[active] => dmaEn' = dmaEn,
         bank' = [c \in Contexts |-> bank'[c]],
         \A c \in Contexts : bank'[c] = [r \in Inputs |-> bank'[c][r]],
         good' = [c \in Contexts |-> good'[c]], dmaRegs' = [r \in JobRegs |-> dmaRegs'[r]],
         dmaBusy => dmaRegs' = dmaRegs,
         \A a \in {"g_stream", "PTEXT_0", "PT_MULTI", "guard"} : mem'[a] # Torn,
         \A c \in Contexts : /\ good'[c] = good[c] \/ good'[c] = {}
                             /\ "result" \in good'[c] /\ RunsOn(c) => bank'[c] = bank[c],
         dmaEn /\ core_busy /\ "result" \in good'[active] =>
           dmaRegs' = dmaRegs /\ mem'[At(dmaRegs["DMA_SRC"])] = mem[At(dmaRegs["DMA_SRC"])] /\ JobWaits'
  PROVE  CoreInv'
<1>1. CipherTyped'
  BY DEF CoreInv, CipherTyped
<1>2. JobInv'
  BY DEF CoreInv, JobInv, Job
<1>3. ASSUME NEW c \in Contexts, "result" \in good'[c], RunsOn(c)'
      PROVE  Running(c)'
  <2>1. "result" \in good[c] /\ RunsOn(c) /\ bank'[c] = bank[c] /\ core_busy
    BY <1>3 DEF RunsOn, core_busy
  <2>2. Running(c) /\ dmaEn' = dmaEn
    BY <1>3, <2>1 DEF CoreInv, RunsInv, ResultOf, RunsOn
  <2>3. dmaEn => dmaRegs' = dmaRegs /\ mem'[At(dmaRegs["DMA_SRC"])] = mem[At(dmaRegs["DMA_SRC"])] /\ JobWaits'
    BY <1>3, <2>1 DEF RunsOn
  <2>4. core_context_sel = c /\ core_context_sel' = c
    BY <1>3, <2>1 DEF RunsOn, core_context_sel
  <2>5. ASSUME NEW r \in Inputs PROVE Input(r)' = Input(r)
    BY <2>1, <2>2, <2>3, <2>4 DEF Input
  <2>6. Known' = Known
    BY DEF Known
  <2>7. TakesOurs(c)'
    BY <2>2, <2>5, <2>6 DEF Running, TakesOurs
  <2> QED BY <2>2, <2>3, <2>7 DEF Running
<1>4. ASSUME NEW c \in Contexts, "result" \in good'[c], ~RunsOn(c)'
      PROVE  Result(c)'
  BY <1>4 DEF CoreInv, RunsInv, ResultOf, RunsOn, core_busy, Result
<1>5. ASSUME NEW c \in Contexts PROVE VerdictOf(c)'
  BY <1>5 DEF CoreInv, RunsInv, VerdictOf, core_busy, Wrong
<1>6. RunsInv'
  BY <1>3, <1>4, <1>5 DEF RunsInv, ResultOf
<1> QED BY <1>1, <1>2, <1>6 DEF CoreInv

\* An access of the thread.
LEMMA AccessOf ==
  ASSUME Thread, AsconAccess
  PROVE  /\ todo # <<>> /\ Current = todo /\ Thread' /\ todo' = Tail(todo)
         /\ UNCHANGED <<call, calls, ctext, tag, landing>>
         /\ Op = Head(todo)[1] /\ Reg = Head(todo)[2]
         /\ seen' = IF Op = "read" THEN Append(seen, AsconRead) ELSE seen
         /\ Op = "until" => Head(todo)[3] \cap AsconStatus # {} /\ polled' = AsconStatus
         /\ Op # "until" => polled' = polled
<1>1. Current = todo /\ Values = seen
  BY DEF Current, Values
<1>2. todo # <<>> /\ Access(AsconRead) /\ AsconWrite
  BY <1>1 DEF AsconAccess
<1>3. UNCHANGED <<call, calls, isr>> /\ UNCHANGED <<ctext, tag, landing>>
  BY <1>2 DEF Access, AsconWrite
<1>4. todo' = Tail(todo) /\ seen' = IF Op = "read" THEN Append(seen, AsconRead) ELSE seen
  BY <1>1, <1>2 DEF Access
<1>5. /\ Op = "until" => Head(todo)[3] \cap AsconStatus # {} /\ polled' = AsconStatus
      /\ Op # "until" => polled' = polled
  BY <1>1 DEF AsconAccess
<1>6. Op = Head(todo)[1] /\ Reg = Head(todo)[2]
  BY <1>1 DEF Op, Reg
<1> QED BY <1>1, <1>2, <1>3, <1>4, <1>5, <1>6 DEF Thread

\* One that does not write CTRL.
LEMMA PlainAccess ==
  ASSUME CoreInv, AsconAccess, ~Writes("CTRL")
  PROVE  /\ UNCHANGED <<active, core, sticky, landing, wrFifo, dmaBusy, dmaEn, ctext, tag, promised>>
         /\ good' = IF Op = "write" /\ Reg \in Inputs /\ selected = active /\ core_busy
                    THEN [good EXCEPT ![active] = {}] ELSE good
         /\ selected' = IF Op = "write" /\ Reg = "CONTEXT_SEL" THEN Head(todo)[3] ELSE selected
         /\ bank' = [c \in Contexts |-> bank'[c]]
         /\ \A c \in Contexts : bank'[c] = [r \in Inputs |-> bank'[c][r]]
         /\ \A c \in Contexts : bank'[c] # bank[c] => Op = "write" /\ Reg \in Inputs /\ c = selected
         /\ dmaRegs' = [r \in JobRegs |-> dmaRegs'[r]]
         /\ \A r \in JobRegs : dmaRegs'[r] = IF Op = "write" /\ Reg = r THEN Head(todo)[3] ELSE dmaRegs[r]
         /\ \A a \in Areas : mem'[a] = IF Op = "write" /\ Reg = a THEN Head(todo)[3] ELSE mem[a]
<1>1. Thread /\ Current = todo
  BY DEF CoreInv, CipherTyped, Current
<1>2. Op = "write" => Written = Head(todo)[3]
  BY <1>1 DEF Written
<1>3. AsconWrite
  BY DEF AsconAccess
<1>4. Bits = {} /\ ~Resets /\ ~ByCpu /\ ~ByDma
  BY DEF Bits, Resets, ByCpu, ByDma
<1>5. UNCHANGED <<active, core, sticky, dmaEn, wrFifo>> /\ dmaBusy' = dmaBusy
  BY <1>3, <1>4 DEF AsconWrite, Ctrl, CoreInv, CipherTyped
<1>6. promised' = promised
  BY <1>3, <1>4 DEF AsconWrite, Promise
<1>7. good' = IF Op = "write" /\ Reg \in Inputs /\ selected = active /\ core_busy
              THEN [good EXCEPT ![active] = {}] ELSE good
  BY <1>3, <1>4 DEF AsconWrite, Promise
<1>8. bank' = [bank EXCEPT ![selected] = [r \in Inputs |-> IF Op = "write" /\ Reg = r THEN Written ELSE @[r]]]
  BY <1>3 DEF AsconWrite
<1>9. /\ bank' = [c \in Contexts |-> bank'[c]]
      /\ \A c \in Contexts : c # selected => bank'[c] = bank[c]
      /\ bank'[selected] = [r \in Inputs |-> IF Op = "write" /\ Reg = r THEN Written ELSE bank[selected][r]]
  BY <1>8 DEF CoreInv, CipherTyped
<1>10. /\ \A c \in Contexts : bank'[c] = [r \in Inputs |-> bank'[c][r]]
       /\ \A c \in Contexts : bank'[c] # bank[c] => Op = "write" /\ Reg \in Inputs /\ c = selected
  BY <1>9 DEF CoreInv, CipherTyped
<1>11. dmaRegs' = [r \in DOMAIN dmaRegs |-> IF Op = "write" /\ Reg = r THEN Written ELSE dmaRegs[r]]
  BY <1>3 DEF AsconWrite
<1>12. mem' = [a \in Areas |-> IF Op = "write" /\ Reg = a THEN Written ELSE mem[a]]
  BY <1>3 DEF AsconWrite
<1>13. selected' = IF Op = "write" /\ Reg = "CONTEXT_SEL" THEN Written ELSE selected
  BY <1>3 DEF AsconWrite
<1>14. UNCHANGED <<ctext, tag, landing>>
  BY <1>3 DEF AsconWrite
<1>15. DOMAIN dmaRegs = JobRegs
  BY DEF CoreInv, CipherTyped
<1> QED BY <1>2, <1>5, <1>6, <1>7, <1>9, <1>10, <1>11, <1>12, <1>13, <1>14, <1>15

\* A run of the DMA that nobody disturbed is waited for: the thread makes no
\* access but the last write of a main that gave up.
LEMMA JobIsWaitedFor ==
  ASSUME CoreInv, AsconAccess, dmaEn, core_busy, "result" \in good[active]
  PROVE  /\ scene = "main" /\ \E x : todo = <<W("RETCODE", x)>>
         /\ \A r \in JobRegs : dmaRegs[r] = Job[r]
<1>1. Running(active)
  BY DEF CoreInv, CipherTyped, RunsInv, ResultOf, RunsOn
<1>2. Thread
  BY DEF CoreInv, CipherTyped
<1>3. todo # <<DmaWait>>
  <2>1. SUFFICES ASSUME todo = <<DmaWait>> PROVE FALSE
    OBVIOUS
  <2>2. Head(todo) = DmaWait
    BY <2>1
  <2>3. Op = "until" /\ Head(todo)[3] = {"DMA_DONE", "DMA_ERR"}
    BY <1>2, <2>2 DEF Op, Current, DmaWait, Until
  <2>4. {"DMA_DONE", "DMA_ERR"} \cap AsconStatus # {}
    BY <1>2, <2>3, AccessOf
  <2> QED BY <1>1, <2>4 DEF Running, AsconStatus
<1>4. todo # <<>>
  BY <1>2, AccessOf
<1> QED BY <1>1, <1>3, <1>4 DEF Running, JobWaits, CoreInv, JobInv

\* What an access that does not write CTRL may write.
Harmless(a) ==
  a[1] = "write" =>
    \/ a[2] \in Inputs
    \/ a[2] = "CONTEXT_SEL" /\ a[3] \in Contexts
    \/ a[2] \in JobRegs /\ a[3] = Job[a[2]]
    \/ a[2] \in {"PTEXT_0", "PT_MULTI"} /\ a[3] \in {4, 5}
    \/ a[2] = "RETCODE"

\* An access that writes none of it keeps the invariant.
LEMMA PlainKeeps ==
  ASSUME CoreInv, scene' = scene, AsconAccess, ~Writes("CTRL"), Harmless(Head(todo))
  PROVE  CoreInv'
<1>1. /\ Thread /\ Thread' /\ todo' = Tail(todo) /\ Op = Head(todo)[1] /\ Reg = Head(todo)[2]
      /\ selected \in Contexts /\ active \in Contexts
  BY AccessOf DEF CoreInv, CipherTyped
<1>2. selected' \in Contexts
  BY <1>1, PlainAccess DEF Harmless, Inputs, JobRegs
<1>3. good' = [c \in Contexts |-> good'[c]] /\ \A c \in Contexts : good'[c] = good[c] \/ good'[c] = {}
  BY PlainAccess DEF CoreInv, CipherTyped
<1>4. ASSUME NEW c \in Contexts, "result" \in good'[c], RunsOn(c) PROVE bank'[c] = bank[c]
  <2>1. SUFFICES ASSUME bank'[c] # bank[c] PROVE FALSE
    OBVIOUS
  <2>2. Op = "write" /\ Reg \in Inputs /\ c = selected /\ c = active /\ core_busy
    BY <1>4, <2>1, PlainAccess DEF RunsOn
  <2>3. good'[c] = {}
    BY <2>2, PlainAccess DEF CoreInv, CipherTyped
  <2> QED BY <1>4, <2>3
<1>5. dmaBusy => dmaRegs' = dmaRegs
  <2>1. SUFFICES ASSUME dmaBusy PROVE dmaRegs' = dmaRegs
    OBVIOUS
  <2>2. \A r \in JobRegs : dmaRegs[r] = Job[r]
    BY <2>1 DEF CoreInv, JobInv
  <2>3. \A r \in JobRegs : dmaRegs'[r] = dmaRegs[r]
    BY <1>1, <2>2, PlainAccess DEF Harmless, Inputs, JobRegs
  <2> QED BY <2>3, PlainAccess DEF CoreInv, CipherTyped
<1>6. \A a \in {"g_stream", "PTEXT_0", "PT_MULTI", "guard"} : mem'[a] # Torn
  BY <1>1, PlainAccess, Layout DEF Harmless, Inputs, JobRegs, CoreInv, JobInv, Torn
<1>7. ASSUME dmaEn, core_busy, "result" \in good'[active]
      PROVE  /\ dmaRegs' = dmaRegs /\ mem'[At(dmaRegs["DMA_SRC"])] = mem[At(dmaRegs["DMA_SRC"])]
             /\ JobWaits'
  <2>1. "result" \in good[active]
    BY <1>1, <1>3, <1>7
  <2>2. PICK x : todo = <<W("RETCODE", x)>>
    BY <1>7, <2>1, JobIsWaitedFor
  <2>3. scene = "main" /\ \A r \in JobRegs : dmaRegs[r] = Job[r]
    BY <1>7, <2>1, JobIsWaitedFor
  <2>4. Op = "write" /\ Reg = "RETCODE" /\ todo' = <<>>
    BY <1>1, <2>2 DEF W
  <2>5. \A r \in JobRegs : dmaRegs'[r] = dmaRegs[r]
    BY <2>4, PlainAccess DEF JobRegs
  <2>6. dmaRegs' = dmaRegs
    BY <2>5, PlainAccess DEF CoreInv, CipherTyped
  <2>7. At(dmaRegs["DMA_SRC"]) = "PT_MULTI"
    BY <2>3, JobAreas DEF JobRegs
  <2>8. mem'["PT_MULTI"] = mem["PT_MULTI"]
    BY <2>4, PlainAccess, Layout
  <2> QED BY <2>3, <2>4, <2>6, <2>7, <2>8 DEF JobWaits
<1>8. dmaEn' \in BOOLEAN /\ dmaEn' = dmaEn
  BY PlainAccess DEF CoreInv, CipherTyped
<1> QED BY <1>1, <1>2, <1>3, <1>4, <1>5, <1>6, <1>7, <1>8, PlainAccess, CoreKept

\* A write to CTRL.
LEMMA CtrlAccess ==
  ASSUME CoreInv, AsconAccess, Op = "write", Reg = "CTRL"
  PROVE  /\ Thread /\ Thread' /\ Bits = Head(todo)[3] /\ Ctrl /\ Promise
         /\ UNCHANGED <<selected, bank, dmaRegs, ctext, tag, landing>>
         /\ \A a \in Areas : mem'[a] = mem[a]
<1>1. Thread /\ Thread' /\ Current = todo /\ UNCHANGED <<ctext, tag, landing>>
  BY AccessOf DEF CoreInv, CipherTyped
<1>2. AsconWrite /\ Writes("CTRL") /\ Written = Head(todo)[3]
  BY <1>1 DEF AsconAccess, Writes, Written
<1>3. Bits = Head(todo)[3] /\ Ctrl /\ Promise
  BY <1>2 DEF Bits, AsconWrite
<1>4. \A r \in Inputs \cup JobRegs \cup Areas \cup {"CONTEXT_SEL"} : ~(Op = "write" /\ Reg = r)
  BY Layout DEF Inputs, JobRegs
<1>5. selected' = selected
  BY <1>2, <1>4 DEF AsconWrite
<1>6. bank' = [bank EXCEPT ![selected] = [r \in Inputs |-> @[r]]]
  BY <1>2, <1>4 DEF AsconWrite
<1>7. bank' = bank
  BY <1>6 DEF CoreInv, CipherTyped
<1>8. dmaRegs' = dmaRegs
  <2>1. DOMAIN dmaRegs = JobRegs
    BY DEF CoreInv, CipherTyped
  <2>2. dmaRegs' = [r \in DOMAIN dmaRegs |-> dmaRegs[r]]
    BY <1>2, <1>4, <2>1 DEF AsconWrite
  <2> QED BY <2>1, <2>2 DEF CoreInv, CipherTyped
<1>9. \A a \in Areas : mem'[a] = mem[a]
  BY <1>2, <1>4 DEF AsconWrite
<1> QED BY <1>1, <1>3, <1>5, <1>7, <1>8, <1>9

\* The soft reset.
LEMMA ResetDoes ==
  ASSUME Ctrl, Promise, Reg = "CTRL", Writes("CTRL"), Resets, ~ByCpu, ~ByDma
  PROVE  /\ active' = 0 /\ core' = core /\ sticky' = {} /\ dmaBusy' = FALSE /\ wrFifo' = <<>>
         /\ dmaEn' \in BOOLEAN /\ promised' = promised
         /\ good' = [c \in Contexts |-> IF core_busy THEN {} ELSE good[c] \ {"verdict"}]
<1>1. active' = 0 /\ core' = core
  BY DEF Ctrl
<1>2. sticky' = {} /\ wrFifo' = <<>>
  BY DEF Ctrl
<1>3. dmaBusy' = FALSE
  BY DEF Ctrl
<1>4. dmaEn' \in BOOLEAN
  BY DEF Ctrl
<1>5. promised' = promised
  BY DEF Promise
<1>6. good' = [c \in Contexts |-> IF core_busy THEN {} ELSE good[c] \ {"verdict"}]
  BY DEF Promise, Inputs
<1> QED BY <1>1, <1>2, <1>3, <1>4, <1>5, <1>6

\* A start.
LEMMA StartDoes ==
  ASSUME Ctrl, Promise, Reg = "CTRL", Writes("CTRL"), ~Resets, ByCpu \/ ByDma
  PROVE  \E text, after :
         /\ text = IF ByDma THEN mem[At(dmaRegs["DMA_SRC"])] ELSE bank[selected]["PTEXT"]
         /\ after = IF AsconStatus = {} /\ wrFifo = <<>> /\ landing = <<>>
                    THEN {"result", "verdict", "memory"} ELSE {}
         /\ active' = selected /\ sticky' = sticky /\ wrFifo' = wrFifo /\ dmaEn' = ("DMA_EN" \in Bits)
         /\ dmaBusy' = (ByDma \/ dmaBusy)
         /\ core' = IF ~core_busy THEN [phase |-> "init", in |-> [r \in Inputs |-> Unread]] ELSE core
         /\ promised' = [promised EXCEPT ![selected] = [bank[selected] EXCEPT !["PTEXT"] = text]]
         /\ good' = [c \in Contexts |-> IF c = selected THEN after
                                        ELSE IF c = active /\ core_busy THEN {} ELSE good[c] \ {"verdict"}]
<1>1. active' = selected
  BY DEF Ctrl
<1>2. core' = IF ~core_busy THEN [phase |-> "init", in |-> [r \in Inputs |-> Unread]] ELSE core
  BY DEF Ctrl
<1>3. sticky' = sticky /\ wrFifo' = wrFifo
  BY DEF Ctrl
<1>4. dmaEn' = ("DMA_EN" \in Bits)
  BY DEF Ctrl
<1>5. dmaBusy' = (ByDma \/ dmaBusy)
  BY DEF Ctrl
<1>6. PICK text, after :
        /\ text = IF ByDma THEN mem[At(dmaRegs["DMA_SRC"])] ELSE bank[selected]["PTEXT"]
        /\ after = IF AsconStatus = {} /\ wrFifo = <<>> /\ landing = <<>>
                   THEN {"result", "verdict", "memory"} ELSE {}
  OBVIOUS
<1>7. promised' = [promised EXCEPT ![selected] = [bank[selected] EXCEPT !["PTEXT"] = text]]
  BY <1>6 DEF Promise
<1>8. good' = [c \in Contexts |-> IF c = selected THEN after
                                 ELSE IF c = active /\ core_busy THEN {} ELSE good[c] \ {"verdict"}]
  BY <1>6 DEF Promise, Inputs
<1> QED BY <1>1, <1>2, <1>3, <1>4, <1>5, <1>6, <1>7, <1>8

\* The soft reset keeps the invariant: it ends every promise to the core that runs.
LEMMA ResetKeeps ==
  ASSUME CoreInv, scene' = scene, AsconAccess, Op = "write", Reg = "CTRL", Head(todo)[3] = {"SOFT_RST"}
  PROVE  /\ CoreInv' /\ UNCHANGED core /\ active' = 0 /\ ~dmaBusy' /\ sticky' = {} /\ wrFifo' = <<>>
         /\ \A c \in Contexts : good'[c] \subseteq good[c] /\ (core_busy => good'[c] = {})
<1>1. Resets /\ ~ByCpu /\ ~ByDma /\ Writes("CTRL")
  BY CtrlAccess DEF Resets, ByCpu, ByDma, Writes
<1>2. /\ active' = 0 /\ core' = core /\ sticky' = {} /\ dmaBusy' = FALSE /\ wrFifo' = <<>>
      /\ dmaEn' \in BOOLEAN
  BY <1>1, CtrlAccess, ResetDoes
<1>3. promised' = promised /\ good' = [c \in Contexts |-> IF core_busy THEN {} ELSE good[c] \ {"verdict"}]
  BY <1>1, CtrlAccess, ResetDoes
<1>4. CipherTyped'
  BY <1>2, <1>3, CtrlAccess DEF CoreInv, CipherTyped, Contexts
<1>5. JobInv'
  BY <1>2, CtrlAccess, Layout DEF CoreInv, JobInv, Job
<1>6. ASSUME NEW c \in Contexts PROVE ResultOf(c)' /\ VerdictOf(c)'
  BY <1>2, <1>3, CtrlAccess DEF CoreInv, RunsInv, ResultOf, VerdictOf, RunsOn, core_busy, Result
<1> QED BY <1>2, <1>3, <1>4, <1>5, <1>6 DEF CoreInv, RunsInv

\* A start that the core or the DMA takes.
LEMMA StartKeeps ==
  ASSUME CoreInv, scene' = scene, AsconAccess, Op = "write", Reg = "CTRL", ByCpu \/ ByDma,
         ByDma => Head(todo)[3] = {"CORE_START", "DMA_EN"} /\ JobWaits' /\ \A r \in JobRegs : dmaRegs[r] = Job[r]
  PROVE  /\ CoreInv' /\ active' = selected /\ core_busy' /\ landing' = landing /\ sticky' = sticky
         /\ dmaBusy' = (ByDma \/ dmaBusy)
         /\ good'[selected] = IF AsconStatus = {} /\ wrFifo = <<>> /\ landing = <<>>
                              THEN {"result", "verdict", "memory"} ELSE {}
<1>1. ~Resets /\ Writes("CTRL") /\ ("DMA_EN" \in Bits <=> ByDma) /\ (ByCpu => ~core_busy) /\ (ByDma => ~dmaBusy)
  BY CtrlAccess DEF Resets, ByCpu, ByDma, Writes
<1>2. PICK clean : clean = (AsconStatus = {} /\ wrFifo = <<>> /\ landing = <<>>)
  OBVIOUS
<1>3. Ctrl /\ Promise
  BY CtrlAccess
<1>4. PICK text, after :
      /\ text = IF ByDma THEN mem[At(dmaRegs["DMA_SRC"])] ELSE bank[selected]["PTEXT"]
      /\ after = IF AsconStatus = {} /\ wrFifo = <<>> /\ landing = <<>>
                 THEN {"result", "verdict", "memory"} ELSE {}
      /\ active' = selected /\ sticky' = sticky /\ wrFifo' = wrFifo /\ dmaEn' = ("DMA_EN" \in Bits)
      /\ dmaBusy' = (ByDma \/ dmaBusy)
      /\ core' = IF ~core_busy THEN [phase |-> "init", in |-> [r \in Inputs |-> Unread]] ELSE core
      /\ promised' = [promised EXCEPT ![selected] = [bank[selected] EXCEPT !["PTEXT"] = text]]
      /\ good' = [c \in Contexts |-> IF c = selected THEN after
                                     ELSE IF c = active /\ core_busy THEN {} ELSE good[c] \ {"verdict"}]
  BY <1>1, <1>3, StartDoes
<1>5. core_busy'
  BY <1>4 DEF core_busy
<1>6. selected \in Contexts /\ selected' = selected
  BY CtrlAccess DEF CoreInv, CipherTyped
<1>7. /\ good'[selected] = IF clean THEN {"result", "verdict", "memory"} ELSE {}
      /\ promised' = [c \in Contexts |-> promised'[c]]
      /\ promised'[selected] = [bank[selected] EXCEPT !["PTEXT"] = text]
      /\ \A c \in Contexts : c # selected =>
           /\ promised'[c] = promised[c]
           /\ good'[c] = IF c = active /\ core_busy THEN {} ELSE good[c] \ {"verdict"}
  BY <1>2, <1>4, <1>6 DEF CoreInv, CipherTyped
<1>8. CipherTyped'
  BY <1>4, <1>6, <1>7, CtrlAccess DEF CoreInv, CipherTyped
<1>9. JobInv'
  <2>1. dmaBusy' => \A r \in JobRegs : dmaRegs[r] = Job[r]
    BY <1>4 DEF CoreInv, JobInv
  <2>2. Job' = Job /\ UNCHANGED <<dmaRegs, landing>>
    BY CtrlAccess DEF Job
  <2>3. \A a \in {"g_stream", "PTEXT_0", "PT_MULTI", "guard"} : mem'[a] # Torn
    BY CtrlAccess, Layout DEF CoreInv, JobInv
  <2> QED BY <2>1, <2>2, <2>3 DEF CoreInv, JobInv
<1>10. ASSUME clean PROVE Running(selected)'
  <2>1. ~core_busy /\ ~dmaBusy /\ sticky = {} /\ wrFifo = <<>> /\ landing = <<>>
    BY <1>2, <1>10 DEF AsconStatus
  <2>2. core'.phase = "init" /\ \A r \in Inputs : core'.in[r] = Unread
    BY <1>4, <2>1
  <2>3. ASSUME NEW r \in Inputs PROVE Input(r)' = promised'[selected][r]
    <3>1. core_context_sel' = selected
      BY <1>4, <1>5, <1>6 DEF core_context_sel
    <3>2. bank'[selected][r] = bank[selected][r] /\ promised'[selected][r] = IF r = "PTEXT" THEN text ELSE bank[selected][r]
      <4>1. bank[selected] = [q \in Inputs |-> bank[selected][q]]
        BY <1>6 DEF CoreInv, CipherTyped
      <4> QED BY <1>7, <4>1, CtrlAccess
    <3>3. ASSUME ByDma PROVE mem'[At(dmaRegs'["DMA_SRC"])] = mem[At(dmaRegs["DMA_SRC"])]
      <4>1. At(dmaRegs["DMA_SRC"]) \in Areas /\ dmaRegs' = dmaRegs
        BY <3>3, JobAreas, Layout, CtrlAccess DEF JobRegs
      <4> QED BY <4>1, CtrlAccess
    <3> QED BY <1>1, <1>2, <1>4, <3>1, <3>2, <3>3 DEF Input
  <2>4. TakesOurs(selected)'
    BY <1>6, <2>2, <2>3 DEF TakesOurs, Known
  <2>5. dmaBusy' = dmaEn' /\ (dmaEn' => JobWaits')
    BY <1>1, <1>4, <2>1 DEF CoreInv, CipherTyped
  <2> QED BY <1>4, <1>6, <2>1, <2>2, <2>4, <2>5, CtrlAccess DEF Running
<1>11. ASSUME NEW c \in Contexts PROVE ResultOf(c)' /\ VerdictOf(c)'
  <2>1. CASE c = selected
    BY <1>4, <1>5, <1>6, <1>7, <1>10, <2>1 DEF ResultOf, VerdictOf, RunsOn
  <2>2. CASE c # selected
    <3>1. ~RunsOn(c)' /\ "verdict" \notin good'[c]
      BY <1>4, <1>6, <1>7, <2>2 DEF RunsOn
    <3>2. ASSUME "result" \in good'[c] PROVE Result(c)'
      <4>1. "result" \in good[c] /\ ~RunsOn(c)
        BY <1>7, <2>2, <3>2 DEF RunsOn
      <4> QED BY <1>7, <2>2, <4>1, CtrlAccess DEF CoreInv, RunsInv, ResultOf, Result
    <3> QED BY <3>1, <3>2 DEF ResultOf, VerdictOf
  <2> QED BY <2>1, <2>2
<1>12. CoreInv'
  BY <1>8, <1>9, <1>11 DEF CoreInv, RunsInv
<1> QED BY <1>2, <1>4, <1>5, <1>7, <1>12, CtrlAccess

\* A start that is refused.
LEMMA RefusalKeeps ==
  ASSUME CoreInv, scene' = scene, AsconAccess, Op = "write", Reg = "CTRL", ~ByCpu, ~ByDma, ~Resets,
         Head(todo)[3] \in {{"CORE_START"}, {"CORE_START", "DMA_EN"}}
  PROVE  CoreInv' /\ UNCHANGED <<active, core, sticky, wrFifo, landing, dmaBusy, good>>
<1>1. /\ UNCHANGED <<active, core, sticky, wrFifo, dmaBusy>> /\ dmaEn' = ("DMA_EN" \in Bits)
  BY CtrlAccess DEF Ctrl, Writes, CoreInv, CipherTyped
<1>2. UNCHANGED <<promised, good>>
  BY CtrlAccess DEF Promise, Inputs
<1>3. ASSUME core_busy, "result" \in good'[active] PROVE ~dmaEn /\ dmaEn' = dmaEn
  <2>1. "result" \in good[active]
    BY <1>2, <1>3
  <2>2. ~dmaEn
    <3>1. SUFFICES ASSUME dmaEn PROVE FALSE
      OBVIOUS
    <3>2. PICK x : todo = <<W("RETCODE", x)>>
      BY <1>3, <2>1, <3>1, JobIsWaitedFor
    <3>3. Reg = "RETCODE"
      BY <3>2, CtrlAccess DEF Reg, Current, W
    <3> QED BY <3>3
  <2>3. ~dmaBusy
    BY <1>3, <2>1, <2>2 DEF CoreInv, CipherTyped, RunsInv, ResultOf, RunsOn, Running
  <2>4. Bits = {"CORE_START"}
    BY <2>3, CtrlAccess DEF ByDma
  <2> QED BY <1>1, <2>2, <2>4 DEF CoreInv, CipherTyped
<1>4. \A a \in {"g_stream", "PTEXT_0", "PT_MULTI", "guard"} : mem'[a] # Torn
  BY CtrlAccess, Layout DEF CoreInv, JobInv
<1>5. CoreInv'
  BY <1>1, <1>2, <1>3, <1>4, CtrlAccess, CoreKept DEF CoreInv, CipherTyped
<1> QED BY <1>1, <1>2, <1>5, CtrlAccess

\* A register read by a run that nobody disturbed is what it was started with.
LEMMA TakenIsOurs ==
  ASSUME NEW c \in Contexts, TakesOurs(c), NEW regs, NEW in, in = Taken(regs)
  PROVE  \A r \in Inputs : /\ in[r] \in {Unread, promised[c][r]}
                           /\ r \in regs \cup Known => in[r] = promised[c][r]
<1> SUFFICES ASSUME NEW r \in Inputs
             PROVE  /\ in[r] \in {Unread, promised[c][r]}
                    /\ r \in regs \cup Known => in[r] = promised[c][r]
  OBVIOUS
<1>1. /\ Input(r) = promised[c][r] /\ core.in[r] \in {Unread, promised[c][r]}
      /\ r \in Known => core.in[r] = promised[c][r]
  BY DEF TakesOurs
<1>2. in[r] = IF r \notin regs THEN core.in[r]
              ELSE IF core.in[r] \in {Unread, Input(r)} THEN Input(r) ELSE Torn
  BY DEF Taken
<1> QED BY <1>1, <1>2

\* The outputs are those of the inputs.
LEMMA SameInputs ==
  ASSUME NEW in, NEW of, \A r \in Inputs \ {"TAG_IN"} : in[r] = of[r]
  PROVE  CtextOf(in) = CtextOf(of) /\ TagOf(in) = TagOf(of)
<1>1. CtextOf(in) = CtextOf(of)
  BY DEF CtextOf
<1> QED BY <1>1 DEF TagOf

\* Of a step of the core.
LEMMA CoreGoes ==
  ASSUME CoreInv, scene' = scene, NEW from, from # "idle", NEW regs, NEW to, Goes(from, regs, to)
  PROVE  /\ core_busy /\ (core_busy' <=> to # "idle") /\ core_context_sel = active
         /\ UNCHANGED <<call, todo, seen, selected, active, bank, dmaEn, dmaBusy, dmaRegs, landing, mem,
                        polled, promised>>
         /\ CipherTyped' <=> (ctext' = [c \in Contexts |-> ctext'[c]] /\ good' = [c \in Contexts |-> good'[c]])
         /\ JobInv' /\ (JobWaits' <=> JobWaits)
         /\ core'.phase = to /\ core'.in = Taken(regs)
<1>1. /\ core.phase = from /\ core' = [phase |-> to, in |-> Taken(regs)]
      /\ UNCHANGED <<hart, selected, active, bank, dmaEn, dmaBusy, dmaRegs, landing, mem, polled, promised>>
  BY DEF Goes
<1>2. UNCHANGED <<call, todo, seen, isr>>
  BY <1>1 DEF hart, thread, handler
<1>3. core_busy /\ (core_busy' <=> to # "idle") /\ core_context_sel = active
  BY <1>1 DEF core_busy, core_context_sel
<1>4. CipherTyped' <=> (ctext' = [c \in Contexts |-> ctext'[c]] /\ good' = [c \in Contexts |-> good'[c]])
  BY <1>1, <1>2 DEF CoreInv, CipherTyped, Thread
<1>5. JobInv'
  BY <1>1 DEF CoreInv, JobInv, Job
<1>6. JobWaits' <=> JobWaits
  BY <1>2 DEF JobWaits
<1> QED BY <1>1, <1>2, <1>3, <1>4, <1>5, <1>6

\* A step that does not end the run: it goes on, if it had not been disturbed.
LEMMA RunGoesOnOurs ==
  ASSUME CoreInv, scene' = scene, NEW c \in Contexts, RunsOn(c), Running(c),
         NEW from, from # "idle", NEW regs, NEW to, to # "idle", Goes(from, regs, to),
         Known' \subseteq Known \cup regs, sticky' = {},
         to # "tag" => wrFifo' = <<>>,
         to = "tag" => wrFifo' = <<CtextOf(promised[c])>> /\ ctext'[c] = CtextOf(promised[c])
  PROVE  Running(c)'
<1>1. /\ core'.phase = to /\ core'.in = Taken(regs) /\ core_busy' /\ active = c /\ (JobWaits' <=> JobWaits)
      /\ UNCHANGED <<active, bank, dmaEn, dmaBusy, dmaRegs, landing, mem, promised>>
      /\ core_context_sel = active
  BY CoreGoes DEF RunsOn
<1>2. core_context_sel' = active
  BY <1>1 DEF core_context_sel
<1>3. \A r \in Inputs : Input(r)' = Input(r)
  BY <1>1, <1>2 DEF Input
<1>4. PICK in : in = Taken(regs)
  OBVIOUS
<1>5. TakesOurs(c)
  BY DEF Running
<1>6. \A r \in Inputs : /\ in[r] \in {Unread, promised[c][r]}
                        /\ r \in regs \cup Known => in[r] = promised[c][r]
  BY <1>4, <1>5, TakenIsOurs
<1>7. core'.in = in
  BY <1>1, <1>4
<1>8. TakesOurs(c)'
  BY <1>1, <1>3, <1>5, <1>6, <1>7 DEF TakesOurs
<1> QED BY <1>1, <1>8 DEF Running

\* The steps of the core.
LEMMA CoreReads ==
  ASSUME CoreInv, scene' = scene, CoreInitialises \/ CoreTakesAD
  PROVE  CoreInv'
<1>1. PICK from, regs, to :
        /\ Goes(from, regs, to) /\ UNCHANGED <<ctext, tag, sticky, wrFifo, good>>
        /\ \/ from = "init" /\ regs = {"MODE", "KEY", "NONCE"} /\ to = "ad"
           \/ from = "ad" /\ regs = {"KEY", "AD"} /\ to = "data"
  BY DEF CoreInitialises, CoreTakesAD
<1>2. /\ core_busy /\ core_busy' /\ UNCHANGED <<active, promised>> /\ core'.phase = to
      /\ CipherTyped' /\ JobInv'
  BY <1>1, CoreGoes DEF CoreInv, CipherTyped
<1>3. core.phase = from
  BY <1>1 DEF Goes
<1>4. Known' \subseteq Known \cup regs
  BY <1>1, <1>2, <1>3 DEF Known
<1>5. ASSUME NEW c \in Contexts PROVE ResultOf(c)'
  <2>1. ASSUME "result" \in good[c], RunsOn(c) PROVE Running(c)'
    <3>1. Running(c)
      BY <2>1 DEF CoreInv, RunsInv, ResultOf
    <3>2. sticky' = {} /\ wrFifo' = <<>>
      BY <1>1, <1>3, <3>1 DEF Running
    <3> QED BY <1>1, <1>4, <2>1, <3>1, <3>2, RunGoesOnOurs
  <2>2. ASSUME "result" \in good[c], ~RunsOn(c) PROVE Result(c)'
    BY <1>1, <1>2, <2>2 DEF CoreInv, RunsInv, ResultOf, Result
  <2>3. RunsOn(c)' <=> RunsOn(c)
    BY <1>2 DEF RunsOn
  <2> QED BY <1>1, <2>1, <2>2, <2>3 DEF ResultOf
<1>6. ASSUME NEW c \in Contexts PROVE VerdictOf(c)'
  BY <1>1, <1>2 DEF CoreInv, RunsInv, VerdictOf
<1> QED BY <1>2, <1>5, <1>6 DEF CoreInv, RunsInv

\* A text and its tag find room in the FIFO.
LEMMA TextPushed ==
  ASSUME NEW x
  PROVE  /\ wrFifo = <<>> => Overflow = {} /\ Pushed(x) = <<x>>
         /\ \A y : wrFifo = <<y>> => Overflow = {} /\ Pushed(x) = <<y, x>>
<1>1. WrDepth # 0 /\ WrDepth # 1
  BY DepthConstant
<1>2. ASSUME wrFifo = <<>> PROVE Overflow = {} /\ Pushed(x) = <<x>>
  <2>1. Len(wrFifo) = 0 /\ Append(wrFifo, x) = <<x>>
    BY <1>2
  <2> QED BY <1>1, <2>1 DEF Overflow, Pushed
<1>3. ASSUME NEW y, wrFifo = <<y>> PROVE Overflow = {} /\ Pushed(x) = <<y, x>>
  <2>1. Len(wrFifo) = 1
    BY <1>3
  <2>2. Append(wrFifo, x) = <<y, x>>
    BY <1>3, Appended1
  <2> QED BY <1>1, <2>1, <2>2 DEF Overflow, Pushed
<1> QED BY <1>2, <1>3

\* The text: the run has read all that it is made of.
LEMMA TextKeeps ==
  ASSUME CoreInv, scene' = scene, CoreTakesText
  PROVE  CoreInv'
<1>1. PICK x : x = CtextOf(core'.in)
  OBVIOUS
<1>2. PICK from, regs, to : from = "data" /\ regs = {"MODE", "PTEXT"} /\ to = "tag"
  OBVIOUS
<1>3. /\ Goes(from, regs, to) /\ ctext' = [ctext EXCEPT ![core_context_sel] = x]
      /\ wrFifo' = Pushed(x) /\ sticky' = sticky \cup Overflow /\ UNCHANGED <<tag, good>>
  BY <1>1, <1>2 DEF CoreTakesText
<1>4. /\ core_busy /\ core_busy' /\ UNCHANGED <<active, promised>> /\ core'.phase = "tag"
      /\ core'.in = Taken(regs) /\ core_context_sel = active /\ JobInv'
  <2>1. from # "idle" /\ to # "idle" /\ Goes(from, regs, to)
    BY <1>2, <1>3
  <2>2. core_busy /\ core_busy'
    BY <2>1, CoreGoes
  <2>3. UNCHANGED <<active, promised>>
    BY <2>1, CoreGoes
  <2>4. core'.phase = to /\ core'.in = Taken(regs)
    BY <2>1, CoreGoes
  <2>5. core_context_sel = active /\ JobInv'
    BY <2>1, CoreGoes
  <2> QED BY <1>2, <2>2, <2>3, <2>4, <2>5
<1>5. /\ ctext' = [c \in Contexts |-> ctext'[c]] /\ ctext'[active] = x
      /\ \A c \in Contexts : c # active => ctext'[c] = ctext[c]
  BY <1>3, <1>4 DEF CoreInv, CipherTyped
<1>6. CipherTyped'
  BY <1>2, <1>3, <1>5, CoreGoes DEF CoreInv, CipherTyped
<1>7. core.phase = "data"
  BY <1>2, <1>3 DEF Goes
<1>8. Known' \subseteq Known \cup regs /\ Inputs \ {"TAG_IN"} \subseteq Known \cup regs
  BY <1>2, <1>4, <1>7 DEF Known, Inputs
<1>9. ASSUME NEW c \in Contexts PROVE ResultOf(c)'
  <2>1. ASSUME "result" \in good[c], RunsOn(c) PROVE Running(c)'
    <3>1. Running(c)
      BY <2>1 DEF CoreInv, RunsInv, ResultOf
    <3>2. wrFifo = <<>> /\ sticky = {} /\ TakesOurs(c)
      BY <1>7, <3>1 DEF Running
    <3>3. wrFifo' = <<x>> /\ sticky' = {}
      BY <1>3, <3>2, TextPushed
    <3>4. PICK in : in = Taken(regs)
      OBVIOUS
    <3>5. \A r \in Inputs \ {"TAG_IN"} : in[r] = promised[c][r]
      BY <1>8, <3>2, <3>4, TakenIsOurs
    <3>6. x = CtextOf(promised[c])
      BY <1>1, <1>4, <3>4, <3>5, SameInputs
    <3>7. ctext'[c] = CtextOf(promised[c])
      BY <1>5, <2>1, <3>6 DEF RunsOn
    <3> QED BY <1>2, <1>3, <1>8, <2>1, <3>1, <3>3, <3>6, <3>7, RunGoesOnOurs
  <2>2. ASSUME "result" \in good[c], ~RunsOn(c) PROVE Result(c)'
    BY <1>3, <1>4, <1>5, <2>2 DEF CoreInv, RunsInv, ResultOf, Result, RunsOn
  <2>3. RunsOn(c)' <=> RunsOn(c)
    BY <1>4 DEF RunsOn
  <2> QED BY <1>3, <2>1, <2>2, <2>3 DEF ResultOf
<1>10. ASSUME NEW c \in Contexts PROVE VerdictOf(c)'
  BY <1>3, <1>4 DEF CoreInv, RunsInv, VerdictOf
<1> QED BY <1>4, <1>6, <1>9, <1>10 DEF CoreInv, RunsInv

\* The end of the run: its tag and its verdict.
LEMMA EndKeeps ==
  ASSUME CoreInv, scene' = scene, CoreEnds
  PROVE  /\ CoreInv' /\ core_busy /\ ~core_busy'
         /\ \A c \in Contexts : good'[c] \subseteq good[c]
         /\ RunsOn(0) /\ "result" \in good[0] => sticky = {} /\ "DMA_ERR" \notin sticky' /\ "DMA_DONE" \notin sticky'
                                                 /\ wrFifo' = <<CtextOf(promised[0]), TagOf(promised[0])>>
<1>1. PICK from, regs, to : from = "tag" /\ regs = {"MODE", "KEY", "TAG_IN"} /\ to = "idle"
  OBVIOUS
<1>2. PICK in : in = core'.in
  OBVIOUS
<1>3. PICK last : last = IF dmaBusy THEN active ELSE selected
  OBVIOUS
<1>4. PICK wrong \in BOOLEAN : wrong <=> bank[last]["MODE"] = Dec /\ ~Matches(in)
  OBVIOUS
<1>5. /\ Goes(from, regs, to) /\ ctext' = ctext
      /\ tag' = [c \in Contexts |-> IF c \in {core_context_sel, last} THEN TagOf(in) ELSE tag[c]]
      /\ wrFifo' = Pushed(TagOf(in))
      /\ sticky' = sticky \cup {"CORE_DONE"} \cup (IF wrong THEN {"TAG_MISMATCH"} ELSE {}) \cup Overflow
      /\ good' = [c \in Contexts |-> IF last = active THEN good[c]
                                     ELSE IF c = active THEN good[c] \ {"verdict"} ELSE {}]
  BY <1>1, <1>2, <1>3, <1>4 DEF CoreEnds
<1>6. from # "idle"
  BY <1>1
<1>7. core_busy /\ ~core_busy' /\ core_context_sel = active
  BY <1>1, <1>5, <1>6, CoreGoes
<1>8. UNCHANGED <<active, promised>> /\ JobInv'
  BY <1>5, <1>6, CoreGoes
<1>9. in = Taken(regs) /\ core.phase = from
  <2>1. core'.in = Taken(regs)
    BY <1>5, <1>6, CoreGoes
  <2> QED BY <1>2, <1>5, <2>1 DEF Goes
<1>10. CipherTyped'
  BY <1>5, <1>6, CoreGoes DEF CoreInv, CipherTyped
<1>11. \A c \in Contexts : good'[c] \subseteq good[c]
  BY <1>5
<1>12. ASSUME NEW c \in Contexts, RunsOn(c), "result" \in good[c]
       PROVE  /\ TagOf(in) = TagOf(promised[c]) /\ ctext'[c] = CtextOf(promised[c])
              /\ sticky = {} /\ Overflow = {}
              /\ wrFifo' = <<CtextOf(promised[c]), TagOf(promised[c])>>
              /\ bank[c]["MODE"] = promised[c]["MODE"] /\ (Matches(in) <=> Matches(promised[c]))
  <2>1. Running(c) /\ core.phase = "tag" /\ active = c
    BY <1>1, <1>9, <1>12 DEF CoreInv, RunsInv, ResultOf, RunsOn
  <2>2. /\ sticky = {} /\ wrFifo = <<CtextOf(promised[c])>> /\ ctext[c] = CtextOf(promised[c])
        /\ TakesOurs(c)
    BY <2>1 DEF Running
  <2>3. Inputs \subseteq Known \cup regs
    BY <1>1, <2>1 DEF Known, Inputs
  <2>4. \A r \in Inputs : in[r] = promised[c][r]
    BY <1>9, <2>2, <2>3, TakenIsOurs
  <2>5. TagOf(in) = TagOf(promised[c])
    BY <2>4, SameInputs
  <2>6. Matches(in) <=> Matches(promised[c])
    BY <2>4 DEF Matches, Inputs
  <2>7. bank[c]["MODE"] = promised[c]["MODE"]
    <3>1. Input("MODE") = bank[c]["MODE"]
      BY <1>7, <2>1 DEF Input
    <3> QED BY <2>2, <3>1 DEF TakesOurs, Inputs
  <2> QED BY <1>5, <2>2, <2>5, <2>6, <2>7, TextPushed
<1>13. ASSUME NEW c \in Contexts, "result" \in good'[c] PROVE Result(c)'
  <2>1. CASE c = active
    <3>1. "result" \in good[c] /\ RunsOn(c)
      BY <1>7, <1>11, <1>13, <2>1 DEF RunsOn
    <3>2. tag'[c] = TagOf(in)
      BY <1>5, <1>7, <2>1
    <3> QED BY <1>8, <1>12, <3>1, <3>2 DEF Result
  <2>2. CASE c # active
    <3>1. last = active /\ "result" \in good[c] /\ tag'[c] = tag[c]
      BY <1>5, <1>7, <1>13, <2>2
    <3> QED BY <1>5, <1>8, <2>2, <3>1 DEF CoreInv, RunsInv, ResultOf, RunsOn, Result
  <2> QED BY <2>1, <2>2
<1>14. ASSUME NEW c \in Contexts, "verdict" \in good'[c]
       PROVE  "result" \in good'[c] /\ ("TAG_MISMATCH" \in sticky' <=> Wrong(c)')
  <2>1. "verdict" \in good[c]
    BY <1>11, <1>14
  <2>2. "result" \in good[c] /\ active = c
    BY <1>7, <2>1 DEF CoreInv, RunsInv, VerdictOf
  <2>3. last = c
    BY <1>5, <1>14, <2>2
  <2>4. wrong <=> Wrong(c)
    BY <1>4, <1>7, <1>12, <2>2, <2>3 DEF RunsOn, Wrong
  <2>5. sticky = {} /\ Overflow = {}
    BY <1>7, <1>12, <2>2 DEF RunsOn
  <2>6. "TAG_MISMATCH" \in sticky' <=> wrong
    BY <1>4, <1>5, <2>5
  <2> QED BY <1>5, <1>8, <2>2, <2>3, <2>4, <2>6 DEF Wrong
<1>15. CoreInv'
  BY <1>7, <1>8, <1>10, <1>13, <1>14 DEF CoreInv, RunsInv, ResultOf, VerdictOf, RunsOn
<1>16. ASSUME RunsOn(0), "result" \in good[0]
       PROVE  sticky = {} /\ "DMA_ERR" \notin sticky' /\ "DMA_DONE" \notin sticky'
              /\ wrFifo' = <<CtextOf(promised[0]), TagOf(promised[0])>>
  <2>1. 0 \in Contexts
    BY DEF Contexts
  <2>2. sticky = {} /\ Overflow = {} /\ wrFifo' = <<CtextOf(promised[0]), TagOf(promised[0])>>
    BY <1>12, <1>16, <2>1
  <2> QED BY <1>4, <1>5, <2>2
<1> QED BY <1>7, <1>11, <1>15, <1>16

\* The DMA.
LEMMA DoneKeeps ==
  ASSUME CoreInv, scene' = scene, DmaDone
  PROVE  CoreInv'
<1>1. /\ dmaBusy /\ Len(wrFifo) >= 2 /\ dmaBusy' = FALSE /\ sticky' = sticky \cup {"DMA_DONE"}
      /\ UNCHANGED <<hart, selected, active, bank, ctext, tag, core, dmaEn, dmaRegs, mem, promised, good>>
  BY DEF DmaDone
<1>2. landing' # <<>> => landing'[2] = dmaRegs["DMA_DST"] /\ landing'[3] = dmaRegs["DMA_LEN"] + 16
  <2>1. PICK x, y, z : landing' = <<x, y, z>> /\ y = dmaRegs["DMA_DST"] /\ z = dmaRegs["DMA_LEN"] + 16
    BY DEF DmaDone
  <2> QED BY <2>1
<1>3. CipherTyped'
  BY <1>1 DEF CoreInv, CipherTyped, hart, handler, Thread
<1>4. JobInv'
  BY <1>1, <1>2 DEF CoreInv, JobInv, Job, JobRegs
<1>5. ASSUME NEW c \in Contexts PROVE ResultOf(c)' /\ VerdictOf(c)'
  <2>1. ~("result" \in good[c] /\ RunsOn(c))
    <3>1. SUFFICES ASSUME "result" \in good[c], RunsOn(c) PROVE FALSE
      OBVIOUS
    <3>2. Running(c)
      BY <3>1 DEF CoreInv, RunsInv, ResultOf
    <3>3. wrFifo = <<>> \/ \E x : wrFifo = <<x>>
      BY <3>2 DEF Running
    <3>4. Len(wrFifo) = 0 \/ Len(wrFifo) = 1
      BY <3>3
    <3>5. Len(wrFifo) >= 2
      BY <1>1
    <3>6. PICK n : n = Len(wrFifo)
      OBVIOUS
    <3>7. n >= 2 /\ (n = 0 \/ n = 1)
      BY <3>4, <3>5, <3>6
    <3> QED BY <3>7
  <2> QED BY <1>1, <2>1 DEF CoreInv, RunsInv, ResultOf, VerdictOf, RunsOn, core_busy, Result, Wrong
<1> QED BY <1>3, <1>4, <1>5 DEF CoreInv, RunsInv

\* A write lands in the area of its job.
LEMMA LandsKeeps ==
  ASSUME CoreInv, scene' = scene, DmaLands
  PROVE  /\ CoreInv' /\ mem'["RETCODE"] = mem["RETCODE"]
         /\ scene = "main" => mem'["CT_MULTI"] = landing[1]
<1>1. PICK struck : struck = Hit(landing[2], landing[3])
  OBVIOUS
<1>2. /\ landing # <<>> /\ landing' = <<>>
      /\ mem' = [a \in Areas |-> CASE a \notin struck -> mem[a]
                                   [] a \in struck /\ Base(a) = landing[2] -> landing[1]
                                   [] OTHER -> Torn]
      /\ UNCHANGED <<hart, selected, active, bank, ctext, tag, core, sticky, dmaEn, dmaBusy, dmaRegs, promised, good>>
  BY <1>1 DEF DmaLands, asconCore
<1>3. landing[2] = Job["DMA_DST"] /\ landing[3] = Job["DMA_LEN"] + 16
  BY <1>2 DEF CoreInv, JobInv
<1>4. /\ \A a \in {"g_stream", "PTEXT_0", "RETCODE", "PT_MULTI", "guard"} : a \notin struck
      /\ scene = "main" => "CT_MULTI" \in struck /\ Base("CT_MULTI") = landing[2]
  BY <1>1, <1>3, JobAreas
<1>5. /\ \A a \in {"g_stream", "PTEXT_0", "RETCODE", "PT_MULTI", "guard"} : mem'[a] = mem[a]
      /\ scene = "main" => mem'["CT_MULTI"] = landing[1]
  BY <1>2, <1>4, Layout
<1>6. CipherTyped'
  BY <1>2 DEF CoreInv, CipherTyped, hart, handler, Thread
<1>7. JobInv'
  BY <1>2, <1>5 DEF CoreInv, JobInv, Job
<1>8. ASSUME NEW c \in Contexts PROVE ResultOf(c)' /\ VerdictOf(c)'
  <2>1. ~("result" \in good[c] /\ RunsOn(c))
    BY <1>2 DEF CoreInv, RunsInv, ResultOf, Running
  <2> QED BY <1>2, <2>1 DEF CoreInv, RunsInv, ResultOf, VerdictOf, RunsOn, core_busy, Result, Wrong
<1> QED BY <1>5, <1>6, <1>7, <1>8 DEF CoreInv, RunsInv

\* An error ends the promise to the run it hits.
LEMMA FailureKeeps ==
  ASSUME CoreInv, scene' = scene, DmaFails
  PROVE  /\ CoreInv' /\ sticky' = sticky \cup {"DMA_ERR"}
         /\ \A c \in Contexts : good'[c] \subseteq good[c]
         /\ landing # <<>> => good'[active] = {}
<1>1. /\ (dmaBusy \/ landing # <<>>) /\ sticky' = sticky \cup {"DMA_ERR"} /\ landing' = <<>>
      /\ good' = [good EXCEPT ![active] = IF landing = <<>> THEN @ \ {"result", "verdict"} ELSE {}]
      /\ UNCHANGED <<hart, selected, active, bank, ctext, tag, core, dmaEn, dmaBusy, dmaRegs, mem, promised>>
  BY DEF DmaFails
<1>2. sticky' = sticky \cup {"DMA_ERR"} /\ landing' = <<>>
  BY DEF DmaFails
<1>3. /\ good' = [c \in Contexts |-> good'[c]]
      /\ good'[active] = IF landing = <<>> THEN good[active] \ {"result", "verdict"} ELSE {}
      /\ \A c \in Contexts : c # active => good'[c] = good[c]
  BY <1>1 DEF CoreInv, CipherTyped
<1>4. CipherTyped'
  BY <1>1, <1>3 DEF CoreInv, CipherTyped, hart, handler, Thread
<1>5. JobInv'
  BY <1>1, <1>2 DEF CoreInv, JobInv, Job
<1>6. ASSUME NEW c \in Contexts PROVE ResultOf(c)' /\ VerdictOf(c)'
  <2>1. CASE c = active
    <3>1. "result" \notin good'[c] /\ "verdict" \notin good'[c]
      BY <1>3, <2>1
    <3> QED BY <3>1 DEF ResultOf, VerdictOf
  <2>2. CASE c # active
    <3>1. ~RunsOn(c) /\ ~RunsOn(c)'
      BY <1>1, <2>2 DEF RunsOn
    <3>2. good'[c] = good[c]
      BY <1>3, <2>2
    <3> QED BY <1>1, <1>2, <3>1, <3>2 DEF CoreInv, RunsInv, ResultOf, VerdictOf, core_busy, Result, Wrong
  <2> QED BY <2>1, <2>2
<1> QED BY <1>2, <1>3, <1>4, <1>5, <1>6 DEF CoreInv, RunsInv

\* What the accesses are that prepare and start runs.
LEMMA StartsAre ==
  ASSUME NEW a, MayStart(a)
  PROVE  /\ a[1] \in {"write", "until"} /\ a[2] # "RETCODE"
         /\ a[1] = "write" /\ a[2] # "CTRL" => Harmless(a)
         /\ a[1] = "write" /\ a[2] = "CTRL" => /\ a[3] \in {{"SOFT_RST"}, {"CORE_START"}, {"CORE_START", "DMA_EN"}}
                                               /\ a[3] = {"CORE_START", "DMA_EN"} => a = DmaStart
                                               /\ scene # "ascon" => a[3] # {"CORE_START"}
         /\ a[1] = "write" /\ a[2] \in JobRegs => a[3] = Job[a[2]]
         /\ a[1] = "write" /\ a[2] = "CONTEXT_SEL" => scene = "ascon"
         /\ a[1] = "until" => a = DmaWait
         /\ a = DmaStart => a[1] = "write" /\ a[2] = "CTRL" /\ a[3] = {"CORE_START", "DMA_EN"}
<1>1. CASE a[1] = "write" /\ a[2] \in Inputs
  BY <1>1 DEF Inputs, JobRegs, Harmless, DmaStart, W
<1>2. CASE scene = "ascon" /\ \E c \in Contexts : a = W("CONTEXT_SEL", c)
  <2>1. PICK c \in Contexts : a = W("CONTEXT_SEL", c)
    BY <1>2
  <2>2. a[1] = "write" /\ a[2] = "CONTEXT_SEL" /\ a[3] = c
    BY <2>1 DEF W
  <2>3. a # DmaStart
    BY <2>2 DEF DmaStart, W
  <2> QED BY <1>2, <2>2, <2>3 DEF JobRegs, Harmless
<1>3. CASE \E r \in JobRegs : a = W(r, Job[r])
  <2>1. PICK r \in JobRegs : a = W(r, Job[r])
    BY <1>3
  <2>2. a[1] = "write" /\ a[2] = r /\ a[3] = Job[r]
    BY <2>1 DEF W
  <2>3. a # DmaStart
    BY <2>2 DEF DmaStart, W, JobRegs
  <2> QED BY <2>2, <2>3 DEF JobRegs, Harmless
<1>4. CASE a \in {W("PTEXT_0", 4), W("PT_MULTI", 5)}
  BY <1>4 DEF W, JobRegs, Harmless, DmaStart
<1>5. CASE a \in {W("CTRL", {"SOFT_RST"}), W("CTRL", {"CORE_START"}), DmaStart}
  <2>1. "SOFT_RST" # "CORE_START" /\ "DMA_EN" # "CORE_START"
    OBVIOUS
  <2>2. /\ {"CORE_START", "DMA_EN"} # {"SOFT_RST"} /\ {"CORE_START", "DMA_EN"} # {"CORE_START"}
        /\ {"CORE_START"} # {"SOFT_RST"}
    BY <2>1
  <2>3. CASE a = W("CTRL", {"SOFT_RST"})
    <3>1. a[1] = "write" /\ a[2] = "CTRL" /\ a[3] = {"SOFT_RST"}
      BY <2>3 DEF W
    <3>2. a # DmaStart
      BY <2>2, <3>1 DEF DmaStart, W
    <3> QED BY <2>2, <3>1, <3>2 DEF JobRegs
  <2>4. CASE a = W("CTRL", {"CORE_START"})
    <3>1. a[1] = "write" /\ a[2] = "CTRL" /\ a[3] = {"CORE_START"}
      BY <2>4 DEF W
    <3>2. a # DmaStart
      BY <2>2, <3>1 DEF DmaStart, W
    <3>3. scene = "ascon"
      <4>1. a # W("CTRL", {"SOFT_RST"}) /\ a # DmaWait
        BY <2>2, <3>1 DEF W, DmaWait, Until
      <4> QED BY <3>1, <3>2, <4>1 DEF MayStart, Prepares, Inputs, JobRegs, W
    <3> QED BY <2>2, <3>1, <3>2, <3>3 DEF JobRegs
  <2>5. CASE a = DmaStart
    <3>1. a[1] = "write" /\ a[2] = "CTRL" /\ a[3] = {"CORE_START", "DMA_EN"}
      BY <2>5 DEF DmaStart, W
    <3> QED BY <2>2, <2>5, <3>1 DEF JobRegs
  <2> QED BY <1>5, <2>3, <2>4, <2>5
<1>6. CASE a = DmaWait
  <2>1. a[1] = "until" /\ a[2] = "STATUS"
    BY <1>6 DEF DmaWait, Until
  <2>2. a # DmaStart
    BY <2>1 DEF DmaStart, W
  <2> QED BY <1>6, <2>1, <2>2
<1> QED BY <1>1, <1>2, <1>3, <1>4, <1>5, <1>6 DEF MayStart, Prepares

\* What is left after an access of it.
LEMMA RestStarts ==
  ASSUME NEW t, StartsRuns(t), t # <<>>, scene' = scene, NEW u, u = Tail(t),
         \A r \in JobRegs : dmaRegs'[r] = IF Head(t)[1] = "write" /\ Head(t)[2] = r THEN Head(t)[3] ELSE dmaRegs[r]
  PROVE  /\ MayStart(Head(t)) /\ StartsRuns(u)'
         /\ Head(t) = DmaStart => u = <<DmaWait>> /\ \A r \in JobRegs : dmaRegs[r] = Job[r]
         /\ \A i \in 2 .. Len(t) : i - 1 \in 1 .. Len(u) /\ u[i - 1] = t[i]
<1>1. PICK S : t \in Seq(S)
  BY DEF StartsRuns, IsSequence
<1>2. /\ Len(t) \in Nat /\ Len(t) >= 1 /\ Head(t) = t[1] /\ u \in Seq(S)
      /\ Len(u) = Len(t) - 1 /\ \A i \in 1 .. Len(u) : u[i] = t[i + 1]
  BY <1>1, HeadTailProperties
<1>3. \A i \in 1 .. Len(t) :
        /\ MayStart(t[i])
        /\ t[i] = DmaStart => /\ Len(t) = i + 1 /\ t[i + 1] = DmaWait
                              /\ \A r \in JobRegs : IsSet(t, i, r)
  BY DEF StartsRuns
<1>4. PICK a : a = Head(t)
  OBVIOUS
<1>5. MayStart(a) /\ a = t[1]
  <2>1. PICK k : k = 1
    OBVIOUS
  <2>2. k \in 1 .. Len(t)
    BY <1>2, <2>1
  <2>3. MayStart(t[k])
    BY <1>3, <2>2
  <2> QED BY <1>2, <1>4, <2>1, <2>3
<1>6. Job' = Job
  BY DEF Job
<1>7. \A r \in JobRegs : dmaRegs[r] = Job[r] \/ a = W(r, Job[r]) => dmaRegs'[r] = Job[r]
  BY <1>4, <1>5, StartsAre DEF W
<1>8. ASSUME NEW i \in 1 .. Len(u)
      PROVE  /\ MayStart(u[i])'
             /\ u[i] = DmaStart => /\ Len(u) = i + 1 /\ u[i + 1] = DmaWait
                                   /\ \A r \in JobRegs : IsSet(u, i, r)'
  <2>1. i + 1 \in 1 .. Len(t) /\ u[i] = t[i + 1]
    BY <1>2
  <2>2. MayStart(u[i])
    BY <1>3, <2>1
  <2>3. MayStart(u[i])'
    BY <1>6, <2>2 DEF MayStart, Prepares
  <2>4. ASSUME u[i] = DmaStart
        PROVE  /\ Len(u) = i + 1 /\ u[i + 1] = DmaWait
               /\ \A r \in JobRegs : IsSet(u, i, r)'
    <3>1. PICK k : k = i + 1 /\ k \in 1 .. Len(t)
      BY <2>1
    <3>2. t[k] = DmaStart
      BY <2>1, <2>4, <3>1
    <3>3. Len(t) = k + 1 /\ t[k + 1] = DmaWait /\ \A r \in JobRegs : IsSet(t, k, r)
      BY <1>3, <3>1, <3>2
    <3>4. Len(u) = i + 1 /\ u[i + 1] = DmaWait
      BY <1>2, <3>1, <3>3
    <3>5. ASSUME NEW r \in JobRegs PROVE IsSet(u, i, r)'
      <4>1. CASE dmaRegs[r] = Job[r]
        BY <1>6, <1>7, <4>1 DEF IsSet
      <4>2. CASE \E j \in 1 .. k - 1 : t[j] = W(r, Job[r])
        <5>1. PICK j \in 1 .. k - 1 : t[j] = W(r, Job[r])
          BY <4>2
        <5>2. CASE j = 1
          BY <1>5, <1>6, <1>7, <5>1, <5>2 DEF IsSet
        <5>3. CASE j # 1
          <6>1. PICK m : m = j - 1
            OBVIOUS
          <6>2. m \in 1 .. i - 1 /\ m \in 1 .. Len(u) /\ m + 1 = j
            BY <1>2, <3>1, <5>1, <5>3, <6>1
          <6>3. u[m] = W(r, Job[r])
            BY <1>2, <5>1, <6>2
          <6> QED BY <1>6, <6>2, <6>3 DEF IsSet
        <5> QED BY <5>2, <5>3
      <4> QED BY <3>3, <4>1, <4>2 DEF IsSet
    <3> QED BY <3>4, <3>5
  <2> QED BY <2>3, <2>4
<1>9. StartsRuns(u)'
  BY <1>2, <1>8 DEF StartsRuns, IsSequence
<1>10. ASSUME a = DmaStart PROVE u = <<DmaWait>> /\ \A r \in JobRegs : dmaRegs[r] = Job[r]
  <2>1. PICK k : k = 1 /\ k \in 1 .. Len(t)
    BY <1>2
  <2>2. t[k] = DmaStart
    BY <1>5, <1>10, <2>1
  <2>3. Len(t) = k + 1 /\ t[k + 1] = DmaWait /\ \A r \in JobRegs : IsSet(t, k, r)
    BY <1>3, <2>1, <2>2
  <2>4. Len(u) = 1 /\ u[1] = DmaWait
    <3>1. Len(u) = k /\ k = 1
      BY <1>2, <2>1, <2>3
    <3>2. k \in 1 .. Len(u)
      BY <3>1
    <3>3. u[k] = t[k + 1]
      BY <1>2, <3>2
    <3> QED BY <2>3, <3>1, <3>3
  <2>5. u = <<DmaWait>>
    <3>1. PICK b : b = DmaWait
      OBVIOUS
    <3>2. PICK v : v = <<b>>
      OBVIOUS
    <3>3. PICK U : U = S \cup {b}
      OBVIOUS
    <3>4. u \in Seq(U) /\ v \in Seq(U)
      <4>1. S \subseteq U /\ b \in U
        BY <3>3
      <4>2. u \in Seq(U)
        BY <1>2, <4>1, SeqMonotonic
      <4> QED BY <3>2, <4>1, <4>2
    <3>5. Len(v) = Len(u) /\ v[1] = u[1]
      BY <2>4, <3>1, <3>2
    <3>6. \A j \in 1 .. Len(u) : u[j] = v[j]
      BY <2>4, <3>5
    <3>7. u = v
      BY <3>4, <3>5, <3>6, SeqEqual
    <3> QED BY <3>1, <3>2, <3>7
  <2>6. \A r \in JobRegs : ~\E j \in 1 .. k - 1 : t[j] = W(r, Job[r])
    BY <2>1
  <2> QED BY <2>3, <2>5, <2>6 DEF IsSet
<1>11. \A i \in 2 .. Len(t) : i - 1 \in 1 .. Len(u) /\ u[i - 1] = t[i]
  BY <1>2
<1> QED BY <1>4, <1>5, <1>9, <1>10, <1>11

\* What is left of a function stays what it is while nobody writes the registers of the DMA.
LEMMA StartsStay ==
  ASSUME NEW t, StartsRuns(t), UNCHANGED <<scene, dmaRegs>>
  PROVE  StartsRuns(t)'
<1>1. Job' = Job
  BY DEF Job
<1> QED BY <1>1 DEF StartsRuns, IsSequence, MayStart, Prepares, IsSet

\* An access of a function that prepares and starts runs.
LEMMA RunsAccess ==
  ASSUME CoreInv, scene' = scene, AsconAccess, StartsRuns(todo)
  PROVE  CoreInv' /\ StartsRuns(todo)' /\ mem'["RETCODE"] = mem["RETCODE"]
<1>1. PICK t, a, u : t = todo /\ a = Head(t) /\ u = Tail(t)
  OBVIOUS
<1>2. Thread /\ t # <<>> /\ todo' = u /\ Op = a[1] /\ Reg = a[2]
  BY <1>1, AccessOf DEF CoreInv, CipherTyped
<1>3. StartsRuns(t)
  BY <1>1
<1>4. \A r \in JobRegs : dmaRegs'[r] = IF a[1] = "write" /\ a[2] = r THEN a[3] ELSE dmaRegs[r]
  <2>1. CASE Writes("CTRL")
    <3>1. Reg = "CTRL"
      BY <2>1 DEF Writes
    <3>2. Op = "write"
      <4>1. a[1] \in {"write", "until"}
        <5>1. MayStart(a)
          <6>1. PICK S : t \in Seq(S)
            BY <1>3 DEF StartsRuns, IsSequence
          <6>2. PICK k : k = 1
            OBVIOUS
          <6>3. k \in 1 .. Len(t) /\ a = t[k]
            BY <1>1, <1>2, <6>1, <6>2, HeadTailProperties
          <6> QED BY <1>3, <6>3 DEF StartsRuns
        <5> QED BY <5>1, StartsAre
      <4> QED BY <1>2, <2>1, <4>1 DEF Writes
    <3>3. dmaRegs' = dmaRegs
      BY <3>1, <3>2, CtrlAccess
    <3> QED BY <1>2, <3>1, <3>3 DEF JobRegs
  <2>2. CASE ~Writes("CTRL")
    BY <1>1, <1>2, <2>2, PlainAccess
  <2> QED BY <2>1, <2>2
<1>5. /\ MayStart(a) /\ StartsRuns(u)'
      /\ a = DmaStart => u = <<DmaWait>> /\ \A r \in JobRegs : dmaRegs[r] = Job[r]
  BY <1>1, <1>2, <1>3, <1>4, RestStarts
<1>6. StartsRuns(todo)'
  BY <1>2, <1>5 DEF StartsRuns, IsSequence, MayStart, Prepares, IsSet
<1>7. CASE ~Writes("CTRL")
  <2>1. Harmless(a)
    <3>1. Reg = "CTRL" => Op # "write"
      BY <1>7 DEF Writes
    <3> QED BY <1>2, <1>5, <3>1, StartsAre DEF Harmless
  <2>2. CoreInv'
    BY <1>1, <1>7, <2>1, PlainKeeps
  <2>3. mem'["RETCODE"] = mem["RETCODE"]
    BY <1>2, <1>5, <1>7, StartsAre, PlainAccess, Layout
  <2> QED BY <1>6, <2>2, <2>3
<1>8. CASE Writes("CTRL")
  <2>1. Op = "write" /\ Reg = "CTRL" /\ Bits = a[3]
    <3>1. Op = "write" /\ Reg = "CTRL"
      BY <1>2, <1>5, <1>8, StartsAre DEF Writes
    <3> QED BY <1>1, <3>1, CtrlAccess
  <2>2. mem'["RETCODE"] = mem["RETCODE"]
    BY <2>1, CtrlAccess, Layout
  <2>3. a[3] \in {{"SOFT_RST"}, {"CORE_START"}, {"CORE_START", "DMA_EN"}}
    BY <1>2, <1>5, <2>1, StartsAre
  <2>4. ASSUME a[3] = {"SOFT_RST"} PROVE CoreInv'
    <3>1. Head(todo)[3] = {"SOFT_RST"}
      BY <1>1, <2>4
    <3> QED BY <2>1, <3>1, ResetKeeps
  <2>5. ASSUME a[3] # {"SOFT_RST"}, ByCpu \/ ByDma PROVE CoreInv'
    <3>1. ASSUME ByDma
          PROVE  a[3] = {"CORE_START", "DMA_EN"} /\ JobWaits' /\ \A r \in JobRegs : dmaRegs[r] = Job[r]
      <4>1. a[3] = {"CORE_START", "DMA_EN"}
        BY <2>1, <2>3, <3>1 DEF ByDma
      <4>2. a = DmaStart
        BY <1>2, <1>5, <2>1, <4>1, StartsAre
      <4>3. todo' = <<DmaWait>>
        BY <1>2, <1>5, <4>2
      <4>4. JobWaits'
        BY <4>3 DEF JobWaits, DmaWait
      <4> QED BY <1>5, <4>1, <4>2, <4>4
    <3>2. ByDma => /\ Head(todo)[3] = {"CORE_START", "DMA_EN"} /\ JobWaits'
                   /\ \A r \in JobRegs : dmaRegs[r] = Job[r]
      BY <1>1, <3>1
    <3> QED BY <2>1, <2>5, <3>2, StartKeeps
  <2>6. ASSUME a[3] # {"SOFT_RST"}, ~ByCpu, ~ByDma PROVE CoreInv'
    <3>1. a[3] \in {{"CORE_START"}, {"CORE_START", "DMA_EN"}} /\ ~Resets
      BY <2>1, <2>3, <2>6 DEF Resets
    <3> QED BY <1>1, <2>1, <2>6, <3>1, RefusalKeeps
  <2>7. CoreInv'
    BY <2>4, <2>5, <2>6
  <2> QED BY <1>6, <2>2, <2>7
<1> QED BY <1>7, <1>8

\* The steps of the core and of its DMA.
CoreStep   == CoreInitialises \/ CoreTakesAD \/ CoreTakesText \/ CoreEnds
DeviceStep == CoreStep \/ DmaDone \/ DmaLands \/ DmaFails

\* What a step of the core leaves alone.
LEMMA CoreStepDoes ==
  ASSUME CoreInv, scene' = scene, CoreStep
  PROVE  /\ core_busy
         /\ UNCHANGED <<call, todo, seen, selected, active, dmaBusy, dmaRegs, landing, mem, polled, promised>>
         /\ sticky \subseteq sticky'
         /\ CoreEnds \/ (UNCHANGED good /\ core_busy')
         /\ CoreEnds => UNCHANGED ctext
<1>1. PICK from, regs, to :
        /\ from # "idle" /\ Goes(from, regs, to) /\ sticky \subseteq sticky'
        /\ CoreEnds \/ (UNCHANGED good /\ to # "idle")
  <2>1. CASE CoreInitialises
    BY <2>1 DEF CoreInitialises
  <2>2. CASE CoreTakesAD
    BY <2>2 DEF CoreTakesAD
  <2>3. CASE CoreTakesText
    BY <2>3 DEF CoreTakesText
  <2>4. CASE CoreEnds
    BY <2>4 DEF CoreEnds
  <2> QED BY <2>1, <2>2, <2>3, <2>4 DEF CoreStep
<1>2. core_busy /\ (core_busy' <=> to # "idle")
  BY <1>1, CoreGoes
<1>3. UNCHANGED <<call, todo, seen, selected, active, dmaBusy, dmaRegs, landing, mem, polled, promised>>
  BY <1>1, CoreGoes
<1>4. CoreEnds => UNCHANGED ctext
  BY DEF CoreEnds
<1> QED BY <1>1, <1>2, <1>3, <1>4

\* What every step of the device keeps, and what the thread relies on.
LEMMA DeviceKeeps ==
  ASSUME CoreInv, scene' = scene, DeviceStep
  PROVE  /\ CoreInv' /\ mem'["RETCODE"] = mem["RETCODE"] /\ ~Untouched
         /\ UNCHANGED <<call, todo, seen, selected, active, polled, promised, dmaRegs>>
         /\ sticky \subseteq sticky'
         /\ \A c \in Contexts : good'[c] \subseteq good[c] /\ (RunsOn(c)' => RunsOn(c))
<1>1. CASE CoreStep
  <2>1. CoreInv'
    BY <1>1, CoreReads, TextKeeps, EndKeeps DEF CoreStep
  <2>2. \A c \in Contexts : good'[c] \subseteq good[c]
    BY <1>1, CoreStepDoes, EndKeeps
  <2>3. core_busy /\ ~Untouched
    BY <1>1, CoreStepDoes DEF Untouched
  <2>4. UNCHANGED <<call, todo, seen, selected, active, mem, polled, promised, dmaRegs>> /\ sticky \subseteq sticky'
    BY <1>1, CoreStepDoes
  <2> QED BY <2>1, <2>2, <2>3, <2>4 DEF RunsOn
<1>2. CASE DmaDone
  <2>1. CoreInv' /\ ~Untouched
    BY <1>2, DoneKeeps DEF DmaDone, Untouched
  <2>2. /\ UNCHANGED <<call, todo, seen, selected, active, mem, polled, promised, core, good, dmaRegs>>
        /\ sticky \subseteq sticky'
    BY <1>2 DEF DmaDone, hart, thread
  <2> QED BY <2>1, <2>2 DEF RunsOn, core_busy
<1>3. CASE DmaLands
  <2>1. CoreInv' /\ mem'["RETCODE"] = mem["RETCODE"] /\ ~Untouched
    BY <1>3, LandsKeeps DEF DmaLands, Untouched
  <2>2. UNCHANGED <<call, todo, seen, selected, active, polled, promised, core, good, sticky, dmaRegs>>
    BY <1>3 DEF DmaLands, hart, thread, asconCore
  <2> QED BY <2>1, <2>2 DEF RunsOn, core_busy
<1>4. CASE DmaFails
  <2>1. CoreInv' /\ ~Untouched /\ \A c \in Contexts : good'[c] \subseteq good[c]
    BY <1>4, FailureKeeps DEF DmaFails, Untouched
  <2>2. /\ UNCHANGED <<call, todo, seen, selected, active, mem, polled, promised, core, dmaRegs>>
        /\ sticky \subseteq sticky'
    BY <1>4 DEF DmaFails, hart, thread
  <2> QED BY <2>1, <2>2 DEF RunsOn, core_busy
<1> QED BY <1>1, <1>2, <1>3, <1>4 DEF DeviceStep

\* What DmaDone takes from the FIFO.
LEMMA FirstTwo == ASSUME NEW a, NEW b PROVE SubSeq(<<a, b>>, 1, 2) = <<a, b>>
<1> DEFINE S == {a, b}
<1>1. PICK u \in Seq(S) : u = <<a, b>> /\ Len(u) = 2
  <2>1. <<a, b>> \in Seq(S) /\ Len(<<a, b>>) = 2
    OBVIOUS
  <2> QED BY <2>1
<1>2. PICK v : v = SubSeq(u, 1, 2)
  OBVIOUS
<1>3. v \in Seq(S) /\ Len(v) = 2 /\ \A i \in 1 .. 2 : v[i] = u[i]
  <2> HIDE DEF S
  <2>1. 1 \in 1 .. Len(u) /\ 2 \in 1 .. Len(u)
    BY <1>1
  <2>2. /\ v \in Seq(S) /\ Len(v) = 2 - 1 + 1
        /\ \A i \in 1 .. 2 - 1 + 1 : v[i] = u[1 + i - 1]
    BY <1>1, <1>2, <2>1, SubSeqProperties
  <2> QED BY <1>1, <2>2
<1>4. v = u
  <2> HIDE DEF S
  <2> QED BY <1>1, <1>3, SeqEqual
<1> QED BY <1>1, <1>2, <1>4

\* The job of main, from its start to its end in memory.
LEMMA JobIsDelivered ==
  ASSUME CoreInv, scene = "main", scene' = scene, Delivered, DeviceStep
  PROVE  Delivered' /\ (Settled => Settled')
<1> USE DEF Contexts
<1>1. /\ CoreInv' /\ UNCHANGED <<active, promised>> /\ sticky \subseteq sticky' /\ good'[0] \subseteq good[0]
  BY DeviceKeeps
<1>2. Both' = Both
  BY <1>1 DEF Both
<1>3. CASE CoreStep
  <2>1. core_busy /\ UNCHANGED <<dmaBusy, landing, mem>> /\ (CoreEnds \/ (UNCHANGED good /\ core_busy'))
    BY <1>3, CoreStepDoes
  <2>2. Settled => "memory" \notin good[0]
    BY <2>1 DEF Delivered, Settled
  <2>3. ASSUME "memory" \in good'[0], "DMA_ERR" \notin sticky'
        PROVE  /\ "result" \in good'[0] /\ active' = 0 /\ dmaBusy' /\ landing' = <<>>
               /\ "DMA_DONE" \notin sticky' /\ (~core_busy' => wrFifo' = Both)
    <3>1. "result" \in good[0] /\ active = 0 /\ dmaBusy /\ landing = <<>> /\ "DMA_DONE" \notin sticky
      BY <1>1, <2>1, <2>3 DEF Delivered
    <3>2. CASE CoreEnds
      <4>1. "DMA_DONE" \notin sticky' /\ wrFifo' = Both
        BY <2>1, <3>1, <3>2, EndKeeps DEF RunsOn, Both
      <4>2. good' = good
        <5>1. good' = [c \in Contexts |-> IF active = active THEN good[c]
                                          ELSE IF c = active THEN good[c] \ {"verdict"} ELSE {}]
          BY <3>1, <3>2 DEF CoreEnds
        <5> QED BY <5>1 DEF CoreInv, CipherTyped
      <4> QED BY <1>1, <2>1, <3>1, <4>1, <4>2
    <3>3. CASE ~CoreEnds
      <4>1. "DMA_DONE" \notin sticky'
        <5>1. CoreInitialises \/ CoreTakesAD => sticky' = sticky
          BY DEF CoreInitialises, CoreTakesAD
        <5>2. CoreTakesText => sticky' = sticky \cup Overflow
          BY DEF CoreTakesText
        <5>3. "DMA_DONE" \notin Overflow
          BY DEF Overflow
        <5> QED BY <1>3, <3>1, <3>3, <5>1, <5>2, <5>3 DEF CoreStep
      <4>2. good' = good /\ core_busy'
        BY <2>1, <3>3
      <4>3. dmaBusy' /\ landing' = <<>> /\ active' = 0
        BY <1>1, <2>1, <3>1
      <4>4. "result" \in good'[0]
        BY <3>1, <4>2
      <4> QED BY <4>1, <4>2, <4>3, <4>4
    <3> QED BY <3>2, <3>3
  <2> QED BY <1>1, <1>2, <2>2, <2>3 DEF Delivered, Settled
<1>4. CASE DmaDone
  <2>1. /\ dmaBusy /\ ~dmaBusy' /\ UNCHANGED <<core, good, mem>> /\ Len(wrFifo) >= 2
        /\ \A a, b : wrFifo = <<a, b>> => landing' # <<>> /\ landing'[1] = <<a, b>>
    <3>1. dmaBusy /\ ~dmaBusy' /\ UNCHANGED <<core, good, mem>> /\ Len(wrFifo) >= 2
      BY <1>4 DEF DmaDone
    <3>2. ASSUME NEW a, NEW b, wrFifo = <<a, b>> PROVE landing' # <<>> /\ landing'[1] = <<a, b>>
      <4>1. PICK x, y, z : landing' = <<x, y, z>> /\ x = SubSeq(wrFifo, 1, 2)
        BY <1>4 DEF DmaDone
      <4>2. x = <<a, b>>
        BY <3>2, <4>1, FirstTwo
      <4> QED BY <4>1, <4>2
    <3> QED BY <3>1, <3>2
  <2>2. Settled => "memory" \notin good[0]
    BY <2>1 DEF Settled
  <2>3. ASSUME "memory" \in good'[0], "DMA_ERR" \notin sticky'
        PROVE  /\ "result" \in good'[0] /\ active' = 0 /\ ~core_busy'
               /\ landing' # <<>> /\ landing'[1] = Both
    <3>1. "result" \in good[0] /\ active = 0 /\ (~core_busy => wrFifo = Both)
      BY <1>1, <2>1, <2>3 DEF Delivered
    <3>2. ~core_busy
      <4>1. SUFFICES ASSUME core_busy PROVE FALSE
        OBVIOUS
      <4>2. Running(0)
        BY <3>1, <4>1 DEF CoreInv, RunsInv, ResultOf, RunsOn
      <4>3. wrFifo = <<>> \/ \E x : wrFifo = <<x>>
        BY <4>2 DEF Running
      <4>4. Len(wrFifo) = 0 \/ Len(wrFifo) = 1
        BY <4>3
      <4>5. PICK n : n = Len(wrFifo)
        OBVIOUS
      <4>6. n >= 2 /\ (n = 0 \/ n = 1)
        BY <2>1, <4>4, <4>5
      <4> QED BY <4>6
    <3> QED BY <1>1, <2>1, <3>1, <3>2 DEF Both, core_busy
  <2> QED BY <1>2, <2>1, <2>2, <2>3 DEF Delivered, Settled
<1>5. CASE DmaLands
  <2>1. /\ landing # <<>> /\ landing' = <<>> /\ mem'["CT_MULTI"] = landing[1]
        /\ UNCHANGED <<core, sticky, good, dmaBusy>>
    BY <1>5, LandsKeeps DEF DmaLands, asconCore
  <2> QED BY <1>1, <1>2, <2>1 DEF Delivered, Settled, core_busy
<1>6. CASE DmaFails
  <2>1. "DMA_ERR" \in sticky' /\ (dmaBusy \/ landing # <<>>) /\ (landing # <<>> => good'[active] = {})
    BY <1>6, FailureKeeps DEF DmaFails
  <2>2. ASSUME Settled PROVE "memory" \notin good'[0]
    BY <1>1, <2>1, <2>2 DEF Delivered, Settled
  <2> QED BY <2>1, <2>2 DEF Delivered, Settled
<1> QED BY <1>3, <1>4, <1>5, <1>6 DEF DeviceStep

\* The program main: what it has come to.
MainPrepares ==
  /\ StartsRuns(todo) /\ Untouched /\ mem["RETCODE"] = "none"
  /\ \E i \in 1 .. Len(todo) : todo[i] = DmaStart
MainWaits  == todo = <<DmaWait>> /\ mem["RETCODE"] = "none"
MainPolled == todo = <<>> /\ mem["RETCODE"] = "none" /\ ("DMA_ERR" \notin polled => Settled)
MainWrites ==
  /\ mem["RETCODE"] = "none"
  /\ \E x \in {"0", "-1", "-2"} : todo = <<W("RETCODE", x)>> /\ (x = "0" => Settled)
MainEnds   == todo = <<>> /\ mem["RETCODE"] # "none" /\ (mem["RETCODE"] = "0" => Settled)
\* The phases of main.
LEMMA MainIs ==
  MainThread <=> /\ call = "main" /\ selected = 0 /\ Delivered
                 /\ MainPrepares \/ MainWaits \/ MainPolled \/ MainWrites \/ MainEnds
BY DEF MainThread, MainPrepares, MainWaits, MainPolled, MainWrites, MainEnds

\* A step of main itself that leaves the core and its DMA alone.
LEMMA SameJob ==
  ASSUME Delivered, UNCHANGED <<active, core, sticky, landing, wrFifo, dmaBusy, promised>>,
         good'[0] = good[0], mem'["CT_MULTI"] = mem["CT_MULTI"]
  PROVE  Delivered' /\ (Settled => Settled')
<1>1. Both' = Both
  BY DEF Both
<1> QED BY <1>1 DEF Delivered, Settled, core_busy

\* Main prepares its job, and starts it on a core that rests.
LEMMA MainPreparing ==
  ASSUME CoreInv, scene = "main", scene' = scene, call = "main", selected = 0, MainPrepares, AsconAccess
  PROVE  CoreInv' /\ MainThread'
<1> USE DEF Contexts
<1>1. CoreInv' /\ StartsRuns(todo)' /\ mem'["RETCODE"] = "none"
  BY RunsAccess DEF MainPrepares
<1>2. PICK t, a, u : t = todo /\ a = Head(t) /\ u = Tail(t)
  OBVIOUS
<1>3. /\ Thread /\ t # <<>> /\ todo' = u /\ Op = a[1] /\ Reg = a[2] /\ call' = "main" /\ landing' = landing
      /\ Op = "until" => a[3] \cap AsconStatus # {}
  BY <1>2, AccessOf DEF CoreInv, CipherTyped
<1>4. StartsRuns(t)
  BY <1>2 DEF MainPrepares
<1>5. PICK S : t \in Seq(S)
  BY <1>4 DEF StartsRuns, IsSequence
<1>6. /\ Len(t) \in Nat /\ Len(t) >= 1 /\ a = t[1] /\ Len(u) = Len(t) - 1 /\ u \in Seq(S)
      /\ \A i \in 1 .. Len(u) : u[i] = t[i + 1]
  BY <1>2, <1>3, <1>5, HeadTailProperties
<1>7. MayStart(a) /\ (a = DmaStart => Len(t) = 2 /\ t[2] = DmaWait)
  <2>1. PICK k : k = 1 /\ k \in 1 .. Len(t) /\ t[k] = a
    BY <1>6
  <2> QED BY <1>4, <2>1 DEF StartsRuns
<1>8. a # DmaStart => \E i \in 1 .. Len(u) : u[i] = DmaStart
  <2>1. SUFFICES ASSUME a # DmaStart PROVE \E i \in 1 .. Len(u) : u[i] = DmaStart
    OBVIOUS
  <2>2. PICK i \in 1 .. Len(t) : t[i] = DmaStart
    BY <1>2 DEF MainPrepares
  <2>3. PICK j : j = i - 1
    OBVIOUS
  <2>4. i # 1
    BY <1>6, <2>1, <2>2
  <2>5. j \in 1 .. Len(u) /\ j + 1 = i
    BY <1>6, <2>3, <2>4
  <2> QED BY <1>6, <2>2, <2>5
<1>9. /\ ~core_busy /\ ~dmaBusy /\ sticky = {} /\ wrFifo = <<>> /\ landing = <<>> /\ active = 0
      /\ good[0] = {} /\ good[1] = {}
  BY DEF MainPrepares, Untouched
<1>10. AsconStatus = {}
  BY <1>9 DEF AsconStatus
<1>11. a[1] = "write"
  BY <1>3, <1>7, <1>10, StartsAre
<1>12. ASSUME Untouched', selected' = 0, a # DmaStart PROVE MainThread'
  <2>1. Delivered'
    BY <1>12 DEF Delivered, Untouched
  <2>2. MainPrepares'
    BY <1>1, <1>3, <1>8, <1>12 DEF MainPrepares, DmaStart
  <2> QED BY <1>3, <1>12, <2>1, <2>2, MainIs DEF MainThread, MainPrepares
<1>13. CASE a[2] # "CTRL"
  <2>1. ~Writes("CTRL")
    BY <1>3, <1>13 DEF Writes
  <2>2. UNCHANGED <<active, core, sticky, landing, wrFifo, dmaBusy, good>>
    BY <1>9, <2>1, PlainAccess
  <2>3. Untouched'
    BY <1>9, <2>2 DEF Untouched, core_busy
  <2>4. selected' = 0
    BY <1>3, <1>7, <1>11, <2>1, StartsAre, PlainAccess
  <2>5. a # DmaStart
    BY <1>13, <1>7, StartsAre
  <2> QED BY <1>1, <1>12, <2>3, <2>4, <2>5
<1>14. CASE a[2] = "CTRL"
  <2>1. Op = "write" /\ Reg = "CTRL" /\ Bits = a[3] /\ selected' = 0
    <3>1. Op = "write" /\ Reg = "CTRL"
      BY <1>3, <1>11, <1>14
    <3> QED BY <1>2, <3>1, CtrlAccess
  <2>2. a[3] = {"SOFT_RST"} \/ (a = DmaStart /\ a[3] = {"CORE_START", "DMA_EN"})
    <3>1. MayStart(a) /\ scene # "ascon"
      BY <1>7
    <3>2. a[3] \in {{"SOFT_RST"}, {"CORE_START"}, {"CORE_START", "DMA_EN"}} /\ a[3] # {"CORE_START"}
      BY <1>11, <1>14, <3>1, StartsAre
    <3>3. a[3] = {"CORE_START", "DMA_EN"} => a = DmaStart
      BY <1>11, <1>14, <3>1, StartsAre
    <3> QED BY <3>2, <3>3
  <2>3. CASE a[3] = {"SOFT_RST"}
    <3>1. Head(todo)[3] = {"SOFT_RST"}
      BY <1>2, <2>3
    <3>2. UNCHANGED core /\ active' = 0 /\ ~dmaBusy' /\ sticky' = {} /\ wrFifo' = <<>>
      BY <2>1, <3>1, ResetKeeps
    <3>3. \A c \in Contexts : good'[c] \subseteq good[c]
      BY <2>1, <3>1, ResetKeeps
    <3>4. Untouched'
      BY <1>3, <1>9, <3>2, <3>3 DEF Untouched, core_busy
    <3>5. a # DmaStart
      <4>1. "SOFT_RST" # "CORE_START" /\ a[3] # {"CORE_START", "DMA_EN"}
        BY <2>3
      <4> QED BY <1>7, <4>1, StartsAre
    <3> QED BY <1>1, <1>12, <2>1, <3>4, <3>5
  <2>4. CASE a = DmaStart /\ a[3] = {"CORE_START", "DMA_EN"}
    <3>1. ByDma
      BY <1>9, <2>1, <2>4 DEF ByDma
    <3>2. u = <<DmaWait>> /\ \A r \in JobRegs : dmaRegs[r] = Job[r]
      <4>1. \A r \in JobRegs : dmaRegs'[r] = IF Head(t)[1] = "write" /\ Head(t)[2] = r THEN Head(t)[3] ELSE dmaRegs[r]
        BY <1>2, <1>14, <2>1, CtrlAccess DEF JobRegs
      <4> QED BY <1>2, <1>3, <1>4, <2>4, <4>1, RestStarts
    <3>3. JobWaits'
      BY <1>3, <3>2 DEF JobWaits, DmaWait
    <3>4. ByDma => /\ Head(todo)[3] = {"CORE_START", "DMA_EN"} /\ JobWaits'
                   /\ \A r \in JobRegs : dmaRegs[r] = Job[r]
      BY <1>2, <2>4, <3>2, <3>3
    <3>5. active' = selected /\ core_busy' /\ sticky' = sticky /\ dmaBusy' = (ByDma \/ dmaBusy)
      BY <2>1, <3>1, <3>4, StartKeeps
    <3>6. good'[selected] = IF AsconStatus = {} /\ wrFifo = <<>> /\ landing = <<>>
                            THEN {"result", "verdict", "memory"} ELSE {}
      BY <2>1, <3>1, <3>4, StartKeeps
    <3>7. "result" \in good'[0] /\ active' = 0 /\ dmaBusy' /\ landing' = <<>> /\ "DMA_DONE" \notin sticky'
      BY <1>3, <1>9, <1>10, <3>1, <3>5, <3>6
    <3>8. Delivered'
      BY <3>5, <3>7 DEF Delivered
    <3>9. MainWaits'
      BY <1>1, <1>3, <3>2 DEF MainWaits, DmaWait
    <3> QED BY <1>1, <1>3, <2>1, <3>8, <3>9 DEF MainThread, MainWaits
  <2> QED BY <2>2, <2>3, <2>4
<1> QED BY <1>13, <1>14

\* Main waits for the job, and stores its verdict.
LEMMA MainWaiting ==
  ASSUME CoreInv, scene = "main", scene' = scene, call = "main", selected = 0, Delivered,
         MainWaits \/ MainWrites, AsconAccess
  PROVE  CoreInv' /\ MainThread'
<1> USE DEF Contexts
<1>1. PICK a : todo = <<a>> /\ mem["RETCODE"] = "none" /\ call' = "main" /\ todo' = <<>>
               /\ \/ a = DmaWait /\ a[1] = "until" /\ a[2] = "STATUS" /\ a[3] = {"DMA_DONE", "DMA_ERR"}
                  \/ \E x \in {"0", "-1", "-2"} : /\ a = W("RETCODE", x) /\ a[1] = "write" /\ a[2] = "RETCODE"
                                                  /\ a[3] = x /\ (x = "0" => Settled)
  <2>1. PICK a : todo = <<a>> /\ mem["RETCODE"] = "none"
                 /\ (a = DmaWait \/ \E x \in {"0", "-1", "-2"} : a = W("RETCODE", x) /\ (x = "0" => Settled))
    BY DEF MainWaits, MainWrites
  <2>2. call' = "main" /\ todo' = Tail(todo)
    BY AccessOf DEF CoreInv, CipherTyped
  <2>3. todo' = <<>>
    BY <2>1, <2>2
  <2>4. a = DmaWait => a[1] = "until" /\ a[2] = "STATUS" /\ a[3] = {"DMA_DONE", "DMA_ERR"}
    BY DEF DmaWait, Until
  <2>5. \A x : a = W("RETCODE", x) => a[1] = "write" /\ a[2] = "RETCODE" /\ a[3] = x
    BY DEF W
  <2> QED BY <2>1, <2>2, <2>3, <2>4, <2>5
<1>2. Head(todo) = a /\ Op = a[1] /\ Reg = a[2]
  <2>1. Head(todo) = a
    BY <1>1
  <2> QED BY <2>1, AccessOf DEF CoreInv, CipherTyped
<1>3. ~Writes("CTRL") /\ ~(Op = "write" /\ Reg \in Inputs) /\ Harmless(a)
  BY <1>1, <1>2 DEF Writes, Inputs, Harmless
<1>4. CoreInv'
  BY <1>2, <1>3, PlainKeeps
<1>5. /\ UNCHANGED <<active, core, sticky, landing, wrFifo, dmaBusy, promised>> /\ good' = good
      /\ selected' = 0 /\ mem'["CT_MULTI"] = mem["CT_MULTI"]
      /\ mem'["RETCODE"] = IF a[1] = "write" THEN a[3] ELSE mem["RETCODE"]
  BY <1>1, <1>2, <1>3, PlainAccess, Layout
<1>6. Delivered' /\ (Settled => Settled')
  BY <1>5, SameJob
<1>7. CASE a = DmaWait
  <2>1. polled' = AsconStatus /\ {"DMA_DONE", "DMA_ERR"} \cap AsconStatus # {}
    BY <1>1, <1>2, <1>7, AccessOf DEF CoreInv, CipherTyped, DmaWait, Until
  <2>2. ASSUME "DMA_ERR" \notin polled' PROVE Settled
    <3>1. "DMA_DONE" \in sticky /\ "DMA_ERR" \notin sticky
      BY <2>1, <2>2 DEF AsconStatus
    <3> QED BY <3>1 DEF Delivered, Settled
  <2>3. MainPolled'
    BY <1>1, <1>5, <1>6, <1>7, <2>2 DEF MainPolled, DmaWait, Until
  <2> QED BY <1>1, <1>4, <1>5, <1>6, <2>3 DEF MainThread, MainPolled
<1>8. CASE a # DmaWait
  <2>1. PICK x \in {"0", "-1", "-2"} : mem'["RETCODE"] = x /\ (x = "0" => Settled)
    BY <1>1, <1>5, <1>8
  <2>2. MainEnds'
    BY <1>1, <1>6, <2>1 DEF MainEnds
  <2> QED BY <1>1, <1>4, <1>5, <1>6, <2>2 DEF MainThread, MainEnds
<1> QED BY <1>7, <1>8

\* A collect.
LEMMA PolledStays ==
  ASSUME Polled, UNCHANGED <<selected, active, core, polled, promised, good>>
  PROVE  Polled'
BY DEF Polled, RunsOn, core_busy, Verdict, Wrong

\* What a collect finds: the run has ended, so its outputs and its verdict stand.
LEMMA CollectAccess ==
  ASSUME CoreInv, scene = "ascon", scene' = scene, CollectInv, AsconAccess
  PROVE  CoreInv' /\ CollectInv' /\ mem'["RETCODE"] = mem["RETCODE"]
<1>1. /\ Thread /\ todo # <<>> /\ todo' = Tail(todo) /\ Op = Head(todo)[1] /\ Reg = Head(todo)[2]
      /\ seen' = IF Op = "read" THEN Append(seen, AsconRead) ELSE seen
      /\ Op = "until" => Head(todo)[3] \cap AsconStatus # {} /\ polled' = AsconStatus
      /\ Op # "until" => polled' = polled
  BY AccessOf DEF CoreInv, CipherTyped
<1>2. ASSUME NEW a, Head(todo) = a, Harmless(a), a[2] # "CTRL", a[2] \notin Inputs, a[2] # "RETCODE"
      PROVE  /\ CoreInv' /\ mem'["RETCODE"] = mem["RETCODE"]
             /\ UNCHANGED <<active, core, promised, good>>
             /\ a[2] # "CONTEXT_SEL" => selected' = selected
  <2>1. ~Writes("CTRL") /\ Harmless(Head(todo)) /\ Reg = a[2]
    BY <1>1, <1>2 DEF Writes
  <2>2. CoreInv'
    BY <2>1, PlainKeeps
  <2>3. /\ UNCHANGED <<active, core, promised>> /\ good' = good /\ mem'["RETCODE"] = mem["RETCODE"]
        /\ a[2] # "CONTEXT_SEL" => selected' = selected
    BY <1>2, <2>1, PlainAccess, Layout
  <2> QED BY <2>2, <2>3
<1>3. ASSUME NEW c \in Contexts, seen = <<>>,
             todo = <<W("CONTEXT_SEL", c), Until("STATUS", {"CORE_DONE"}), R("CTEXT"), R("TAG")>>
      PROVE  CoreInv' /\ CollectInv' /\ mem'["RETCODE"] = mem["RETCODE"]
  <2>1. PICK a, u : a = W("CONTEXT_SEL", c) /\ u = Collects
    OBVIOUS
  <2>2. Head(todo) = a /\ Tail(todo) = u
    BY <1>3, <2>1 DEF Collects
  <2>3. a[1] = "write" /\ a[2] = "CONTEXT_SEL" /\ a[3] = c
    BY <2>1 DEF W
  <2>4. Harmless(a) /\ a[2] \notin Inputs
    BY <2>3 DEF Harmless, Inputs
  <2>5. CoreInv' /\ mem'["RETCODE"] = mem["RETCODE"]
    BY <1>2, <2>2, <2>3, <2>4
  <2>6. todo' = Collects /\ seen' = <<>>
    BY <1>1, <1>3, <2>1, <2>2, <2>3
  <2> QED BY <2>5, <2>6 DEF CollectInv, Collects
<1>4. ASSUME todo = Collects, seen = <<>>
      PROVE  CoreInv' /\ CollectInv' /\ mem'["RETCODE"] = mem["RETCODE"]
  <2>1. PICK a, u : a = Until("STATUS", {"CORE_DONE"}) /\ u = <<R("CTEXT"), R("TAG")>>
    OBVIOUS
  <2>2. Head(todo) = a /\ Tail(todo) = u
    BY <1>4, <2>1 DEF Collects
  <2>3. a[1] = "until" /\ a[2] = "STATUS" /\ a[3] = {"CORE_DONE"}
    BY <2>1 DEF Until
  <2>4. Harmless(a) /\ a[2] \notin Inputs
    BY <2>3 DEF Harmless, Inputs
  <2>5. CoreInv' /\ mem'["RETCODE"] = mem["RETCODE"] /\ UNCHANGED <<active, core, promised, good, selected>>
    BY <1>2, <2>2, <2>3, <2>4
  <2>6. todo' = <<R("CTEXT"), R("TAG")>> /\ seen' = <<>>
    BY <1>1, <1>4, <2>1, <2>2, <2>3
  <2>7. polled' = AsconStatus /\ "CORE_DONE" \in AsconStatus
    BY <1>1, <2>2, <2>3
  <2>8. "CORE_DONE" \in sticky /\ ("TAG_MISMATCH" \in polled' <=> "TAG_MISMATCH" \in sticky)
    BY <2>7 DEF AsconStatus
  <2>9. "result" \in good[selected] => ~RunsOn(selected)
    BY <2>8 DEF CoreInv, CipherTyped, RunsInv, ResultOf, Running
  <2>10. "verdict" \in good[selected] => ("TAG_MISMATCH" \in polled' <=> Wrong(selected))
    BY <2>8, <2>9 DEF CoreInv, CipherTyped, RunsInv, VerdictOf, RunsOn
  <2>11. Polled'
    BY <2>5, <2>9, <2>10 DEF Polled, RunsOn, core_busy, Verdict, Wrong
  <2> QED BY <2>5, <2>6, <2>11 DEF CollectInv
<1>5. ASSUME todo = <<R("CTEXT"), R("TAG")>>, seen = <<>>, Polled
      PROVE  CoreInv' /\ CollectInv' /\ mem'["RETCODE"] = mem["RETCODE"]
  <2>1. PICK a, u : a = R("CTEXT") /\ u = <<R("TAG")>>
    OBVIOUS
  <2>2. Head(todo) = a /\ Tail(todo) = u
    BY <1>5, <2>1
  <2>3. a[1] = "read" /\ a[2] = "CTEXT"
    BY <2>1 DEF R
  <2>4. Harmless(a) /\ a[2] \notin Inputs
    BY <2>3 DEF Harmless, Inputs
  <2>5. CoreInv' /\ mem'["RETCODE"] = mem["RETCODE"] /\ UNCHANGED <<active, core, promised, good, selected>>
    BY <1>2, <2>2, <2>3, <2>4
  <2>6. polled' = polled /\ Polled'
    BY <1>1, <1>5, <2>2, <2>3, <2>5, PolledStays
  <2>7. todo' = <<R("TAG")>> /\ seen' = Append(<<>>, AsconRead) /\ Reg = "CTEXT"
    BY <1>1, <1>5, <2>1, <2>2, <2>3
  <2>8. seen' = <<ctext[selected]>>
    BY <2>7 DEF AsconRead
  <2>9. "result" \in good[selected] => seen' = <<CtextOf(promised[selected])>>
    BY <1>5, <2>8 DEF Polled, CoreInv, CipherTyped, RunsInv, ResultOf, Result
  <2> QED BY <2>5, <2>6, <2>7, <2>9 DEF CollectInv
<1>6. ASSUME todo = <<R("TAG")>>, Polled,
             "result" \in good[selected] => seen = <<CtextOf(promised[selected])>>
      PROVE  CoreInv' /\ CollectInv' /\ mem'["RETCODE"] = mem["RETCODE"]
  <2>1. PICK a : a = R("TAG")
    OBVIOUS
  <2>2. Head(todo) = a /\ Tail(todo) = <<>>
    BY <1>6, <2>1
  <2>3. a[1] = "read" /\ a[2] = "TAG"
    BY <2>1 DEF R
  <2>4. Harmless(a) /\ a[2] \notin Inputs
    BY <2>3 DEF Harmless, Inputs
  <2>5. CoreInv' /\ mem'["RETCODE"] = mem["RETCODE"] /\ UNCHANGED <<active, core, promised, good, selected>>
    BY <1>2, <2>2, <2>3, <2>4
  <2>6. polled' = polled /\ Polled'
    BY <1>1, <1>6, <2>2, <2>3, <2>5, PolledStays
  <2>7. todo' = <<>> /\ seen' = Append(seen, AsconRead) /\ Reg = "TAG"
    BY <1>1, <2>2, <2>3
  <2>8. AsconRead = tag[selected]
    BY <2>7 DEF AsconRead
  <2>9. ASSUME "result" \in good[selected]
        PROVE  seen' = <<CtextOf(promised[selected]), TagOf(promised[selected])>>
    <3>1. AsconRead = TagOf(promised[selected])
      BY <1>6, <2>8, <2>9 DEF Polled, CoreInv, CipherTyped, RunsInv, ResultOf, Result
    <3>2. PICK x, y : x = CtextOf(promised[selected]) /\ y = TagOf(promised[selected])
      OBVIOUS
    <3>3. seen' = Append(<<x>>, y)
      BY <1>6, <2>7, <2>9, <3>1, <3>2
    <3> QED BY <3>2, <3>3, Appended1
  <2> QED BY <2>5, <2>6, <2>7, <2>9 DEF CollectInv
<1> QED BY <1>1, <1>3, <1>4, <1>5, <1>6 DEF CollectInv

\* Of the steps of the device.
LEMMA CollectGoesOn ==
  ASSUME CoreInv, scene' = scene, CollectInv, DeviceStep
  PROVE  CollectInv'
<1>1. /\ UNCHANGED <<todo, seen, selected, polled, promised>> /\ selected \in Contexts
      /\ \A c \in Contexts : good'[c] \subseteq good[c] /\ (RunsOn(c)' => RunsOn(c))
  BY DeviceKeeps DEF CoreInv, CipherTyped
<1>2. /\ "result" \in good'[selected] => "result" \in good[selected]
      /\ "verdict" \in good'[selected] => "verdict" \in good[selected]
  BY <1>1
<1>3. (Verdict' = "wrong" <=> Verdict = "wrong") /\ (Wrong(selected)' <=> Wrong(selected))
  BY <1>1 DEF Verdict, Wrong
<1>4. RunsOn(selected)' => RunsOn(selected)
  <2>1. RunsOn(selected)' <=> core_busy' /\ active' = selected
    BY <1>1 DEF RunsOn
  <2>2. PICK c \in Contexts : c = selected
    BY <1>1
  <2>3. RunsOn(c)' => RunsOn(c)
    BY <1>1
  <2> QED BY <1>1, <2>2, <2>3 DEF RunsOn
<1>5. Polled => Polled'
  BY <1>1, <1>2, <1>3, <1>4 DEF Polled
<1> QED BY <1>1, <1>2, <1>5 DEF CollectInv, Collects

\* What the functions are that prepare and start runs.
OnlyPrepares(t) == IsSequence(t) /\ \A i \in 1 .. Len(t) : Prepares(t[i])

\* One access.
LEMMA OnePrepares == ASSUME NEW a, Prepares(a) PROVE OnlyPrepares(<<a>>)
<1>1. PICK s : s = <<a>>
  OBVIOUS
<1>2. s \in Seq({a}) /\ Len(s) = 1 /\ s[1] = a
  BY <1>1
<1>3. \A i \in 1 .. Len(s) : s[i] = a
  BY <1>2
<1>4. OnlyPrepares(s)
  BY <1>2, <1>3 DEF OnlyPrepares, IsSequence
<1> QED BY <1>1, <1>4

\* Two sequences, one after the other.
LEMMA Joined ==
  ASSUME NEW s, NEW t, IsSequence(s), IsSequence(t)
  PROVE  \E u : /\ u = s \o t /\ IsSequence(u) /\ Len(s) \in Nat /\ Len(t) \in Nat
                /\ Len(u) = Len(s) + Len(t)
                /\ \A i \in 1 .. Len(s) : u[i] = s[i]
                /\ \A i \in 1 .. Len(t) : u[Len(s) + i] = t[i]
                /\ \A i \in 1 .. Len(u) : i \in 1 .. Len(s) \/ \E j \in 1 .. Len(t) : i = Len(s) + j
<1>1. PICK S : s \in Seq(S)
  BY DEF IsSequence
<1>2. PICK T : t \in Seq(T)
  BY DEF IsSequence
<1>3. PICK U : U = S \cup T
  OBVIOUS
<1>4. s \in Seq(U) /\ t \in Seq(U)
  BY <1>1, <1>2, <1>3, SeqMonotonic
<1>5. PICK u : u = s \o t
  OBVIOUS
<1>6. /\ u \in Seq(U) /\ Len(u) = Len(s) + Len(t) /\ Len(s) \in Nat /\ Len(t) \in Nat
      /\ \A i \in 1 .. Len(s) + Len(t) : u[i] = IF i <= Len(s) THEN s[i] ELSE t[i - Len(s)]
  BY <1>4, <1>5, ConcatProperties, LenProperties
<1>7. PICK m, n : m = Len(s) /\ n = Len(t) /\ m \in Nat /\ n \in Nat
  BY <1>6
<1>8. \A i \in 1 .. m : u[i] = s[i]
  BY <1>6, <1>7
<1>9. ASSUME NEW i \in 1 .. n PROVE u[m + i] = t[i]
  <2>1. m + i \in 1 .. m + n /\ ~(m + i <= m) /\ (m + i) - m = i
    BY <1>7
  <2> QED BY <1>6, <1>7, <2>1
<1>10. ASSUME NEW i \in 1 .. m + n PROVE i \in 1 .. m \/ \E j \in 1 .. n : i = m + j
  <2>1. CASE i <= m
    BY <1>7, <2>1
  <2>2. CASE ~(i <= m)
    <3>1. i - m \in 1 .. n /\ i = m + (i - m)
      BY <1>7, <2>2
    <3> QED BY <3>1
  <2> QED BY <2>1, <2>2
<1>11. /\ u = s \o t /\ IsSequence(u) /\ Len(s) \in Nat /\ Len(t) \in Nat /\ Len(u) = Len(s) + Len(t)
  BY <1>5, <1>6 DEF IsSequence
<1>12. /\ \A i \in 1 .. Len(s) : u[i] = s[i]
       /\ \A i \in 1 .. Len(t) : u[Len(s) + i] = t[i]
       /\ \A i \in 1 .. Len(u) : i \in 1 .. Len(s) \/ \E j \in 1 .. Len(t) : i = Len(s) + j
  BY <1>6, <1>7, <1>8, <1>9, <1>10
<1> QED BY <1>11, <1>12

\* Two functions, one after the other.
LEMMA BothPrepare ==
  ASSUME NEW s, NEW t, OnlyPrepares(s), OnlyPrepares(t)
  PROVE  OnlyPrepares(s \o t)
<1>1. IsSequence(s) /\ IsSequence(t)
  BY DEF OnlyPrepares
<1>2. PICK u : /\ u = s \o t /\ IsSequence(u) /\ Len(s) \in Nat /\ Len(t) \in Nat
               /\ Len(u) = Len(s) + Len(t)
               /\ \A i \in 1 .. Len(s) : u[i] = s[i]
               /\ \A i \in 1 .. Len(t) : u[Len(s) + i] = t[i]
               /\ \A i \in 1 .. Len(u) : i \in 1 .. Len(s) \/ \E j \in 1 .. Len(t) : i = Len(s) + j
  BY <1>1, Joined
<1>3. ASSUME NEW i \in 1 .. Len(u) PROVE Prepares(u[i])
  <2>1. CASE i \in 1 .. Len(s)
    BY <1>2, <2>1 DEF OnlyPrepares
  <2>2. CASE \E j \in 1 .. Len(t) : i = Len(s) + j
    <3>1. PICK j \in 1 .. Len(t) : i = Len(s) + j
      BY <2>2
    <3>2. u[i] = t[j] /\ Prepares(t[j])
      BY <1>2, <3>1 DEF OnlyPrepares
    <3> QED BY <3>2
  <2> QED BY <1>2, <2>1, <2>2
<1>4. OnlyPrepares(u)
  BY <1>2, <1>3 DEF OnlyPrepares
<1> QED BY <1>2, <1>4

\* What prepares a job does not start it.
LEMMA PreparesNoStart == ASSUME NEW a, Prepares(a) PROVE a # DmaStart
<1>1. "SOFT_RST" # "CORE_START"
  OBVIOUS
<1>2. {"CORE_START", "DMA_EN"} # {"SOFT_RST"}
  BY <1>1
<1>3. PICK d : d = DmaStart /\ d[1] = "write" /\ d[2] = "CTRL" /\ d[3] = {"CORE_START", "DMA_EN"}
  <2>1. PICK x, d : x = {"CORE_START", "DMA_EN"} /\ d = <<"write", "CTRL", x>> /\ d = DmaStart
    BY DEF DmaStart, W
  <2> QED BY <2>1
<1>4. SUFFICES ASSUME a = d PROVE FALSE
  BY <1>3
<1>5. a[2] \notin Inputs /\ \A r \in JobRegs \cup {"CONTEXT_SEL", "PTEXT_0", "PT_MULTI"} : \A v : a # W(r, v)
  BY <1>3, <1>4 DEF Inputs, JobRegs, W
<1>6. a # W("CTRL", {"SOFT_RST"})
  <2>1. W("CTRL", {"SOFT_RST"})[3] = {"SOFT_RST"}
    BY DEF W
  <2> QED BY <1>2, <1>3, <1>4, <2>1
<1> QED BY <1>5, <1>6 DEF Prepares

\* A function that only prepares.
LEMMA PreparingStarts == ASSUME NEW t, OnlyPrepares(t) PROVE StartsRuns(t)
BY PreparesNoStart DEF OnlyPrepares, StartsRuns, MayStart

\* A start of the core.
LEMMA StartFollows ==
  ASSUME NEW t, OnlyPrepares(t), scene = "ascon"
  PROVE  StartsRuns(t \o ascon_core_start)
<1>1. PICK a, s : a = W("CTRL", {"CORE_START"}) /\ s = <<a>> /\ s = ascon_core_start
  BY DEF ascon_core_start
<1>2. s \in Seq({a}) /\ Len(s) = 1 /\ s[1] = a
  BY <1>1
<1>3. IsSequence(s) /\ IsSequence(t) /\ MayStart(a) /\ a # DmaStart
  <2>1. "DMA_EN" # "CORE_START"
    OBVIOUS
  <2>2. {"CORE_START"} # {"CORE_START", "DMA_EN"}
    BY <2>1
  <2>3. a[3] = {"CORE_START"} /\ DmaStart[3] = {"CORE_START", "DMA_EN"}
    BY <1>1 DEF W, DmaStart
  <2>4. MayStart(a)
    BY <1>1 DEF MayStart
  <2> QED BY <1>2, <2>2, <2>3, <2>4 DEF OnlyPrepares, IsSequence
<1>4. PICK u : /\ u = t \o s /\ IsSequence(u) /\ Len(t) \in Nat /\ Len(s) \in Nat
               /\ Len(u) = Len(t) + Len(s)
               /\ \A i \in 1 .. Len(t) : u[i] = t[i]
               /\ \A i \in 1 .. Len(s) : u[Len(t) + i] = s[i]
               /\ \A i \in 1 .. Len(u) : i \in 1 .. Len(t) \/ \E j \in 1 .. Len(s) : i = Len(t) + j
  BY <1>3, Joined
<1>5. ASSUME NEW i \in 1 .. Len(u) PROVE MayStart(u[i]) /\ u[i] # DmaStart
  <2>1. CASE i \in 1 .. Len(t)
    BY <1>4, <2>1, PreparesNoStart DEF OnlyPrepares, MayStart
  <2>2. CASE \E j \in 1 .. Len(s) : i = Len(t) + j
    <3>1. PICK j \in 1 .. Len(s) : i = Len(t) + j
      BY <2>2
    <3>2. u[i] = s[j] /\ j = 1
      BY <1>2, <1>4, <3>1
    <3> QED BY <1>2, <1>3, <3>2
  <2> QED BY <1>4, <2>1, <2>2
<1> QED BY <1>1, <1>4, <1>5 DEF StartsRuns

\* A job of the DMA.
Configures(p) == \A r \in JobRegs : \E j \in 1 .. Len(p) : p[j] = W(r, Job[r])
LEMMA JobFollows ==
  ASSUME NEW p, OnlyPrepares(p), Configures(p)
  PROVE  \E t : /\ t = p \o ascon_dma_start \o ascon_wait_dma_done /\ StartsRuns(t)
                /\ \E i \in 1 .. Len(t) : t[i] = DmaStart
<1>1. PICK a, s, b, w : /\ a = DmaStart /\ s = <<a>> /\ s = ascon_dma_start
                        /\ b = DmaWait /\ w = <<b>> /\ w = ascon_wait_dma_done
  BY DEF ascon_dma_start, DmaStart, ascon_wait_dma_done, DmaWait
<1>2. /\ s \in Seq({a}) /\ Len(s) = 1 /\ s[1] = a
      /\ w \in Seq({b}) /\ Len(w) = 1 /\ w[1] = b
  BY <1>1
<1>3. IsSequence(s) /\ IsSequence(w) /\ IsSequence(p)
  BY <1>2 DEF OnlyPrepares, IsSequence
<1>4. MayStart(a) /\ MayStart(b)
  BY <1>1 DEF MayStart
<1>5. b # DmaStart
  BY <1>1 DEF DmaWait, DmaStart, W, Until
<1>6. PICK q : /\ q = p \o s /\ IsSequence(q) /\ Len(p) \in Nat /\ Len(s) \in Nat
               /\ Len(q) = Len(p) + Len(s)
               /\ \A i \in 1 .. Len(p) : q[i] = p[i]
               /\ \A i \in 1 .. Len(s) : q[Len(p) + i] = s[i]
               /\ \A i \in 1 .. Len(q) : i \in 1 .. Len(p) \/ \E j \in 1 .. Len(s) : i = Len(p) + j
  BY <1>3, Joined
<1>7. PICK t : /\ t = q \o w /\ IsSequence(t) /\ Len(q) \in Nat /\ Len(w) \in Nat
               /\ Len(t) = Len(q) + Len(w)
               /\ \A i \in 1 .. Len(q) : t[i] = q[i]
               /\ \A i \in 1 .. Len(w) : t[Len(q) + i] = w[i]
               /\ \A i \in 1 .. Len(t) : i \in 1 .. Len(q) \/ \E j \in 1 .. Len(w) : i = Len(q) + j
  <2>1. IsSequence(q) /\ IsSequence(w)
    BY <1>3, <1>6
  <2> QED BY <2>1, Joined
<1>8. PICK n : n = Len(p) /\ n \in Nat
  BY <1>6
<1>9. /\ Len(t) = n + 2 /\ \A i \in 1 .. n : t[i] = p[i]
      /\ t[n + 1] = a /\ t[n + 2] = b
  <2>1. Len(q) = n + 1 /\ Len(t) = n + 2
    BY <1>2, <1>6, <1>7, <1>8
  <2>2. \A i \in 1 .. n : t[i] = p[i]
    BY <1>6, <1>7, <1>8, <2>1
  <2>3. q[n + 1] = a
    <3>1. PICK k : k = 1 /\ k \in 1 .. Len(s) /\ s[k] = a
      BY <1>2
    <3> QED BY <1>6, <1>8, <3>1
  <2>4. t[n + 1] = a
    <3>1. n + 1 \in 1 .. Len(q)
      BY <1>8, <2>1
    <3> QED BY <1>7, <2>3, <3>1
  <2>5. t[n + 2] = b
    <3>1. PICK k : k = 1 /\ k \in 1 .. Len(w) /\ w[k] = b
      BY <1>2
    <3>2. t[Len(q) + k] = b
      BY <1>7, <3>1
    <3>3. Len(q) + k = n + 2
      BY <1>8, <2>1, <3>1
    <3> QED BY <3>2, <3>3
  <2> QED BY <2>1, <2>2, <2>4, <2>5
<1>10. ASSUME NEW i \in 1 .. Len(t)
       PROVE  /\ MayStart(t[i])
              /\ t[i] = DmaStart => /\ Len(t) = i + 1 /\ t[i + 1] = DmaWait
                                    /\ \A r \in JobRegs : IsSet(t, i, r)
  <2>1. CASE i \in 1 .. n
    <3>1. t[i] = p[i] /\ Prepares(p[i])
      BY <1>8, <1>9, <2>1 DEF OnlyPrepares
    <3> QED BY <3>1, PreparesNoStart DEF MayStart
  <2>2. CASE i = n + 1
    <3>1. t[i] = a /\ t[i + 1] = b /\ Len(t) = i + 1 /\ i - 1 = n
      BY <1>8, <1>9, <2>2
    <3>2. ASSUME NEW r \in JobRegs PROVE IsSet(t, i, r)
      <4>1. PICK j \in 1 .. n : p[j] = W(r, Job[r])
        BY <1>8 DEF Configures
      <4>2. j \in 1 .. i - 1 /\ t[j] = W(r, Job[r])
        BY <1>9, <3>1, <4>1
      <4> QED BY <4>2 DEF IsSet
    <3> QED BY <1>1, <1>4, <3>1, <3>2
  <2>3. CASE i = n + 2
    BY <1>4, <1>5, <1>9, <2>3
  <2> QED BY <1>8, <1>9, <2>1, <2>2, <2>3
<1>11. StartsRuns(t)
  BY <1>7, <1>10 DEF StartsRuns
<1>12. n + 1 \in 1 .. Len(t) /\ t[n + 1] = DmaStart
  BY <1>1, <1>8, <1>9
<1> QED BY <1>1, <1>6, <1>7, <1>11, <1>12

\* The accesses of a collect, one by one.
LEMMA Appended3 == ASSUME NEW a, NEW b, NEW c, NEW d PROVE Append(<<a, b, c>>, d) = <<a, b, c, d>>
<1> DEFINE S == {a, b, c, d}
<1>1. <<a, b, c>> \in Seq(S) /\ <<a, b, c, d>> \in Seq(S) /\ d \in S
  OBVIOUS
<1>2. PICK t : /\ t = Append(<<a, b, c>>, d) /\ t \in Seq(S) /\ Len(t) = 4
              /\ t[1] = a /\ t[2] = b /\ t[3] = c /\ t[4] = d
  <2>1. Append(<<a, b, c>>, d) \in Seq(S) /\ Len(Append(<<a, b, c>>, d)) = 4
    BY <1>1, AppendProperties
  <2>2. /\ Append(<<a, b, c>>, d)[1] = a /\ Append(<<a, b, c>>, d)[2] = b
        /\ Append(<<a, b, c>>, d)[3] = c /\ Append(<<a, b, c>>, d)[4] = d
    BY <1>1, AppendProperties
  <2>3. PICK t : t = Append(<<a, b, c>>, d)
    OBVIOUS
  <2> QED BY <2>1, <2>2, <2>3
<1>3. PICK u \in Seq(S) : u = <<a, b, c, d>> /\ Len(u) = 4 /\ u[1] = a /\ u[2] = b /\ u[3] = c /\ u[4] = d
  BY <1>1
<1>4. t \in Seq(S) /\ Len(t) = Len(u) /\ \A i \in 1 .. Len(t) : t[i] = u[i]
  BY <1>2, <1>3
<1>5. t = u
  <2> HIDE DEF S
  <2> QED BY <1>4, SeqEqual
<1> QED BY <1>2, <1>3, <1>5

\* What ascon_wait_core_done_check_tag and the reads of the outputs are.
LEMMA CollectIs ==
  ASSUME NEW c
  PROVE  ascon_select_context(c) \o ascon_wait_core_done_check_tag \o ascon_get_ctext \o ascon_get_tag
           = <<W("CONTEXT_SEL", c), Until("STATUS", {"CORE_DONE"}), R("CTEXT"), R("TAG")>>
<1>1. PICK x, y, z, w : /\ x = W("CONTEXT_SEL", c) /\ y = Until("STATUS", {"CORE_DONE"})
                        /\ z = R("CTEXT") /\ w = R("TAG")
  OBVIOUS
<1>2. PICK S : S = {x, y, z, w}
  OBVIOUS
<1>3. /\ <<x>> \in Seq(S) /\ <<x, y>> \in Seq(S) /\ <<x, y, z>> \in Seq(S)
      /\ y \in S /\ z \in S /\ w \in S
  BY <1>2
<1>4. <<x>> \o <<y>> = <<x, y>>
  BY <1>3, AppendIsConcat, Appended1
<1>5. <<x, y>> \o <<z>> = <<x, y, z>>
  BY <1>3, AppendIsConcat, Appended2
<1>6. <<x, y, z>> \o <<w>> = <<x, y, z, w>>
  BY <1>3, AppendIsConcat, Appended3
<1>7. /\ ascon_select_context(c) = <<x>> /\ ascon_wait_core_done_check_tag = <<y>>
      /\ ascon_get_ctext = <<z>> /\ ascon_get_tag = <<w>>
  BY <1>1 DEF ascon_select_context, ascon_wait_core_done_check_tag, ascon_wait_core_done, ascon_get_ctext,
              ascon_get_tag
<1> QED BY <1>1, <1>4, <1>5, <1>6, <1>7

\* The inputs of a run.
LEMMA LoadPrepares ==
  ASSUME scene = "ascon", NEW c \in Contexts, NEW mode, NEW job, NEW t,
         NEW ad, OnlyPrepares(ad)
  PROVE  OnlyPrepares(Load(c, mode, job, ad, t))
<1>1. OnlyPrepares(ascon_select_context(c))
  <2>1. Prepares(W("CONTEXT_SEL", c))
    BY DEF Prepares
  <2> QED BY <2>1, OnePrepares DEF ascon_select_context
<1>2. ASSUME NEW r \in Inputs, NEW v PROVE OnlyPrepares(<<W(r, v)>>)
  <2>1. W(r, v)[1] = "write" /\ W(r, v)[2] = r
    BY DEF W
  <2>2. Prepares(W(r, v))
    BY <2>1 DEF Prepares
  <2> QED BY <2>2, OnePrepares
<1>3. /\ OnlyPrepares(ascon_set_mode(mode)) /\ OnlyPrepares(ascon_set_key(job))
      /\ OnlyPrepares(ascon_set_nonce(job)) /\ OnlyPrepares(ascon_set_ptext(job))
      /\ OnlyPrepares(ascon_set_tag_in(t))
  BY <1>2 DEF Inputs, ascon_set_mode, ascon_set_key, ascon_set_nonce, ascon_set_ptext, ascon_set_tag_in
<1>4. OnlyPrepares(ascon_select_context(c) \o ascon_set_mode(mode))
  BY <1>1, <1>3, BothPrepare
<1>5. OnlyPrepares(ascon_select_context(c) \o ascon_set_mode(mode) \o ascon_set_key(job))
  BY <1>3, <1>4, BothPrepare
<1>6. OnlyPrepares(ascon_select_context(c) \o ascon_set_mode(mode) \o ascon_set_key(job) \o ascon_set_nonce(job))
  BY <1>3, <1>5, BothPrepare
<1>7. PICK u : u = ascon_select_context(c) \o ascon_set_mode(mode) \o ascon_set_key(job) \o ascon_set_nonce(job)
  OBVIOUS
<1>8. OnlyPrepares(u \o ascon_set_ptext(job))
  BY <1>3, <1>6, <1>7, BothPrepare
<1>9. OnlyPrepares(u \o ascon_set_ptext(job) \o ad)
  BY <1>8, BothPrepare
<1>10. OnlyPrepares(u \o ascon_set_ptext(job) \o ad \o ascon_set_tag_in(t))
  BY <1>3, <1>9, BothPrepare
<1> QED BY <1>7, <1>10 DEF Load

\* The registers of the DMA.
LEMMA ConfigFollows ==
  ASSUME NEW p, OnlyPrepares(p)
  PROVE  \E q : /\ q = p \o ascon_dma_config(Job["DMA_SRC"], Job["DMA_DST"], Job["DMA_LEN"])
                /\ OnlyPrepares(q) /\ Configures(q)
<1>1. PICK x, y, z : /\ x = W("DMA_SRC", Job["DMA_SRC"]) /\ y = W("DMA_DST", Job["DMA_DST"])
                     /\ z = W("DMA_LEN", Job["DMA_LEN"])
  OBVIOUS
<1>2. PICK s : s = <<x, y, z>> /\ s = ascon_dma_config(Job["DMA_SRC"], Job["DMA_DST"], Job["DMA_LEN"])
  BY <1>1 DEF ascon_dma_config
<1>3. s \in Seq({x, y, z}) /\ Len(s) = 3 /\ s[1] = x /\ s[2] = y /\ s[3] = z
  BY <1>2
<1>4. Prepares(x) /\ Prepares(y) /\ Prepares(z)
  BY <1>1 DEF Prepares, JobRegs
<1>5. \A i \in 1 .. Len(s) : s[i] \in {x, y, z}
  BY <1>3
<1>6. OnlyPrepares(s)
  BY <1>3, <1>4, <1>5 DEF OnlyPrepares, IsSequence
<1>7. IsSequence(p) /\ IsSequence(s)
  BY <1>6 DEF OnlyPrepares
<1>8. PICK q : /\ q = p \o s /\ IsSequence(q) /\ Len(p) \in Nat /\ Len(s) \in Nat
               /\ Len(q) = Len(p) + Len(s)
               /\ \A i \in 1 .. Len(p) : q[i] = p[i]
               /\ \A i \in 1 .. Len(s) : q[Len(p) + i] = s[i]
               /\ \A i \in 1 .. Len(q) : i \in 1 .. Len(p) \/ \E j \in 1 .. Len(s) : i = Len(p) + j
  BY <1>7, Joined
<1>9. OnlyPrepares(q)
  BY <1>6, <1>8, BothPrepare
<1>10. ASSUME NEW r \in JobRegs PROVE \E j \in 1 .. Len(q) : q[j] = W(r, Job[r])
  <2>1. PICK k \in 1 .. Len(s) : s[k] = W(r, Job[r])
    <3>1. W(r, Job[r]) \in {x, y, z}
      BY <1>1, <1>10 DEF JobRegs
    <3>2. 1 \in 1 .. Len(s) /\ 2 \in 1 .. Len(s) /\ 3 \in 1 .. Len(s)
      BY <1>3
    <3> QED BY <1>3, <3>1, <3>2
  <2>2. Len(p) + k \in 1 .. Len(q)
    BY <1>8
  <2> QED BY <1>8, <2>1, <2>2
<1>11. Configures(q)
  BY <1>10 DEF Configures
<1> QED BY <1>2, <1>8, <1>9, <1>11

\* The calls of the scene "ascon".
LEMMA AsconCalls ==
  ASSUME scene = "ascon"
  PROVE  /\ \A f \in {Encrypt(0), Decrypt(1), Forged(1)} : StartsRuns(f \o ascon_core_start)
         /\ StartsRuns(Encrypt(1)) /\ StartsRuns(ascon_soft_reset) /\ StartsRuns(DmaJob)
<1>1. OnlyPrepares(ascon_clear_ad) /\ \A v : OnlyPrepares(ascon_set_ad(v))
  <2>1. \A v : Prepares(W("AD", v))
    BY DEF Prepares, Inputs, W
  <2> QED BY <2>1, OnePrepares DEF ascon_clear_ad, ascon_set_ad
<1>2. 0 \in Contexts /\ 1 \in Contexts
  BY DEF Contexts
<1>3. OnlyPrepares(Encrypt(0)) /\ OnlyPrepares(Encrypt(1))
  BY <1>1, <1>2, LoadPrepares DEF Encrypt
<1>4. OnlyPrepares(Decrypt(1)) /\ OnlyPrepares(Forged(1))
  BY <1>1, <1>2, LoadPrepares DEF Decrypt, Forged
<1>5. OnlyPrepares(ascon_soft_reset)
  <2>1. Prepares(W("CTRL", {"SOFT_RST"}))
    BY DEF Prepares
  <2> QED BY <2>1, OnePrepares DEF ascon_soft_reset
<1>6. OnlyPrepares(<<W("PTEXT_0", 4)>>)
  <2>1. Prepares(W("PTEXT_0", 4))
    BY DEF Prepares
  <2> QED BY <2>1, OnePrepares
<1>7. StartsRuns(DmaJob)
  <2>1. PICK p : p = Encrypt(0) \o <<W("PTEXT_0", 4)>> /\ OnlyPrepares(p)
    BY <1>3, <1>6, BothPrepare
  <2>2. Job["DMA_SRC"] = Base("PTEXT_0") /\ Job["DMA_DST"] = Base("CTEXT_0") /\ Job["DMA_LEN"] = 8
    BY DEF Job
  <2>3. PICK q : /\ q = p \o ascon_dma_config(Job["DMA_SRC"], Job["DMA_DST"], Job["DMA_LEN"])
                 /\ OnlyPrepares(q) /\ Configures(q)
    BY <2>1, ConfigFollows
  <2>4. OnlyPrepares(q) /\ Configures(q)
    BY <2>3
  <2>5. PICK t : t = q \o ascon_dma_start \o ascon_wait_dma_done /\ StartsRuns(t)
    BY <2>4, JobFollows
  <2>6. q = Encrypt(0) \o <<W("PTEXT_0", 4)>> \o ascon_dma_config(Base("PTEXT_0"), Base("CTEXT_0"), 8)
    BY <2>1, <2>2, <2>3
  <2>7. t = DmaJob
    BY <2>5, <2>6 DEF DmaJob
  <2> QED BY <2>5, <2>7
<1> QED BY <1>3, <1>4, <1>5, <1>7, StartFollows, PreparingStarts

\* The program main.
LEMMA MainStarts ==
  ASSUME scene = "main"
  PROVE  StartsRuns(main) /\ \E i \in 1 .. Len(main) : main[i] = DmaStart
<1>1. ASSUME NEW r \in Inputs, NEW v PROVE OnlyPrepares(<<W(r, v)>>)
  <2>1. W(r, v)[1] = "write" /\ W(r, v)[2] = r
    BY DEF W
  <2>2. Prepares(W(r, v))
    BY <2>1 DEF Prepares
  <2> QED BY <2>2, OnePrepares
<1>2. /\ OnlyPrepares(ascon_set_mode(Enc)) /\ OnlyPrepares(ascon_set_key(5)) /\ OnlyPrepares(ascon_set_nonce(5))
  BY <1>1 DEF Inputs, ascon_set_mode, ascon_set_key, ascon_set_nonce
<1>3. OnlyPrepares(ascon_soft_reset) /\ OnlyPrepares(<<W("PT_MULTI", 5)>>)
  <2>1. Prepares(W("CTRL", {"SOFT_RST"})) /\ Prepares(W("PT_MULTI", 5))
    BY DEF Prepares
  <2> QED BY <2>1, OnePrepares DEF ascon_soft_reset
<1>4. PICK p1 : p1 = <<W("PT_MULTI", 5)>> \o ascon_soft_reset /\ OnlyPrepares(p1)
  BY <1>3, BothPrepare
<1>5. PICK p2 : p2 = p1 \o ascon_set_mode(Enc) /\ OnlyPrepares(p2)
  BY <1>2, <1>4, BothPrepare
<1>6. PICK p3 : p3 = p2 \o ascon_set_key(5) /\ OnlyPrepares(p3)
  BY <1>2, <1>5, BothPrepare
<1>7. PICK p4 : p4 = p3 \o ascon_set_nonce(5) /\ OnlyPrepares(p4)
  BY <1>2, <1>6, BothPrepare
<1>8. /\ PT_MULTI_BASE = Job["DMA_SRC"] /\ CT_MULTI_BASE = Job["DMA_DST"]
      /\ DMEM_MULTI_PT_LEN = Job["DMA_LEN"]
  BY DEF Job
<1>9. PICK q : /\ q = p4 \o ascon_dma_config(Job["DMA_SRC"], Job["DMA_DST"], Job["DMA_LEN"])
               /\ OnlyPrepares(q) /\ Configures(q)
  BY <1>7, ConfigFollows
<1>10. PICK t : /\ t = q \o ascon_dma_start \o ascon_wait_dma_done /\ StartsRuns(t)
                /\ \E i \in 1 .. Len(t) : t[i] = DmaStart
  BY <1>9, JobFollows
<1>11. t = main
  BY <1>4, <1>5, <1>6, <1>7, <1>8, <1>9, <1>10 DEF main
<1> QED BY <1>10, <1>11

\* The steps of the program leave the core and its DMA alone.
LEMMA ProgramKeepsCore ==
  ASSUME CoreInv, scene' = scene, Thread', UNCHANGED <<asconCore, asconDma, promised, good>>,
         dmaEn /\ core_busy /\ "result" \in good[active] => JobWaits'
  PROVE  /\ CoreInv' /\ mem'["RETCODE"] = mem["RETCODE"] /\ selected' = selected
         /\ UNCHANGED <<dmaRegs, good, active, core, sticky, landing, wrFifo, dmaBusy, promised, mem>>
<1>1. /\ UNCHANGED <<selected, active, bank, ctext, tag, core, sticky, promised, good>>
      /\ UNCHANGED <<dmaEn, dmaBusy, dmaRegs, wrFifo, landing, mem>>
  BY DEF asconCore, asconDma
<1>2. /\ dmaEn' \in BOOLEAN /\ selected' \in Contexts /\ bank' = [c \in Contexts |-> bank'[c]]
      /\ \A c \in Contexts : bank'[c] = [r \in Inputs |-> bank'[c][r]]
      /\ good' = [c \in Contexts |-> good'[c]] /\ dmaRegs' = [r \in JobRegs |-> dmaRegs'[r]]
  BY <1>1 DEF CoreInv, CipherTyped
<1>3. \A a \in {"g_stream", "PTEXT_0", "PT_MULTI", "guard"} : mem'[a] # Torn
  BY <1>1 DEF CoreInv, JobInv
<1>4. dmaEn /\ core_busy /\ "result" \in good'[active] =>
        dmaRegs' = dmaRegs /\ mem'[At(dmaRegs["DMA_SRC"])] = mem[At(dmaRegs["DMA_SRC"])] /\ JobWaits'
  BY <1>1
<1>5. CoreInv'
  BY <1>1, <1>2, <1>3, <1>4, CoreKept
<1> QED BY <1>1, <1>5

\* While no function runs, or a collect does, no job of the DMA is waited for.
LEMMA NoJobRuns ==
  ASSUME CoreInv, scene = "ascon", dmaEn, core_busy, "result" \in good[active]
  PROVE  todo = <<DmaWait>>
<1>1. Running(active)
  BY DEF CoreInv, CipherTyped, RunsInv, ResultOf, RunsOn
<1> QED BY <1>1 DEF Running, JobWaits

\* The steps of the scene "ascon".
LEMMA RunsThreadStep ==
  ASSUME CoreInv, scene = "ascon", scene' = scene, RunsThread, AsconNext
  PROVE  CoreInv' /\ RunsThread'
<1>1. mem["RETCODE"] = "none" /\ Thread /\ selected \in Contexts
  BY DEF RunsThread, CoreInv, CipherTyped
<1>2. CASE AsconAccess
  <2>1. call' = call /\ todo # <<>>
    BY <1>1, <1>2, AccessOf
  <2>2. CASE call = "other" /\ StartsRuns(todo)
    <3>1. CoreInv' /\ StartsRuns(todo)' /\ mem'["RETCODE"] = mem["RETCODE"]
      BY <1>2, <2>2, RunsAccess
    <3> QED BY <1>1, <2>1, <2>2, <3>1 DEF RunsThread
  <2>3. CASE call = "collect" /\ CollectInv
    <3>1. CoreInv' /\ CollectInv' /\ mem'["RETCODE"] = mem["RETCODE"]
      BY <1>2, <2>3, CollectAccess
    <3> QED BY <1>1, <2>1, <2>3, <3>1 DEF RunsThread
  <2> QED BY <2>1, <2>2, <2>3 DEF RunsThread
<1>3. CASE DeviceStep
  <2>1. CoreInv' /\ mem'["RETCODE"] = mem["RETCODE"] /\ UNCHANGED <<call, todo, dmaRegs>>
    BY <1>3, DeviceKeeps
  <2>2. PICK t : t = todo
    OBVIOUS
  <2>3. StartsRuns(todo) => StartsRuns(todo)'
    <3>1. StartsRuns(t) => StartsRuns(t)'
      BY <2>1, StartsStay
    <3> QED BY <2>1, <2>2, <3>1 DEF StartsRuns, IsSequence, MayStart, Prepares, IsSet
  <2>4. CollectInv => CollectInv'
    BY <1>3, CollectGoesOn
  <2> QED BY <1>1, <2>1, <2>3, <2>4 DEF RunsThread
<1>4. ASSUME UNCHANGED <<asconCore, asconDma, promised, good, isr>>, todo = <<>>
      PROVE  /\ CoreInv' /\ mem'["RETCODE"] = "none" /\ UNCHANGED dmaRegs
  <2>1. todo # <<DmaWait>>
    BY <1>4
  <2>2. Thread' /\ ~(dmaEn /\ core_busy /\ "result" \in good[active])
    BY <1>1, <1>4, <2>1, NoJobRuns DEF Thread
  <2> QED BY <1>1, <1>4, <2>2, ProgramKeepsCore
<1>5. CASE AsconCall
  <2>1. PICK name, f : /\ Begin(name, f) /\ UNCHANGED asconVars
                       /\ \/ name = "other" /\ StartsRuns(f)
                          \/ /\ name = "collect"
                             /\ \E c \in Contexts : f = <<W("CONTEXT_SEL", c), Until("STATUS", {"CORE_DONE"}),
                                                          R("CTEXT"), R("TAG")>>
    BY <1>5, AsconCalls, CollectIs DEF AsconCall
  <2>2. /\ call = "none" /\ call' = name /\ todo' = f /\ seen' = <<>> /\ isr' = isr
        /\ UNCHANGED <<asconCore, asconDma, promised, good>>
    BY <2>1 DEF Begin, handler, asconVars
  <2>3. todo = <<>>
    BY <2>2 DEF RunsThread
  <2>4. CoreInv' /\ mem'["RETCODE"] = "none" /\ UNCHANGED dmaRegs
    BY <1>4, <2>2, <2>3
  <2>5. StartsRuns(f) => StartsRuns(todo)'
    <3>1. StartsRuns(f) => StartsRuns(f)'
      BY <2>4, StartsStay
    <3> QED BY <2>2, <3>1 DEF StartsRuns, IsSequence, MayStart, Prepares, IsSet
  <2> QED BY <2>1, <2>2, <2>4, <2>5 DEF RunsThread, CollectInv
<1>6. CASE AsconReturn
  <2>1. call # "main"
    BY DEF RunsThread
  <2>2. /\ todo = <<>> /\ todo' = <<>> /\ call' = "none" /\ isr' = isr
        /\ UNCHANGED <<asconCore, asconDma, promised, good>>
    BY <1>6, <2>1 DEF AsconReturn, GoesOn, Return, handler, asconVars
  <2>3. CoreInv' /\ mem'["RETCODE"] = "none"
    BY <1>4, <2>2
  <2> QED BY <2>2, <2>3 DEF RunsThread
<1>7. ~TimesOut
  BY DEF RunsThread, TimesOut
<1> QED BY <1>2, <1>3, <1>5, <1>6, <1>7 DEF AsconNext, DeviceStep, CoreStep

\* The steps of main.
LEMMA MainStep ==
  ASSUME CoreInv, scene = "main", scene' = scene, MainThread, AsconNext
  PROVE  CoreInv' /\ MainThread'
<1>1. /\ call = "main" /\ selected = 0 /\ Delivered /\ Thread
      /\ MainPrepares \/ MainWaits \/ MainPolled \/ MainWrites \/ MainEnds
  BY MainIs DEF CoreInv, CipherTyped
<1>2. CASE AsconAccess
  <2>1. todo # <<>>
    BY <1>1, <1>2, AccessOf
  <2>2. ~MainPolled /\ ~MainEnds
    BY <2>1 DEF MainPolled, MainEnds
  <2> QED BY <1>1, <1>2, <2>2, MainPreparing, MainWaiting
<1>3. CASE DeviceStep
  <2>1. /\ CoreInv' /\ mem'["RETCODE"] = mem["RETCODE"] /\ ~Untouched
        /\ UNCHANGED <<call, todo, selected, polled>>
    BY <1>3, DeviceKeeps
  <2>2. Delivered' /\ (Settled => Settled')
    BY <1>1, <1>3, JobIsDelivered
  <2>3. MainWaits => MainWaits'
    BY <2>1 DEF MainWaits, DmaWait
  <2>4. MainPolled => MainPolled'
    BY <2>1, <2>2 DEF MainPolled
  <2>5. MainWrites => MainWrites'
    BY <2>1, <2>2 DEF MainWrites
  <2>6. MainEnds => MainEnds'
    BY <2>1, <2>2 DEF MainEnds
  <2>7. ~MainPrepares
    BY <2>1 DEF MainPrepares
  <2>8. MainWaits' \/ MainPolled' \/ MainWrites' \/ MainEnds'
    BY <1>1, <2>3, <2>4, <2>5, <2>6, <2>7
  <2> QED BY <1>1, <2>1, <2>2, <2>8 DEF MainThread, MainWaits, MainPolled, MainWrites, MainEnds
<1>4. ASSUME NEW x \in {"0", "-1", "-2"}, todo' = <<W("RETCODE", x)>>, x = "0" => Settled,
             mem["RETCODE"] = "none", UNCHANGED <<call, isr, asconCore, asconDma, promised, good>>
      PROVE  CoreInv' /\ MainThread'
  <2>1. JobWaits'
    BY <1>4 DEF JobWaits
  <2>2. Thread'
    BY <1>1, <1>4 DEF Thread
  <2>3. /\ CoreInv' /\ mem'["RETCODE"] = mem["RETCODE"] /\ selected' = selected
        /\ UNCHANGED <<good, active, core, sticky, landing, wrFifo, dmaBusy, promised, mem>>
    BY <1>4, <2>1, <2>2, ProgramKeepsCore
  <2>4. Delivered' /\ (Settled => Settled')
    BY <1>1, <2>3, SameJob
  <2>5. MainWrites'
    BY <1>4, <2>3, <2>4 DEF MainWrites
  <2> QED BY <1>1, <1>4, <2>3, <2>4, <2>5 DEF MainThread, MainWrites
<1>5. ~AsconCall
  BY <1>1 DEF AsconCall, Begin
<1>6. CASE AsconReturn
  <2>1. /\ todo = <<>> /\ mem["RETCODE"] = "none" /\ Continue(<<W("RETCODE", retcode)>>)
        /\ UNCHANGED asconVars
    BY <1>1, <1>6 DEF AsconReturn, GoesOn
  <2>2. PICK x : x = retcode
    OBVIOUS
  <2>3. MainPolled
    <3>1. ~MainWaits /\ ~MainWrites /\ ~MainEnds
      BY <2>1 DEF MainWaits, MainWrites, MainEnds
    <3>2. ~MainPrepares
      BY <2>1 DEF MainPrepares
    <3> QED BY <1>1, <3>1, <3>2
  <2>4. x \in {"0", "-1", "-2"} /\ (x = "0" => Settled)
    BY <2>2, <2>3 DEF retcode, MainPolled
  <2>5. /\ todo' = <<W("RETCODE", x)>> /\ UNCHANGED <<call, isr>>
        /\ UNCHANGED <<asconCore, asconDma, promised, good>>
    BY <2>1, <2>2 DEF Continue, handler, asconVars
  <2> QED BY <1>4, <2>1, <2>4, <2>5
<1>7. CASE TimesOut
  <2>1. /\ Len(todo) = 1 /\ todo' = <<W("RETCODE", "-2")>> /\ UNCHANGED <<call, isr>>
        /\ UNCHANGED <<asconCore, asconDma, promised, good>>
    BY <1>7 DEF TimesOut, Continue, handler
  <2>2. ~MainPrepares
    <3>1. SUFFICES ASSUME MainPrepares PROVE FALSE
      OBVIOUS
    <3>2. PICK t, n : t = todo /\ n = Len(t) /\ n = 1
      BY <2>1
    <3>3. PICK i \in 1 .. n : t[i] = DmaStart
      BY <3>1, <3>2 DEF MainPrepares
    <3>4. n = i + 1
      BY <3>1, <3>2, <3>3 DEF MainPrepares, StartsRuns
    <3> QED BY <3>2, <3>3, <3>4
  <2>3. todo # <<>> /\ mem["RETCODE"] = "none"
    <3>1. todo # <<>>
      BY <2>1
    <3> QED BY <1>1, <2>2, <3>1 DEF MainWaits, MainPolled, MainWrites, MainEnds
  <2>4. PICK x \in {"0", "-1", "-2"} : x = "-2"
    OBVIOUS
  <2> QED BY <1>4, <2>1, <2>3, <2>4
<1> QED BY <1>2, <1>3, <1>5, <1>6, <1>7 DEF AsconNext, DeviceStep, CoreStep

\* In the other scenes the core rests.
CipherRest ==
  /\ good = [c \in Contexts |-> {}] /\ selected \in Contexts /\ mem["RETCODE"] = "none"
  /\ \A a \in {"g_stream", "PTEXT_0", "PT_MULTI", "guard"} : mem[a] # Torn
CiphersInv == IF scene \in {"ascon", "main"} THEN CipherInv ELSE CipherRest

\* The invariant implies the property.
LEMMA CiphersInvIsEnough == CiphersInv => VerdictIsOurs
<1> SUFFICES ASSUME CiphersInv PROVE VerdictIsOurs
  OBVIOUS
<1>1. CASE scene \notin {"ascon", "main"}
  <2>1. good[selected] = {} /\ mem["RETCODE"] # "0"
    BY <1>1 DEF CiphersInv, CipherRest
  <2> QED BY <1>1, <2>1 DEF CiphersInv, CipherRest, VerdictIsOurs, ResultIsOurs, MemoryIsOurs
<1>2. CASE scene = "ascon"
  <2>1. RunsThread /\ \A a \in {"g_stream", "PTEXT_0", "PT_MULTI", "guard"} : mem[a] # Torn
    BY <1>2 DEF CiphersInv, CipherInv, CoreInv, JobInv
  <2>2. MemoryIsOurs
    BY <2>1 DEF RunsThread, MemoryIsOurs
  <2>3. ASSUME call = "collect", todo = <<>>
        PROVE  /\ Polled
               /\ "result" \in good[selected] => seen = <<CtextOf(promised[selected]), TagOf(promised[selected])>>
    BY <2>1, <2>3 DEF RunsThread, CollectInv, Collects
  <2> QED BY <2>2, <2>3 DEF VerdictIsOurs, ResultIsOurs, Polled, Wrong
<1>3. CASE scene = "main"
  <2>1. MainThread /\ \A a \in {"g_stream", "PTEXT_0", "PT_MULTI", "guard"} : mem[a] # Torn
    BY <1>3 DEF CiphersInv, CipherInv, CoreInv, JobInv
  <2>2. ResultIsOurs
    BY <2>1 DEF MainThread, ResultIsOurs
  <2>3. ASSUME mem["RETCODE"] = "0", "memory" \in good[0], landing = <<>>
        PROVE  mem["CT_MULTI"] = <<CtextOf(promised[0]), TagOf(promised[0])>>
    <3>1. Settled /\ Delivered
      BY <2>1, <2>3 DEF MainThread
    <3> QED BY <2>3, <3>1 DEF Settled, Delivered, Both
  <2> QED BY <2>1, <2>2, <2>3 DEF VerdictIsOurs, MemoryIsOurs
<1> QED BY <1>1, <1>2, <1>3

\* It holds at the start.
LEMMA CiphersStart == Init => CiphersInv
<1> SUFFICES ASSUME Init PROVE CiphersInv
  OBVIOUS
<1>1. PICK blank : blank = [r \in Inputs |-> None]
  OBVIOUS
<1>2. /\ selected = 0 /\ active = 0 /\ bank = [c \in Contexts |-> blank] /\ promised = bank
      /\ ctext = [c \in Contexts |-> CtextOf(blank)] /\ core.phase = "idle" /\ sticky = {}
      /\ dmaEn = FALSE /\ dmaBusy = FALSE /\ wrFifo = <<>> /\ landing = <<>>
      /\ dmaRegs = [r \in {"DMA_SRC", "DMA_DST", "DMA_LEN"} |-> None]
      /\ mem = [a \in Areas |-> IF a = "RETCODE" THEN "none" ELSE None]
      /\ good = [c \in Contexts |-> {}]
  BY <1>1 DEF Init, AsconInit
<1>3. /\ call = IF scene = "main" THEN "main" ELSE "start"
      /\ todo = StartOf(scene) /\ seen = <<>> /\ Thread
  BY DEF Init, HartInit, Thread
<1>4. mem["RETCODE"] = "none" /\ \A a \in {"g_stream", "PTEXT_0", "PT_MULTI", "guard"} : mem[a] # Torn
  BY <1>2, Layout DEF None, Torn
<1>5. CipherRest
  BY <1>2, <1>4 DEF CipherRest, Contexts
<1>6. CipherTyped
  BY <1>1, <1>2, <1>3 DEF CipherTyped, Contexts, JobRegs
<1>7. CoreInv
  <2>1. RunsInv
    BY <1>2 DEF RunsInv, ResultOf, VerdictOf
  <2> QED BY <1>2, <1>4, <1>6, <2>1 DEF CoreInv, JobInv
<1>8. CASE scene = "ascon"
  <2>1. call = "start" /\ todo = <<>>
    BY <1>3, <1>8 DEF StartOf, Idle
  <2> QED BY <1>4, <1>7, <1>8, <2>1 DEF CiphersInv, CipherInv, RunsThread
<1>9. CASE scene = "main"
  <2>1. call = "main" /\ todo = main
    BY <1>3, <1>9 DEF StartOf
  <2>2. PICK t : t = main /\ StartsRuns(t) /\ \E i \in 1 .. Len(t) : t[i] = DmaStart
    BY <1>9, MainStarts
  <2>3. StartsRuns(todo) /\ \E i \in 1 .. Len(todo) : todo[i] = DmaStart
    BY <2>1, <2>2
  <2>4. Untouched
    BY <1>2 DEF Untouched, core_busy
  <2>5. Delivered
    BY <2>4 DEF Untouched, Delivered, Contexts
  <2>6. MainPrepares
    BY <1>4, <2>3, <2>4 DEF MainPrepares
  <2>7. MainThread
    BY <1>2, <2>1, <2>5, <2>6, MainIs
  <2> QED BY <1>7, <1>9, <2>7 DEF CiphersInv, CipherInv
<1> QED BY <1>5, <1>8, <1>9 DEF CiphersInv

\* Every step keeps it.
LEMMA CiphersGoOn == CiphersInv /\ [Next]_vars => CiphersInv'
<1> SUFFICES ASSUME CiphersInv, [Next]_vars PROVE CiphersInv'
  OBVIOUS
<1>1. CASE Ascon
  <2>1. scene \in {"ascon", "main"} /\ scene' = scene /\ AsconNext /\ CipherInv
    BY <1>1 DEF Ascon, CiphersInv
  <2>2. CASE scene = "ascon"
    BY <2>1, <2>2, RunsThreadStep DEF CiphersInv, CipherInv
  <2>3. CASE scene = "main"
    BY <2>1, <2>3, MainStep DEF CiphersInv, CipherInv
  <2> QED BY <2>1, <2>2, <2>3
<1>2. CASE scene \notin {"ascon", "main"} /\ UNCHANGED <<scene, asconVars>>
  BY <1>2 DEF CiphersInv, CipherRest, asconVars, asconCore, asconDma
<1>3. CASE UNCHANGED vars
  <2>1. UNCHANGED <<scene, call, todo, seen, isr, asconVars>>
    BY <1>3 DEF vars, hart, thread, handler, devices
  <2>2. /\ UNCHANGED <<selected, active, bank, ctext, tag, core, sticky, polled, promised, good>>
        /\ UNCHANGED <<dmaEn, dmaBusy, pump, dmaRegs, wrFifo, landing, mem>>
    BY <2>1 DEF asconVars, asconCore, asconDma
  <2>3. CASE scene \in {"ascon", "main"}
    <3>1. CoreInv /\ (scene = "ascon" => RunsThread) /\ (scene = "main" => MainThread)
      BY <2>3 DEF CiphersInv, CipherInv
    <3>2. JobWaits => JobWaits'
      BY <2>1 DEF JobWaits
    <3>3. CoreInv'
      <4>1. dmaEn /\ core_busy /\ "result" \in good[active] => JobWaits
        BY <3>1 DEF CoreInv, CipherTyped, RunsInv, ResultOf, RunsOn, Running
      <4>2. Thread'
        BY <2>1, <3>1 DEF CoreInv, CipherTyped, Thread
      <4> QED BY <2>1, <2>2, <3>1, <3>2, <4>1, <4>2, ProgramKeepsCore DEF asconCore, asconDma
    <3>4. StartsRuns(todo) => StartsRuns(todo)'
      <4>1. PICK t : t = todo
        OBVIOUS
      <4>2. StartsRuns(t) => StartsRuns(t)'
        BY <2>1, <2>2, StartsStay
      <4> QED BY <2>1, <4>1, <4>2 DEF StartsRuns, IsSequence, MayStart, Prepares, IsSet
    <3>5. RunsThread => RunsThread'
      <4>1. Polled => Polled'
        BY <2>2, PolledStays
      <4>2. CollectInv => CollectInv'
        BY <2>1, <2>2, <4>1 DEF CollectInv, Collects
      <4> QED BY <2>1, <2>2, <3>4, <4>2 DEF RunsThread
    <3>6. MainThread => MainThread'
      <4>1. Delivered => Delivered' /\ (Settled => Settled')
        BY <2>2, SameJob
      <4>2. Untouched => Untouched'
        BY <2>2 DEF Untouched, core_busy
      <4> QED BY <2>1, <2>2, <3>4, <4>1, <4>2 DEF MainThread, DmaStart, DmaWait
    <3> QED BY <2>1, <2>3, <3>1, <3>3, <3>5, <3>6 DEF CiphersInv, CipherInv
  <2>4. CASE scene \notin {"ascon", "main"}
    BY <1>2, <2>1, <2>4
  <2> QED BY <2>3, <2>4
<1> QED BY <1>1, <1>2, <1>3 DEF Next, Clint, Perf, Timer, Uart, Spi, Irq

\* A run that starts clean and that nobody disturbs leaves in its context the
\* text, the tag and the verdict of the inputs it was started with
\* (ascon.h:284-296, 340-349), and main.c stores 0 only over its text and tag,
\* for every depth of the write FIFO and every number of calls.
THEOREM VerdictsAreOurs == Spec => []VerdictIsOurs
<1> QED BY CiphersInvIsEnough, CiphersStart, CiphersGoOn, PTL DEF Spec
================================================================================
