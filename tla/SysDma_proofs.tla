---------------------------- MODULE SysDma_proofs ----------------------------
(***************************************************************************)
(* What SysDma proves for every number of channels, length of burst and    *)
(* program: that its bursts are not mixed, that every state has its types, *)
(* that what the driver tells the program of a job is so, and that a job   *)
(* writes no further than the burst its tail is taken for.                 *)
(*                                                                         *)
(* The last three come from one induction, DmaInv.  It follows a job from  *)
(* the writes the thread has still to make (ConfigInv), through the pulse  *)
(* that starts it (BeginInv) and the words it has moved and has left       *)
(* (RunInv), to the flags and the answer that tell its end (FlagsInv,      *)
(* ToldInv).                                                               *)
(***************************************************************************)
EXTENDS SysDma, SequenceTheorems, WellFoundedInduction, TLAPS

(***************************************************************************)
(* Arbitration.  The AXI master is multiplexed by the grants alone, so     *)
(* what has to hold is that a channel inside a burst owns the bus it uses. *)
(* A grant is held until the release pulse of its owner, which comes one   *)
(* cycle after the burst has ended; the induction therefore says where a   *)
(* channel may be while its pulse is high.                                 *)
(***************************************************************************)

\* A channel in a burst owns the bus and has not released it; one whose
\* release pulse is high has left the burst, and has not begun the next.
ReadInv ==
  \A c \in Channels : /\ st[c] = "WAIT_RD" => rdOwner = c /\ ~rdRel[c]
                      /\ rdRel[c] => st[c] = "FETCH_WR"
WriteInv ==
  \A c \in Channels : /\ st[c] = "WAIT_WR" => wrOwner = c /\ ~wrRel[c]
                      /\ wrRel[c] => st[c] \in {"P_WAIT", "FETCH_RD", "DONE", "ERROR"}

LEMMA NobodyIsNoChannel == ASSUME NEW c \in Channels PROVE c # Nobody
BY SysDmaConstants DEF Channels, Nobody

\* The arbiter does not take the bus from an owner that has not released it.
LEMMA OwnerStays ==
  ASSUME NEW c \in Channels, NEW reqs, NEW rel, NEW last, ~rel[c]
  PROVE  NextOwner(reqs, rel, c, last) = c
BY NobodyIsNoChannel DEF NextOwner

LEMMA BusesAreFree == Init => ReadInv /\ WriteInv
BY DEF Init, ReadInv, WriteInv

\* A cycle keeps the read side: WAIT_RD is entered from FETCH_RD with the
\* grant, when no release is pending, and left by the pulse.
LEMMA ReadCycleStep ==
  ASSUME ReadInv, NEW rd, NEW wr, ChannelCycle(rd, wr), ArbiterCycle
  PROVE  ReadInv'
<1> SUFFICES ASSUME NEW c \in Channels
             PROVE  /\ (st[c] = "WAIT_RD")' => (rdOwner = c /\ ~rdRel[c])'
                    /\ rdRel'[c] => st'[c] = "FETCH_WR"
  BY DEF ReadInv
<1>1. st'[c] = NextState(c, rd, wr) /\ rdRel'[c] = ReadEnds(c, rd)
  BY DEF ChannelCycle
<1>2. rdOwner' = NextOwner(RdReqs, rdRel, rdOwner, rdLast)
  BY DEF ArbiterCycle
<1>3. ASSUME st'[c] = "WAIT_RD" PROVE rdOwner' = c /\ ~rdRel'[c]
  <2>1. Reads(c) \/ (st[c] = "WAIT_RD" /\ ~ReadEnds(c, rd))
    BY <1>1, <1>3 DEF NextState, Starts, Reads, ReadEnds, Writes, WriteEnds
  <2>2. rdOwner = c /\ ~rdRel[c]
    BY <2>1 DEF ReadInv, Reads, RdGrant
  <2>3. rdOwner' = c
    BY <1>2, <2>2, OwnerStays
  <2>4. ~ReadEnds(c, rd)
    BY <2>1 DEF Reads, ReadEnds
  <2> QED BY <1>1, <2>3, <2>4
<1>4. ASSUME rdRel'[c] PROVE st'[c] = "FETCH_WR"
  <2>1. ReadEnds(c, rd)
    BY <1>1, <1>4, Zenon
  <2> QED BY <1>1, <2>1 DEF NextState, Starts, Reads, ReadEnds, Writes, WriteEnds
<1> QED BY <1>3, <1>4

\* The same of the write side; the pulse comes in the state after the burst.
LEMMA WriteCycleStep ==
  ASSUME WriteInv, NEW rd, NEW wr, ChannelCycle(rd, wr), ArbiterCycle
  PROVE  WriteInv'
<1> SUFFICES ASSUME NEW c \in Channels
             PROVE  /\ (st[c] = "WAIT_WR")' => (wrOwner = c /\ ~wrRel[c])'
                    /\ wrRel'[c] => st'[c] \in {"P_WAIT", "FETCH_RD", "DONE", "ERROR"}
  BY DEF WriteInv
<1>1. st'[c] = NextState(c, rd, wr) /\ wrRel'[c] = WriteEnds(c, wr)
  BY DEF ChannelCycle
<1>2. wrOwner' = NextOwner(WrReqs, wrRel, wrOwner, wrLast)
  BY DEF ArbiterCycle
<1>3. ASSUME st'[c] = "WAIT_WR" PROVE wrOwner' = c /\ ~wrRel'[c]
  <2>1. Writes(c) \/ (st[c] = "WAIT_WR" /\ ~WriteEnds(c, wr))
    BY <1>1, <1>3 DEF NextState, Starts, Reads, ReadEnds, Writes, WriteEnds
  <2>2. wrOwner = c /\ ~wrRel[c]
    BY <2>1 DEF WriteInv, Writes, WrGrant
  <2>3. wrOwner' = c
    BY <1>2, <2>2, OwnerStays
  <2>4. ~WriteEnds(c, wr)
    BY <2>1 DEF Writes, WriteEnds
  <2> QED BY <1>1, <2>3, <2>4
<1>4. ASSUME wrRel'[c] PROVE st'[c] \in {"P_WAIT", "FETCH_RD", "DONE", "ERROR"}
  BY <1>1, <1>4 DEF NextState, Starts, Reads, ReadEnds, Writes, WriteEnds
<1> QED BY <1>3, <1>4

\* Every step is a cycle of the clock, or the program's own and leaves the
\* controller alone.
LEMMA StepsOfTheController ==
  ASSUME [Next]_vars
  PROVE  \/ UNCHANGED <<channels, arbiters>>
         \/ /\ ArbiterCycle
            /\ \E rd \in RdAnswers, wr \in WrAnswers : ChannelCycle(rd, wr)
<1>1. ASSUME Computes PROVE UNCHANGED <<channels, arbiters>>
  <2>1. ASSUME NEW kind, NEW jobs, NEW writes, NEW polled, Call(kind, jobs, writes, polled)
        PROVE  UNCHANGED <<channels, arbiters>>
    BY <2>1 DEF Call, device
  <2>2. ASSUME NEW c, NEW s, NEW n, CallMemcpy(c, s, n) PROVE UNCHANGED <<channels, arbiters>>
    BY <2>1, <2>2 DEF CallMemcpy
  <2>3. ASSUME NEW c, NEW d, NEW s, NEW n, NEW m, CallPair(c, d, s, n, m)
        PROVE  UNCHANGED <<channels, arbiters>>
    BY <2>1, <2>3 DEF CallPair
  <2>4. ASSUME NEW c, NEW s, NEW n, NEW mode, CallBackground(c, s, n, mode)
        PROVE  UNCHANGED <<channels, arbiters>>
    BY <2>1, <2>4 DEF CallBackground
  <2>5. ASSUME NEW c, CallDisable(c) PROVE UNCHANGED <<channels, arbiters>>
    BY <2>1, <2>5 DEF CallDisable
  <2>6. ASSUME NEW looksAt, WaitReturns \/ CallReturns \/ TakeInterrupt(looksAt)
        PROVE  UNCHANGED <<channels, arbiters>>
    BY <2>6 DEF WaitReturns, CallReturns, TakeInterrupt, device
  <2>7. CASE \E c \in Channels, d \in Channels, s \in Sources, p \in Pairs : CallPair(c, d, s, p[1], p[2])
    BY <2>3, <2>7
  <2>8. CASE \E c \in Channels, s \in Sources, j \in Jobs : CallBackground(c, s, j[2], j[1])
    BY <2>4, <2>8
  <2>9. CASE \E c \in Channels, s \in Sources, n \in Copies : CallMemcpy(c, s, n)
    BY <2>2, <2>9
  <2>10. CASE \E c \in Channels : CallDisable(c)
    BY <2>5, <2>10
  <2>11. CASE WaitReturns \/ CallReturns \/ \E looksAt \in {irqEn, Channels} : TakeInterrupt(looksAt)
    BY <2>6, <2>11
  <2> QED BY <1>1, <2>7, <2>8, <2>9, <2>10, <2>11 DEF Computes
<1>2. ASSUME NEW w, Clocked(w)
      PROVE  ArbiterCycle /\ \E rd \in RdAnswers, wr \in WrAnswers : ChannelCycle(rd, wr)
  BY <1>2 DEF Clocked, Cycle
<1>3. ASSUME ThreadWrites \/ HandlerWrites \/ NobodyWrites
      PROVE  ArbiterCycle /\ \E rd \in RdAnswers, wr \in WrAnswers : ChannelCycle(rd, wr)
  BY <1>2, <1>3 DEF ThreadWrites, HandlerWrites, NobodyWrites
<1> QED BY <1>1, <1>3 DEF Next, vars

\* However the program configures, starts and disables its channels and
\* whatever the memory answers, a channel is in a read or a write only while
\* it owns that side of the AXI master, so that no two bursts are mixed
\* (dma_ctrl.v:338-340, dma_arbiter.v).
THEOREM BurstsAreNotMixed == Spec => []OneReaderOneWriter
<1>1. ReadInv /\ WriteInv /\ [Next]_vars => ReadInv' /\ WriteInv'
  <2> SUFFICES ASSUME ReadInv, WriteInv, [Next]_vars PROVE ReadInv' /\ WriteInv'
    OBVIOUS
  <2>1. CASE UNCHANGED <<channels, arbiters>>
    BY <2>1 DEF channels, arbiters, ReadInv, WriteInv
  <2>2. CASE ArbiterCycle /\ \E rd \in RdAnswers, wr \in WrAnswers : ChannelCycle(rd, wr)
    BY <2>2, ReadCycleStep, WriteCycleStep
  <2> QED BY <2>1, <2>2, StepsOfTheController
<1>2. ReadInv /\ WriteInv => OneReaderOneWriter
  BY DEF ReadInv, WriteInv, OneReaderOneWriter
<1> QED BY BusesAreFree, <1>1, <1>2, PTL DEF Spec

(***************************************************************************)
(* The invariant of a job.                                                 *)
(***************************************************************************)
\* What a write is to channel c, and what the registers of c are to hold.
IsStart(w, c) == w[1] = "ctrl" /\ w[2] = c /\ w[4]
Sets(w, c)    == w[1] \in {"src", "dst", "len", "ctrl"} /\ w[2] = c
SrcOf(c)      == IF job[c].mode = "rx" THEN "port" ELSE job[c].src
DstOf(c)      == IF job[c].mode = "tx" THEN "port" ELSE "buffer"
Clears(w, c)  == w[1] = "status" /\ c \in w[2] /\ c \in w[3]

\* The writes the thread has left for a channel: none, the end of its
\* configuration with the start, or those that disable it.
Pending(c)    == \E i \in 1 .. Len(todo) : IsStart(todo[i], c)

\* A configuration write comes before the start of its channel, which finds
\* each register set, or a write ahead of it that will set it.
Kinds             == {"src", "dst", "len"}
Value(kind, c)    == [src |-> SrcOf(c), dst |-> DstOf(c), len |-> job[c].len][kind]
Register(kind, c) == [src |-> rSrc[c], dst |-> rDst[c], len |-> rLen[c]][kind]
Setting(kind, c)  == <<kind, c, Value(kind, c)>>
ConfigInv ==
  \A c \in Channels, i \in 1 .. Len(todo) :
    /\ Sets(todo[i], c) => Pending(c) \/ todo[i] = Ctrl(c, FALSE, FALSE, "mem")
    /\ IsStart(todo[i], c) =>
         /\ todo[i] = Ctrl(c, TRUE, TRUE, job[c].mode)
         /\ \A kind \in Kinds : \/ Register(kind, c) = Value(kind, c)
                               \/ \E j \in 1 .. i - 1 : todo[j] = Setting(kind, c)
         /\ \A j \in 1 .. Len(todo) : Sets(todo[j], c) =>
              j <= i /\ (j < i => \E kind \in Kinds : todo[j] = Setting(kind, c))
\* Between its calls the program has nothing left to do.
CallInv == call = "none" => todo = <<>> /\ awaited = {}

JobsInv ==
  \A c \in Channels : /\ job[c].len \in 0 .. BufLen
                      /\ (job[c].mode = "rx" => c = 0) /\ (job[c].mode = "tx" => c = 1)

\* A job that has not begun.
Fresh(c) ==
  /\ st[c] = "IDLE" /\ ~errPulse[c] /\ result[c] = "none"
  /\ job[c].src \in Sources /\ ~job[c].rdErr /\ ~job[c].wrErr /\ mem[c] = Blank
  /\ (job[c].mode = "rx" => taken = 0) /\ (job[c].mode = "tx" => sent = <<>>)
BeginInv ==
  \A c \in Channels :
    /\ Pending(c) => Fresh(c) /\ ~startPulse[c]
    /\ startPulse[c] =>
         /\ Fresh(c) /\ ~Pending(c) /\ rEn[c]
         /\ rSrc[c] = SrcOf(c) /\ rDst[c] = DstOf(c) /\ rLen[c] = job[c].len /\ rMode[c] = job[c].mode

\* A job under way, which has written as many words as Place says.
Bursting   == {"WAIT_RD", "FETCH_WR", "WAIT_WR"}
Loaded     == {"FETCH_WR", "WAIT_WR"}
Place(c)   == IF job[c].mode = "tx" THEN sPos[c] ELSE dPos[c]
Latches(c) ==
  /\ job[c].src \in Sources
  /\ jSrc[c] = SrcOf(c) /\ jDst[c] = DstOf(c) /\ jMode[c] = job[c].mode /\ rDst[c] = DstOf(c)
  /\ job[c].mode = "mem" => sPos[c] = dPos[c]
Moved(c) ==
  IF job[c].mode = "tx"
  THEN /\ mem[c] = Blank /\ Len(sent) = sPos[c]
       /\ ~job[c].rdErr => \A i \in 1 .. sPos[c] : sent[i] = Asked(c, i)
  ELSE /\ \A i \in Positions : i > dPos[c] => mem[c][i] = <<"old", 0>>
       /\ ~job[c].rdErr => \A i \in Positions : i <= dPos[c] => mem[c][i] = Asked(c, i)
ToMove(c) ==
  /\ left[c] >= 1 /\ Place(c) + left[c] = job[c].len
  /\ job[c].mode = "mem" => left[c] % (BurstLen + 1) = job[c].len % (BurstLen + 1)
  /\ job[c].mode = "rx" => taken = IF st[c] \in Loaded THEN dPos[c] + 1 ELSE dPos[c]
InHand(c) ==
  /\ st[c] \in Bursting => burst[c] = next_burst_len(c)
  /\ st[c] \in Loaded =>
       /\ Len(buf[c]) = burst[c]
       /\ ~job[c].rdErr => \A i \in 1 .. burst[c] : buf[c][i] = Asked(c, Place(c) + i)
InBurst(c) ==
  \A i \in Positions :
    LET tail == job[c].len % (BurstLen + 1)
    IN  i > job[c].len /\ mem[c][i] # <<"old", 0>> =>
          /\ job[c].mode = "mem" /\ 4 * tail >= BurstLen + 4
          /\ i <= job[c].len - tail + BurstLen + 1
Good(c) == ~job[c].wrErr /\ (job[c].rdErr \/ Copied(c))
RunInv ==
  \A c \in Channels :
    /\ InBurst(c)
    /\ errPulse[c] => st[c] = "ERROR"
    /\ donePulse[c] => st[c] = "IDLE"
    /\ st[c] # "IDLE" =>
         /\ ~startPulse[c] /\ ~Pending(c) /\ result[c] = "none" /\ Latches(c)
         /\ st[c] = "DONE" => Good(c)
         /\ st[c] = "ERROR" => job[c].wrErr
         /\ st[c] \notin {"DONE", "ERROR"} => ~job[c].wrErr /\ Moved(c) /\ ToMove(c) /\ InHand(c)

\* What the program may learn of a job.
Quiet(c)   == ~donePulse[c] /\ ~stDone[c] /\ ~stErr[c]
Calm(c)    == ~donePulse[c] /\ ~irqSt[c]
Resting(c) == st[c] = "IDLE" /\ ~startPulse[c] /\ ~Pending(c)
FlagsInv ==
  /\ \A c \in awaited :
       IF Pending(c) THEN Quiet(c) \/ Clears(todo[1], c)
       ELSE IF Resting(c) THEN (donePulse[c] \/ stDone[c] => Good(c)) /\ (stErr[c] => job[c].wrErr)
       ELSE Quiet(c)
  /\ \A c \in background :
       IF Pending(c) THEN Calm(c) \/ (c \notin irqEn /\ todo[1] = IrqStatus(Channels))
       ELSE IF Resting(c) THEN donePulse[c] \/ irqSt[c] => job[c].wrErr \/ job[c].rdErr \/ Copied(c)
       ELSE Calm(c)
ToldInv ==
  \A c \in Channels : result[c] # "none" =>
    /\ Resting(c)
    /\ result[c] = "err" => job[c].wrErr
    /\ result[c] = "ok" => ~job[c].wrErr
    /\ result[c] \in {"ok", "served"} /\ ~job[c].rdErr /\ ~job[c].wrErr => Copied(c)

-----------------------------------------------------------------------------
LEMMA WithoutOneMore ==
  ASSUME NEW d \in Nat \ {0}, NEW n \in Nat, n >= d
  PROVE  (n - d) % d = n % d
<1> DEFINE q == n \div d
           r == n % d
           s == (n - d) \div d
           t == (n - d) % d
<1>1. q \in Nat /\ r \in 0 .. d - 1 /\ n = d * q + r
  OBVIOUS
<1>2. s \in Nat /\ t \in 0 .. d - 1 /\ n - d = d * s + t
  OBVIOUS
<1> HIDE DEF q, r, s, t
<1>3. PICK k \in Int : k = q - 1 - s
  BY <1>1, <1>2
<1>4. d * k = t - r
  BY <1>1, <1>2, <1>3
<1>5. ~(k >= 1) /\ ~(k <= -1)
  BY <1>1, <1>2, <1>4
<1>6. t = r
  BY <1>1, <1>2, <1>3, <1>4, <1>5
<1> QED BY <1>6 DEF r, t

\* A cycle changes of a job only what went wrong with it.
LEMMA JobMoves ==
  ASSUME TypeOK, NEW w, NEW rd, NEW wr, NEW receives, NEW sends, Cycle(w, rd, wr, receives, sends),
         NEW c \in Channels
  PROVE  /\ job'[c].src = job[c].src /\ job'[c].len = job[c].len /\ job'[c].mode = job[c].mode
         /\ job'[c].rdErr <=> job[c].rdErr \/ (rd = "err" /\ ReadEnds(c, rd))
         /\ job'[c].wrErr <=> job[c].wrErr \/ (wr = "err" /\ WriteEnds(c, wr))
         /\ SrcOf(c)' = SrcOf(c) /\ DstOf(c)' = DstOf(c) /\ \A i : Asked(c, i)' = Asked(c, i)
<1>1. job[c] \in [src : Sources \cup {"unset"}, len : Nat, mode : Modes, rdErr : BOOLEAN, wrErr : BOOLEAN]
  BY DEF TypeOK
<1>2. job'[c] = [job[c] EXCEPT !.rdErr = @ \/ (rd = "err" /\ ReadEnds(c, rd)),
                               !.wrErr = @ \/ (wr = "err" /\ WriteEnds(c, wr))]
  BY DEF Cycle
<1>3. /\ job'[c].src = job[c].src /\ job'[c].len = job[c].len /\ job'[c].mode = job[c].mode
      /\ job'[c].rdErr = (job[c].rdErr \/ (rd = "err" /\ ReadEnds(c, rd)))
      /\ job'[c].wrErr = (job[c].wrErr \/ (wr = "err" /\ WriteEnds(c, wr)))
  BY <1>1, <1>2
<1> QED BY <1>3 DEF SrcOf, DstOf, Asked

(***************************************************************************)
(* The writes of the thread.  A cycle lands the first of them, or a write  *)
(* that configures nothing.                                                *)
(***************************************************************************)
Lands(w) == \/ todo # <<>> /\ w = Head(todo) /\ todo' = Tail(todo)
            \/ todo' = todo /\ w[1] \in {"status", "irqStatus", "none"}

LEMMA TodoMoves ==
  ASSUME TypeOK, NEW w, Lands(w)
  PROVE  /\ todo' \in Seq(RegisterWrites)
         /\ \/ /\ Len(todo) >= 1 /\ w = todo[1] /\ Len(todo') = Len(todo) - 1
               /\ \A i \in 1 .. Len(todo') : todo'[i] = todo[i + 1]
            \/ todo' = todo /\ w[1] \in {"status", "irqStatus", "none"}
<1>1. todo \in Seq(RegisterWrites)
  BY DEF TypeOK
<1>2. CASE todo # <<>> /\ w = Head(todo) /\ todo' = Tail(todo)
  <2>1. Len(todo) >= 1 /\ Head(todo) = todo[1]
    BY <1>1, <1>2
  <2>2. /\ Tail(todo) \in Seq(RegisterWrites) /\ Len(Tail(todo)) = Len(todo) - 1
        /\ \A i \in 1 .. Len(Tail(todo)) : Tail(todo)[i] = todo[i + 1]
    BY <1>1, <1>2, HeadTailProperties
  <2> QED BY <1>2, <2>1, <2>2
<1>3. CASE todo' = todo /\ w[1] \in {"status", "irqStatus", "none"}
  BY <1>1, <1>3
<1> QED BY <1>2, <1>3 DEF Lands

LEMMA PendingMoves ==
  ASSUME TypeOK, ConfigInv, NEW w, Lands(w), NEW c \in Channels
  PROVE  /\ Pending(c)' <=> Pending(c) /\ ~IsStart(w, c)
         /\ IsStart(w, c) => Pending(c)
         /\ Sets(w, c) => Pending(c) \/ w = Ctrl(c, FALSE, FALSE, "mem")
<1>1. Len(todo) \in Nat /\ Len(todo') \in Nat
  <2>1. todo' \in Seq(RegisterWrites)
    BY TodoMoves
  <2>2. todo \in Seq(RegisterWrites)
    BY DEF TypeOK
  <2> QED BY <2>1, <2>2
<1>2. CASE /\ Len(todo) >= 1 /\ w = todo[1] /\ Len(todo') = Len(todo) - 1
           /\ \A i \in 1 .. Len(todo') : todo'[i] = todo[i + 1]
  <2>1. 1 \in 1 .. Len(todo)
    BY <1>1, <1>2
  <2>2. IsStart(w, c) => Pending(c)
    BY <1>2, <2>1 DEF Pending
  <2>3. Sets(w, c) => Pending(c) \/ w = Ctrl(c, FALSE, FALSE, "mem")
    BY <1>2, <2>1 DEF ConfigInv
  <2>4. ASSUME Pending(c)' PROVE Pending(c) /\ ~IsStart(w, c)
    <3>1. PICK i \in 1 .. Len(todo') : IsStart(todo'[i], c)
      BY <2>4 DEF Pending
    <3>2. i + 1 \in 1 .. Len(todo) /\ IsStart(todo[i + 1], c) /\ ~(i + 1 <= 1)
      BY <1>1, <1>2, <3>1
    <3>3. Pending(c) /\ Sets(todo[i + 1], c)
      BY <3>2 DEF Pending, IsStart, Sets
    <3>4. ASSUME IsStart(w, c) PROVE FALSE
      BY <1>2, <2>1, <3>2, <3>3, <3>4 DEF ConfigInv
    <3> QED BY <3>3, <3>4
  <2>5. ASSUME Pending(c), ~IsStart(w, c) PROVE Pending(c)'
    <3>1. PICK i \in 1 .. Len(todo) : IsStart(todo[i], c)
      BY <2>5 DEF Pending
    <3>2. i # 1
      BY <1>2, <2>5, <3>1
    <3>3. i - 1 \in 1 .. Len(todo') /\ todo'[i - 1] = todo[(i - 1) + 1] /\ (i - 1) + 1 = i
      BY <1>1, <1>2, <3>1, <3>2
    <3> QED BY <3>1, <3>3 DEF Pending
  <2> QED BY <2>2, <2>3, <2>4, <2>5
<1>3. CASE todo' = todo /\ w[1] \in {"status", "irqStatus", "none"}
  BY <1>3 DEF Pending, IsStart, Sets
<1> QED BY <1>2, <1>3, TodoMoves


LEMMA ConfigStep ==
  ASSUME TypeOK, ConfigInv, NEW w, Lands(w), RegisterCycle(w),
         \A c \in Channels : /\ job'[c].mode = job[c].mode /\ job'[c].len = job[c].len
                             /\ SrcOf(c)' = SrcOf(c) /\ DstOf(c)' = DstOf(c)
  PROVE  ConfigInv'
<1>0. Len(todo) \in Nat /\ Len(todo') \in Nat
  <2>1. todo' \in Seq(RegisterWrites)
    BY TodoMoves
  <2>2. todo \in Seq(RegisterWrites)
    BY DEF TypeOK
  <2> QED BY <2>1, <2>2
<1> SUFFICES ASSUME NEW c \in Channels, NEW i \in 1 .. Len(todo')
             PROVE  /\ Sets(todo'[i], c) => Pending(c)' \/ todo'[i] = Ctrl(c, FALSE, FALSE, "mem")
                    /\ IsStart(todo'[i], c) =>
                         /\ todo'[i] = Ctrl(c, TRUE, TRUE, job'[c].mode)
                         /\ \A kind \in Kinds : \/ Register(kind, c)' = Value(kind, c)'
                                               \/ \E j \in 1 .. i - 1 : todo'[j] = Setting(kind, c)'
                         /\ \A j \in 1 .. Len(todo') : Sets(todo'[j], c) =>
                              j <= i /\ (j < i => \E kind \in Kinds : todo'[j] = Setting(kind, c)')
  BY DEF ConfigInv, Channels
<1>1. PICK d \in {0, 1} :
        /\ \A k \in 1 .. Len(todo') : k + d \in 1 .. Len(todo) /\ todo'[k] = todo[k + d]
        /\ d = 1 => Len(todo) >= 1 /\ w = todo[1] /\ Len(todo') = Len(todo) - 1
        /\ d = 0 => w[1] \in {"status", "irqStatus", "none"} /\ todo' = todo
  <2>1. CASE /\ Len(todo) >= 1 /\ w = todo[1] /\ Len(todo') = Len(todo) - 1
             /\ \A k \in 1 .. Len(todo') : todo'[k] = todo[k + 1]
    BY <1>0, <2>1
  <2>2. CASE todo' = todo /\ w[1] \in {"status", "irqStatus", "none"}
    <3>1. \A k \in 1 .. Len(todo') : k + 0 \in 1 .. Len(todo) /\ todo'[k] = todo[k + 0]
      BY <1>0, <2>2
    <3> QED BY <2>2, <3>1
  <2> QED BY <2>1, <2>2, TodoMoves
<1>2. ASSUME NEW kind \in Kinds
      PROVE  /\ Value(kind, c)' = Value(kind, c) /\ Setting(kind, c)' = Setting(kind, c)
             /\ w[1] = kind /\ w[2] = c => Register(kind, c)' = w[3]
             /\ ~(w[1] = kind /\ w[2] = c) => Register(kind, c)' = Register(kind, c)
  <2>1. Value(kind, c)' = Value(kind, c)
    BY <1>2 DEF Value, Kinds
  <2>2. /\ rSrc' = Configure(rSrc, w, "src") /\ rDst' = Configure(rDst, w, "dst")
        /\ rLen' = Configure(rLen, w, "len")
        /\ c \in DOMAIN rSrc /\ c \in DOMAIN rDst /\ c \in DOMAIN rLen
    BY DEF RegisterCycle, TypeOK
  <2>3. CASE kind = "src"
    BY <2>1, <2>2, <2>3 DEF Register, Configure, Kind, Setting
  <2>4. CASE kind = "dst"
    BY <2>1, <2>2, <2>4 DEF Register, Configure, Kind, Setting
  <2>5. CASE kind = "len"
    BY <2>1, <2>2, <2>5 DEF Register, Configure, Kind, Setting
  <2> QED BY <1>2, <2>3, <2>4, <2>5 DEF Kinds
<1>3. ASSUME Sets(todo'[i], c) PROVE Pending(c)' \/ todo'[i] = Ctrl(c, FALSE, FALSE, "mem")
  <2>1. i + d \in 1 .. Len(todo) /\ todo'[i] = todo[i + d] /\ Sets(todo[i + d], c)
    BY <1>1, <1>3
  <2>2. Pending(c) \/ todo'[i] = Ctrl(c, FALSE, FALSE, "mem")
    BY <2>1 DEF ConfigInv
  <2>3. ASSUME IsStart(w, c) PROVE FALSE
    <3>1. d = 1
      BY <1>1, <2>3 DEF IsStart
    <3>2. 1 \in 1 .. Len(todo) /\ w = todo[1] /\ ~(i + d <= 1)
      BY <1>0, <1>1, <3>1
    <3> QED BY <2>1, <2>3, <3>2 DEF ConfigInv
  <2> QED BY <2>2, <2>3, PendingMoves
<1>4. ASSUME IsStart(todo'[i], c)
      PROVE  /\ todo'[i] = Ctrl(c, TRUE, TRUE, job[c].mode)
             /\ \A kind \in Kinds : \/ Register(kind, c) = Value(kind, c)
                                   \/ \E j \in 1 .. (i + d) - 1 : todo[j] = Setting(kind, c)
             /\ \A j \in 1 .. Len(todo) : Sets(todo[j], c) =>
                  j <= i + d /\ (j < i + d => \E kind \in Kinds : todo[j] = Setting(kind, c))
  <2>1. i + d \in 1 .. Len(todo) /\ todo'[i] = todo[i + d] /\ IsStart(todo[i + d], c)
    BY <1>1, <1>4
  <2> QED BY <2>1 DEF ConfigInv
<1>5. ASSUME IsStart(todo'[i], c), NEW j \in 1 .. Len(todo'), Sets(todo'[j], c)
      PROVE  j <= i /\ (j < i => \E kind \in Kinds : todo'[j] = Setting(kind, c)')
  <2>1. j + d \in 1 .. Len(todo) /\ todo'[j] = todo[j + d] /\ Sets(todo[j + d], c)
    BY <1>1, <1>5
  <2>2. /\ j + d <= i + d
        /\ j + d < i + d => \E kind \in Kinds : todo[j + d] = Setting(kind, c)
    BY <1>4, <1>5, <2>1
  <2> QED BY <1>2, <2>1, <2>2
<1>6. ASSUME IsStart(todo'[i], c), NEW kind \in Kinds
      PROVE  \/ Register(kind, c)' = Value(kind, c)'
             \/ \E j \in 1 .. i - 1 : todo'[j] = Setting(kind, c)'
  <2>1. CASE w[1] = kind /\ w[2] = c
    <3>1. Sets(w, c) /\ w[1] \notin {"status", "irqStatus", "none"}
      BY <1>6, <2>1 DEF Sets, Kinds
    <3>2. d = 1 /\ 1 \in 1 .. Len(todo) /\ w = todo[1] /\ 1 < i + d
      BY <1>0, <1>1, <3>1
    <3>3. PICK k2 \in Kinds : w = Setting(k2, c)
      BY <1>4, <1>6, <3>1, <3>2
    <3>4. k2 = kind /\ w[3] = Value(kind, c)
      BY <2>1, <3>3 DEF Setting
    <3> QED BY <1>2, <1>6, <2>1, <3>4
  <2>2. CASE ~(w[1] = kind /\ w[2] = c)
    <3>1. ASSUME NEW j \in 1 .. (i + d) - 1, todo[j] = Setting(kind, c)
          PROVE  \E k \in 1 .. i - 1 : todo'[k] = Setting(kind, c)
      <4>1. ~(d = 1 /\ j = 1)
        BY <1>1, <2>2, <3>1 DEF Setting
      <4>2. j - d \in 1 .. i - 1 /\ j - d \in 1 .. Len(todo') /\ (j - d) + d = j
        BY <1>0, <3>1, <4>1
      <4>3. todo'[j - d] = todo[j]
        BY <1>1, <4>2
      <4> QED BY <3>1, <4>2, <4>3
    <3> QED BY <1>2, <1>4, <1>6, <2>2, <3>1
  <2> QED BY <2>1, <2>2
<1> QED BY <1>3, <1>4, <1>5, <1>6

(***************************************************************************)
(* What one cycle does to one channel.                                     *)
(***************************************************************************)
OneCycle(w, rd, wr) ==
  /\ Lands(w) /\ rd \in RdAnswers /\ wr \in WrAnswers
  /\ \E receives, sends \in BOOLEAN : Cycle(w, rd, wr, receives, sends)
  /\ UNCHANGED <<call, awaited, result, background>>
RunsWell == TypeOK /\ ConfigInv /\ JobsInv /\ BeginInv /\ RunInv

LEMMA CycleParts ==
  ASSUME TypeOK, NEW w, NEW rd, NEW wr, OneCycle(w, rd, wr)
  PROVE  /\ Lands(w) /\ RegisterCycle(w) /\ ChannelCycle(rd, wr) /\ ArbiterCycle
         /\ rd \in RdAnswers /\ wr \in WrAnswers
         /\ UNCHANGED <<call, awaited, result, background>>
         /\ \E receives, sends \in BOOLEAN : OutsideCycle(rd, wr, receives, sends)
BY DEF OneCycle, Cycle

LEMMA JobKept ==
  ASSUME TypeOK, NEW w, NEW rd, NEW wr, OneCycle(w, rd, wr), NEW c \in Channels
  PROVE  /\ job'[c].src = job[c].src /\ job'[c].len = job[c].len /\ job'[c].mode = job[c].mode
         /\ job'[c].rdErr <=> job[c].rdErr \/ (rd = "err" /\ ReadEnds(c, rd))
         /\ job'[c].wrErr <=> job[c].wrErr \/ (wr = "err" /\ WriteEnds(c, wr))
         /\ SrcOf(c)' = SrcOf(c) /\ DstOf(c)' = DstOf(c) /\ \A i : Asked(c, i)' = Asked(c, i)
<1>1. PICK receives \in BOOLEAN, sends \in BOOLEAN : Cycle(w, rd, wr, receives, sends)
  BY DEF OneCycle
<1> QED BY <1>1, JobMoves

LEMMA ChannelMoves ==
  ASSUME NEW c \in Channels, NEW rd, NEW wr, ChannelCycle(rd, wr)
  PROVE  /\ st'[c] = NextState(c, rd, wr)
         /\ Starts(c) /\ rLen[c] # 0 =>
              /\ jSrc'[c] = rSrc[c] /\ jDst'[c] = rDst[c] /\ jMode'[c] = rMode[c]
              /\ sPos'[c] = 0 /\ dPos'[c] = 0 /\ left'[c] = rLen[c]
         /\ ~Starts(c) =>
              /\ jSrc'[c] = jSrc[c] /\ jDst'[c] = jDst[c] /\ jMode'[c] = jMode[c]
              /\ WriteEnds(c, wr) /\ wr = "ok" =>
                   /\ sPos'[c] = IF jMode[c] # "rx" THEN sPos[c] + burst[c] ELSE sPos[c]
                   /\ dPos'[c] = IF jMode[c] # "tx" THEN dPos[c] + burst[c] ELSE dPos[c]
                   /\ left'[c] = IF LastBurst(c) THEN 0 ELSE left[c] - burst[c]
              /\ ~(WriteEnds(c, wr) /\ wr = "ok") =>
                   sPos'[c] = sPos[c] /\ dPos'[c] = dPos[c] /\ left'[c] = left[c]
         /\ burst'[c] = IF Reads(c) THEN next_burst_len(c) ELSE burst[c]
         /\ buf'[c] = IF ReadEnds(c, rd) THEN ReadData(c, rd)
                      ELSE IF WriteEnds(c, wr) THEN <<>> ELSE buf[c]
         /\ donePulse'[c] <=> st[c] = "DONE" \/ (Starts(c) /\ rLen[c] = 0)
         /\ errPulse'[c] <=> WriteEnds(c, wr) /\ wr = "err"
<1>1. /\ st'[c] = NextState(c, rd, wr)
      /\ burst'[c] = IF Reads(c) THEN next_burst_len(c) ELSE burst[c]
      /\ buf'[c] = IF ReadEnds(c, rd) THEN ReadData(c, rd)
                   ELSE IF WriteEnds(c, wr) THEN <<>> ELSE buf[c]
  BY DEF ChannelCycle
<1>2. /\ donePulse'[c] = (st[c] = "DONE" \/ (Starts(c) /\ rLen[c] = 0))
      /\ errPulse'[c] = (WriteEnds(c, wr) /\ wr = "err")
  BY DEF ChannelCycle
<1>3. /\ Starts(c) /\ rLen[c] # 0 =>
           /\ jSrc'[c] = rSrc[c] /\ jDst'[c] = rDst[c] /\ jMode'[c] = rMode[c]
           /\ sPos'[c] = 0 /\ dPos'[c] = 0 /\ left'[c] = rLen[c]
      /\ ~Starts(c) => jSrc'[c] = jSrc[c] /\ jDst'[c] = jDst[c] /\ jMode'[c] = jMode[c]
  BY DEF ChannelCycle
<1>4. ASSUME ~Starts(c)
      PROVE  /\ WriteEnds(c, wr) /\ wr = "ok" =>
                  /\ sPos'[c] = IF jMode[c] # "rx" THEN sPos[c] + burst[c] ELSE sPos[c]
                  /\ dPos'[c] = IF jMode[c] # "tx" THEN dPos[c] + burst[c] ELSE dPos[c]
                  /\ left'[c] = IF LastBurst(c) THEN 0 ELSE left[c] - burst[c]
             /\ ~(WriteEnds(c, wr) /\ wr = "ok") =>
                  sPos'[c] = sPos[c] /\ dPos'[c] = dPos[c] /\ left'[c] = left[c]
  BY <1>4 DEF ChannelCycle
<1> QED BY <1>1, <1>2, <1>3, <1>4

\* The state of a channel after the cycle, state by state.
LEMMA StateMoves ==
  ASSUME NEW c \in Channels, NEW rd, NEW wr
  PROVE  /\ st[c] = "IDLE" /\ ~Starts(c) => NextState(c, rd, wr) = "IDLE"
         /\ Starts(c) => NextState(c, rd, wr) = IF rLen[c] = 0 THEN "IDLE"
                                                ELSE IF rMode[c] = "mem" THEN "FETCH_RD" ELSE "P_WAIT"
         /\ st[c] = "P_WAIT" => NextState(c, rd, wr) \in {"P_WAIT", "FETCH_RD"}
         /\ st[c] = "FETCH_RD" => NextState(c, rd, wr) = IF Reads(c) THEN "WAIT_RD" ELSE "FETCH_RD"
         /\ st[c] = "WAIT_RD" => NextState(c, rd, wr) = IF ReadEnds(c, rd) THEN "FETCH_WR" ELSE "WAIT_RD"
         /\ st[c] = "FETCH_WR" => NextState(c, rd, wr) \in {"FETCH_WR", "WAIT_WR"}
         /\ st[c] = "WAIT_WR" => NextState(c, rd, wr) =
              IF ~WriteEnds(c, wr) THEN "WAIT_WR" ELSE IF wr = "err" THEN "ERROR"
              ELSE IF LastBurst(c) THEN "DONE" ELSE IF jMode[c] = "mem" THEN "FETCH_RD" ELSE "P_WAIT"
         /\ st[c] \in {"DONE", "ERROR"} => NextState(c, rd, wr) = "IDLE"
BY DEF NextState, Starts, Reads, ReadEnds, Writes, WriteEnds

\* A cycle lands at most one write in the registers of a channel, and one of
\* them starts it.
LEMMA RegisterMoves ==
  ASSUME RunsWell, NEW w, NEW rd, NEW wr, OneCycle(w, rd, wr), NEW c \in Channels
  PROVE  /\ startPulse'[c] <=> IsStart(w, c)
         /\ IsStart(w, c) =>
              /\ Pending(c) /\ ~Pending(c)' /\ rEn'[c]
              /\ rSrc'[c] = SrcOf(c) /\ rDst'[c] = DstOf(c)
              /\ rLen'[c] = job[c].len /\ rMode'[c] = job[c].mode
         /\ ~IsStart(w, c) => (Pending(c)' <=> Pending(c))
         /\ ~Pending(c) => ~Pending(c)' /\ ~IsStart(w, c) /\ rDst'[c] = rDst[c]
<1>1. TypeOK /\ ConfigInv /\ Lands(w) /\ RegisterCycle(w)
  BY CycleParts DEF RunsWell
<1>2. startPulse'[c] <=> IsStart(w, c)
  <2>1. startPulse'[c] = (Kind(w) = "ctrl" /\ w[2] = c /\ w[4])
    BY <1>1 DEF RegisterCycle
  <2> QED BY <2>1, Zenon DEF IsStart, Kind
<1>3. /\ Pending(c)' <=> Pending(c) /\ ~IsStart(w, c)
      /\ IsStart(w, c) => Pending(c)
      /\ Sets(w, c) => Pending(c) \/ w = Ctrl(c, FALSE, FALSE, "mem")
  BY <1>1, PendingMoves
<1>4. ASSUME ~Pending(c) PROVE rDst'[c] = rDst[c]
  <2>1. ASSUME w[1] = "dst", w[2] = c PROVE FALSE
    <3>1. w = Ctrl(c, FALSE, FALSE, "mem")
      BY <1>3, <1>4, <2>1 DEF Sets
    <3> QED BY <2>1, <3>1 DEF Ctrl
  <2> QED BY <1>1, <2>1 DEF RegisterCycle, Configure, Kind, TypeOK
<1>5. ASSUME IsStart(w, c)
      PROVE  /\ rEn'[c] /\ rSrc'[c] = SrcOf(c) /\ rDst'[c] = DstOf(c)
             /\ rLen'[c] = job[c].len /\ rMode'[c] = job[c].mode
  <2>1. w[1] = "ctrl"
    BY <1>5 DEF IsStart
  <2>2. Len(todo) \in Nat /\ Len(todo) >= 1 /\ w = todo[1]
    <3>1. Len(todo) >= 1 /\ w = todo[1]
      BY <1>1, <2>1, TodoMoves
    <3>2. todo \in Seq(RegisterWrites)
      BY <1>1 DEF TypeOK
    <3> QED BY <3>1, <3>2
  <2>3. /\ w = Ctrl(c, TRUE, TRUE, job[c].mode)
        /\ \A kind \in Kinds : Register(kind, c) = Value(kind, c)
    <3>1. 1 \in 1 .. Len(todo) /\ IsStart(todo[1], c) /\ ~\E j \in 1 .. 1 - 1 : TRUE
      BY <1>5, <2>2
    <3> QED BY <1>1, <2>2, <3>1 DEF ConfigInv
  <2>4. rSrc[c] = SrcOf(c) /\ rDst[c] = DstOf(c) /\ rLen[c] = job[c].len
    BY <2>3 DEF Kinds, Register, Value
  <2>5. rSrc' = rSrc /\ rDst' = rDst /\ rLen' = rLen
    BY <1>1, <2>1 DEF RegisterCycle, Configure, Kind
  <2>6. w[1] = "ctrl" /\ w[2] = c /\ w[3] = TRUE /\ w[5] = job[c].mode
    BY <2>3 DEF Ctrl
  <2>7. rEn' = [rEn EXCEPT ![c] = TRUE] /\ rMode' = [rMode EXCEPT ![c] = job[c].mode]
    BY <1>1, <2>6 DEF RegisterCycle, Configure, Kind
  <2>8. c \in DOMAIN rEn /\ c \in DOMAIN rMode
    BY <1>1 DEF TypeOK, Flags
  <2> QED BY <2>4, <2>5, <2>7, <2>8
<1> QED BY <1>2, <1>3, <1>4, <1>5

\* A channel under way has the areas of its job, and only the one of a job
\* that receives takes a word of the port, only one that sends puts one there.
LEMMA BusyHasItsJob ==
  ASSUME RunsWell, NEW c \in Channels, st[c] # "IDLE"
  PROVE  /\ jMode[c] = job[c].mode /\ Target(c) = DstOf(c)
         /\ jSrc[c] = "port" <=> job[c].mode = "rx"
         /\ Target(c) = "port" <=> job[c].mode = "tx"
<1>1. Latches(c)
  BY DEF RunsWell, RunInv
<1>2. Target(c) = DstOf(c)
  BY <1>1 DEF Latches, Target
<1> QED BY <1>1, <1>2, SysDmaConstants DEF Latches, SrcOf, DstOf

LEMMA TakenMoves ==
  ASSUME RunsWell, NEW w, NEW rd, NEW wr, OneCycle(w, rd, wr), NEW c \in Channels, job[c].mode = "rx"
  PROVE  taken' = IF ReadEnds(c, rd) THEN taken + 1 ELSE taken
<1>1. taken' = IF \E d \in Channels : ReadEnds(d, rd) /\ jSrc[d] = "port" THEN taken + 1 ELSE taken
  <2>1. PICK receives \in BOOLEAN, sends \in BOOLEAN : OutsideCycle(rd, wr, receives, sends)
    BY CycleParts DEF RunsWell
  <2> QED BY <2>1 DEF OutsideCycle
<1>2. ASSUME NEW d \in Channels, ReadEnds(d, rd), jSrc[d] = "port" PROVE d = c
  <2>1. st[d] # "IDLE"
    BY <1>2 DEF ReadEnds
  <2> QED BY <1>2, <2>1, BusyHasItsJob DEF RunsWell, JobsInv
<1>3. ASSUME ReadEnds(c, rd) PROVE jSrc[c] = "port"
  <2>1. st[c] # "IDLE"
    BY <1>3 DEF ReadEnds
  <2> QED BY <2>1, BusyHasItsJob
<1> QED BY <1>1, <1>2, <1>3

LEMMA SentMoves ==
  ASSUME RunsWell, NEW w, NEW rd, NEW wr, OneCycle(w, rd, wr), NEW c \in Channels, job[c].mode = "tx"
  PROVE  sent' = IF Written(c, wr) THEN sent \o buf[c] ELSE sent
<1> DEFINE puts(d) == Written(d, wr) /\ Target(d) = "port"
<1>1. sent' = IF \E d \in Channels : puts(d) THEN sent \o buf[CHOOSE d \in Channels : puts(d)] ELSE sent
  <2>1. PICK receives \in BOOLEAN, sends \in BOOLEAN : OutsideCycle(rd, wr, receives, sends)
    BY CycleParts DEF RunsWell
  <2> QED BY <2>1 DEF OutsideCycle
<1>2. ASSUME NEW d \in Channels, puts(d) PROVE d = c
  <2>1. st[d] # "IDLE"
    BY <1>2 DEF Written, WriteEnds
  <2> QED BY <1>2, <2>1, BusyHasItsJob DEF RunsWell, JobsInv
<1>3. ASSUME Written(c, wr) PROVE puts(c)
  <2>1. st[c] # "IDLE"
    BY <1>3 DEF Written, WriteEnds
  <2> QED BY <1>3, <2>1, BusyHasItsJob
<1>4. puts(c) <=> Written(c, wr)
  BY <1>3
<1> HIDE DEF puts
<1>5. CASE \E d \in Channels : puts(d)
  <2>1. (CHOOSE d \in Channels : puts(d)) = c
    BY <1>2, <1>5
  <2>2. puts(c)
    BY <1>2, <1>5
  <2> QED BY <1>1, <1>4, <1>5, <2>1, <2>2
<1>6. CASE ~\E d \in Channels : puts(d)
  BY <1>1, <1>4, <1>6
<1> QED BY <1>5, <1>6

LEMMA MemMoves ==
  ASSUME RunsWell, NEW w, NEW rd, NEW wr, OneCycle(w, rd, wr), NEW c \in Channels
  PROVE  /\ ~Written(c, wr) \/ job[c].mode = "tx" => mem'[c] = mem[c]
         /\ Written(c, wr) /\ job[c].mode # "tx" =>
              \A i \in Positions :
                mem'[c][i] = IF i - dPos[c] \in 1 .. burst[c] THEN buf[c][i - dPos[c]] ELSE mem[c][i]
<1>1. mem'[c] = IF Written(c, wr) /\ Target(c) = "buffer"
                THEN [i \in Positions |-> IF i - dPos[c] \in 1 .. burst[c] THEN buf[c][i - dPos[c]]
                                          ELSE mem[c][i]]
                ELSE mem[c]
  <2>1. PICK receives \in BOOLEAN, sends \in BOOLEAN : OutsideCycle(rd, wr, receives, sends)
    BY CycleParts DEF RunsWell
  <2> QED BY <2>1 DEF OutsideCycle
<1>2. ASSUME Written(c, wr) PROVE Target(c) = "buffer" <=> job[c].mode # "tx"
  <2>1. st[c] # "IDLE"
    BY <1>2 DEF Written, WriteEnds
  <2> QED BY <2>1, BusyHasItsJob DEF DstOf
<1> QED BY <1>1, <1>2

\* A job that ends no write keeps what it has left behind it.
LEMMA CopiedKept ==
  ASSUME RunsWell, NEW w, NEW rd, NEW wr, OneCycle(w, rd, wr), NEW c \in Channels,
         ~Written(c, wr)
  PROVE  /\ mem'[c] = mem[c]
         /\ job[c].mode = "tx" => sent' = sent
         /\ Copied(c)' <=> Copied(c)
<1>1. mem'[c] = mem[c] /\ (job[c].mode = "tx" => sent' = sent)
  BY MemMoves, SentMoves
<1>2. job'[c].len = job[c].len /\ job'[c].mode = job[c].mode /\ job'[c].src = job[c].src
  BY JobKept DEF RunsWell
<1> QED BY <1>1, <1>2 DEF Copied, Asked

\* An idle channel that is not started stays as it is.
LEMMA IdleStays ==
  ASSUME RunsWell, NEW w, NEW rd, NEW wr, OneCycle(w, rd, wr), NEW c \in Channels,
         st[c] = "IDLE", ~startPulse[c]
  PROVE  /\ st'[c] = "IDLE" /\ ~donePulse'[c] /\ ~errPulse'[c]
         /\ job'[c].rdErr <=> job[c].rdErr
         /\ job'[c].wrErr <=> job[c].wrErr
         /\ mem'[c] = mem[c]
         /\ job[c].mode = "tx" => sent' = sent
         /\ job[c].mode = "rx" => taken' = taken
         /\ Copied(c)' <=> Copied(c)
<1>1. ~Starts(c) /\ ~ReadEnds(c, rd) /\ ~WriteEnds(c, wr) /\ ~Written(c, wr)
  BY DEF Starts, ReadEnds, WriteEnds, Written
<1>2. st'[c] = "IDLE" /\ ~donePulse'[c] /\ ~errPulse'[c]
  BY <1>1, CycleParts, ChannelMoves, StateMoves DEF RunsWell
<1>3. (job'[c].rdErr <=> job[c].rdErr) /\ (job'[c].wrErr <=> job[c].wrErr)
  BY <1>1, JobKept DEF RunsWell
<1>4. job[c].mode = "rx" => taken' = taken
  BY <1>1, TakenMoves
<1> QED BY <1>1, <1>2, <1>3, <1>4, CopiedKept

\* A job that has not begun has not begun after a cycle that does not start it.
LEMMA FreshStays ==
  ASSUME RunsWell, NEW w, NEW rd, NEW wr, OneCycle(w, rd, wr), NEW c \in Channels, Pending(c)
  PROVE  Fresh(c)' /\ ~donePulse'[c]
<1>1. Fresh(c) /\ ~startPulse[c]
  BY DEF RunsWell, BeginInv
<1>2. st[c] = "IDLE" /\ ~startPulse[c]
  BY <1>1 DEF Fresh
<1>3. /\ job'[c].src = job[c].src /\ job'[c].mode = job[c].mode /\ result'[c] = result[c]
  BY JobKept, CycleParts DEF RunsWell
<1> QED BY <1>1, <1>2, <1>3, IdleStays DEF Fresh, Blank

LEMMA BeginStep ==
  ASSUME RunsWell, NEW w, NEW rd, NEW wr, OneCycle(w, rd, wr)
  PROVE  BeginInv'
<1> SUFFICES ASSUME NEW c \in Channels
             PROVE  /\ Pending(c)' => Fresh(c)' /\ ~startPulse'[c]
                    /\ startPulse'[c] =>
                         /\ Fresh(c)' /\ ~Pending(c)' /\ rEn'[c]
                         /\ rSrc'[c] = SrcOf(c)' /\ rDst'[c] = DstOf(c)'
                         /\ rLen'[c] = job'[c].len /\ rMode'[c] = job'[c].mode
  BY DEF BeginInv, Channels
<1>1. ASSUME Pending(c)' PROVE Fresh(c)' /\ ~startPulse'[c]
  BY <1>1, RegisterMoves, FreshStays
<1>2. ASSUME startPulse'[c]
      PROVE  /\ Fresh(c)' /\ ~Pending(c)' /\ rEn'[c]
             /\ rSrc'[c] = SrcOf(c)' /\ rDst'[c] = DstOf(c)'
             /\ rLen'[c] = job'[c].len /\ rMode'[c] = job'[c].mode
  <2>1. IsStart(w, c) /\ Pending(c)
    BY <1>2, RegisterMoves
  <2>2. /\ ~Pending(c)' /\ rEn'[c] /\ rSrc'[c] = SrcOf(c) /\ rDst'[c] = DstOf(c)
        /\ rLen'[c] = job[c].len /\ rMode'[c] = job[c].mode
    BY <2>1, RegisterMoves
  <2>3. /\ job'[c].len = job[c].len /\ job'[c].mode = job[c].mode
        /\ SrcOf(c)' = SrcOf(c) /\ DstOf(c)' = DstOf(c)
    BY JobKept DEF RunsWell
  <2> QED BY <2>1, <2>2, <2>3, FreshStays
<1> QED BY <1>1, <1>2

LEMMA SmallerThanOne ==
  ASSUME NEW d \in Nat \ {0}, NEW n \in Nat, n < d
  PROVE  n % d = n
<1>1. n \div d \in Nat /\ n % d \in 0 .. d - 1 /\ n = d * (n \div d) + (n % d)
  OBVIOUS
<1>2. PICK q \in Nat, r \in 0 .. d - 1 : q = n \div d /\ r = n % d /\ n = d * q + r
  BY <1>1
<1>3. ~(q >= 1)
  BY <1>2
<1> QED BY <1>2, <1>3

\* The length of a burst: the port's is a word, a full one fits in what is
\* left unless it takes the tail.
LEMMA BurstLengths ==
  ASSUME RunsWell, NEW c \in Channels, ToMove(c), Latches(c)
  PROVE  /\ next_burst_len(c) \in Nat \ {0} /\ left[c] \in Nat \ {0}
         /\ job[c].mode # "mem" => next_burst_len(c) = 1
         /\ job[c].mode = "mem" /\ next_burst_len(c) # left[c] =>
              next_burst_len(c) = BurstLen + 1 /\ 4 * left[c] >= BurstLen + 4
<1>1. left[c] \in Nat /\ left[c] >= 1 /\ jMode[c] = job[c].mode /\ BurstLen \in Nat
  BY SysDmaConstants DEF RunsWell, TypeOK, ToMove, Latches
<1>2. FullBurst(left[c]) <=> 4 * left[c] >= BurstLen + 4
  BY DEF FullBurst
<1> QED BY <1>1, <1>2 DEF next_burst_len

LEMMA BusyStays ==
  ASSUME RunsWell, NEW w, NEW rd, NEW wr, OneCycle(w, rd, wr), NEW c \in Channels, st[c] # "IDLE"
  PROVE  /\ ~startPulse'[c] /\ ~Pending(c)' /\ result'[c] = "none" /\ Latches(c)'
         /\ ~Starts(c)
<1>1. ~startPulse[c] /\ ~Pending(c) /\ result[c] = "none" /\ Latches(c)
  BY DEF RunsWell, RunInv
<1>2. ~startPulse'[c] /\ ~Pending(c)' /\ rDst'[c] = rDst[c]
  BY <1>1, RegisterMoves
<1>3. ~Starts(c) /\ result'[c] = "none"
  BY <1>1, CycleParts DEF Starts, RunsWell
<1>4. /\ jSrc'[c] = jSrc[c] /\ jDst'[c] = jDst[c] /\ jMode'[c] = jMode[c]
      /\ job[c].mode = "mem" => sPos'[c] = dPos'[c]
  BY <1>1, <1>3, CycleParts, ChannelMoves DEF Latches, RunsWell
<1>5. /\ job'[c].src = job[c].src /\ job'[c].mode = job[c].mode
      /\ SrcOf(c)' = SrcOf(c) /\ DstOf(c)' = DstOf(c)
  BY JobKept DEF RunsWell
<1>6. Latches(c)'
  BY <1>1, <1>2, <1>4, <1>5 DEF Latches
<1> QED BY <1>2, <1>3, <1>6

LEMMA InBurstKept ==
  ASSUME RunsWell, NEW w, NEW rd, NEW wr, OneCycle(w, rd, wr), NEW c \in Channels, ~Written(c, wr)
  PROVE  InBurst(c)'
<1>1. InBurst(c) /\ mem'[c] = mem[c]
  BY CopiedKept DEF RunsWell, RunInv
<1>2. job'[c].len = job[c].len /\ job'[c].mode = job[c].mode
  BY JobKept DEF RunsWell
<1> QED BY <1>1, <1>2 DEF InBurst

Moving == {"P_WAIT", "FETCH_RD", "WAIT_RD", "FETCH_WR", "WAIT_WR"}
Goes(c) == ~job[c].wrErr /\ Moved(c) /\ ToMove(c) /\ InHand(c)

LEMMA MovedKept ==
  ASSUME RunsWell, NEW w, NEW rd, NEW wr, OneCycle(w, rd, wr), NEW c \in Channels,
         st[c] \in Moving, ~WriteEnds(c, wr)
  PROVE  /\ ~job'[c].wrErr /\ Moved(c)' /\ Place(c)' = Place(c)
         /\ jMode'[c] = jMode[c] /\ left'[c] = left[c] /\ dPos'[c] = dPos[c] /\ sPos'[c] = sPos[c]
<1>1. Moved(c) /\ ~job[c].wrErr
  BY DEF RunsWell, RunInv, Moving
<1>2. ~Written(c, wr) /\ ~Starts(c)
  BY DEF Written, Starts, Moving
<1>3. mem'[c] = mem[c] /\ (job[c].mode = "tx" => sent' = sent)
  BY <1>2, CopiedKept
<1>4. /\ job'[c].mode = job[c].mode /\ ~job'[c].wrErr /\ (~job'[c].rdErr => ~job[c].rdErr)
      /\ \A i : Asked(c, i)' = Asked(c, i)
  BY <1>1, JobKept DEF RunsWell
<1>5. jMode'[c] = jMode[c] /\ left'[c] = left[c] /\ dPos'[c] = dPos[c] /\ sPos'[c] = sPos[c]
  BY <1>2, CycleParts, ChannelMoves DEF RunsWell
<1>6. Moved(c)'
  <2>1. CASE job[c].mode = "tx"
    BY <1>1, <1>3, <1>4, <1>5, <2>1 DEF Moved, Blank
  <2>2. CASE job[c].mode # "tx"
    BY <1>1, <1>3, <1>4, <1>5, <2>2 DEF Moved
  <2> QED BY <2>1, <2>2
<1> QED BY <1>4, <1>5, <1>6 DEF Place

\* The cycles of a channel that end no write.
LEMMA GoesOn ==
  ASSUME RunsWell, NEW w, NEW rd, NEW wr, OneCycle(w, rd, wr), NEW c \in Channels,
         st[c] \in Moving, ~WriteEnds(c, wr)
  PROVE  st'[c] \in Moving /\ Goes(c)'
<1>1. Goes(c) /\ Latches(c)
  BY DEF RunsWell, RunInv, Moving, Goes
<1>2. /\ job'[c].len = job[c].len /\ job'[c].mode = job[c].mode /\ job'[c].src = job[c].src
      /\ job'[c].rdErr <=> job[c].rdErr \/ (rd = "err" /\ ReadEnds(c, rd))
      /\ \A i : Asked(c, i)' = Asked(c, i)
  BY JobKept DEF RunsWell
<1>3. /\ ~job'[c].wrErr /\ Moved(c)' /\ Place(c)' = Place(c)
      /\ jMode'[c] = jMode[c] /\ left'[c] = left[c] /\ dPos'[c] = dPos[c] /\ sPos'[c] = sPos[c]
  BY MovedKept
<1>4. /\ st'[c] = NextState(c, rd, wr)
      /\ burst'[c] = IF Reads(c) THEN next_burst_len(c) ELSE burst[c]
      /\ buf'[c] = IF ReadEnds(c, rd) THEN ReadData(c, rd) ELSE buf[c]
  BY CycleParts, ChannelMoves DEF RunsWell
<1>5. next_burst_len(c)' = next_burst_len(c)
  BY <1>3 DEF next_burst_len
<1>6. st'[c] \in Moving /\ (st'[c] \in Loaded <=> st[c] \in Loaded \/ ReadEnds(c, rd))
  BY <1>4, StateMoves DEF Moving, Loaded, ReadEnds
<1>7. ToMove(c)'
  <2>1. job[c].mode = "rx" => taken' = IF ReadEnds(c, rd) THEN taken + 1 ELSE taken
    BY TakenMoves
  <2>2. ReadEnds(c, rd) => st[c] \notin Loaded
    BY DEF ReadEnds, Loaded
  <2>3. job[c].mode = "rx" => taken' = IF st'[c] \in Loaded THEN dPos[c] + 1 ELSE dPos[c]
    BY <1>1, <1>6, <2>1, <2>2 DEF Goes, ToMove
  <2> QED BY <1>1, <1>2, <1>3, <2>3 DEF Goes, ToMove
<1>8. InHand(c)'
  <2>1. CASE Reads(c)
    <3>1. st'[c] = "WAIT_RD"
      BY <1>4, <2>1, StateMoves DEF Reads
    <3> QED BY <1>4, <1>5, <2>1, <3>1 DEF InHand, Bursting, Loaded
  <2>2. CASE ReadEnds(c, rd)
    <3>1. st[c] = "WAIT_RD" /\ burst[c] = next_burst_len(c) /\ ~Reads(c)
      BY <1>1, <2>2 DEF Goes, InHand, ReadEnds, Reads, Bursting
    <3>2. burst'[c] = burst[c] /\ buf'[c] = ReadData(c, rd)
      BY <1>4, <2>2, <3>1
    <3>3. burst[c] \in Nat \ {0} /\ (job[c].mode # "mem" => burst[c] = 1)
      BY <1>1, <3>1, BurstLengths DEF Goes
    <3>4. Len(buf'[c]) = burst[c]
      BY <3>2, <3>3 DEF ReadData
    <3>5. ASSUME ~job'[c].rdErr, NEW i \in 1 .. burst[c]
          PROVE  buf'[c][i] = Asked(c, Place(c) + i)
      <4>1. buf'[c][i] = ReadWord(c, i)
        BY <1>2, <2>2, <3>2, <3>5 DEF ReadData
      <4>2. CASE job[c].mode = "rx"
        <5>1. jSrc[c] = "port" /\ taken = dPos[c] /\ Place(c) = dPos[c]
          BY <1>1, <3>1, <4>2 DEF Goes, ToMove, Latches, SrcOf, Place, Loaded
        <5> QED BY <4>1, <4>2, <5>1 DEF ReadWord, Asked
      <4>3. CASE job[c].mode # "rx"
        <5>1. jSrc[c] = job[c].src /\ jSrc[c] # "port" /\ Place(c) = sPos[c]
          BY <1>1, <4>3, SysDmaConstants DEF Latches, SrcOf, Place, RunsWell, TypeOK, Modes
        <5> QED BY <4>1, <4>3, <5>1 DEF ReadWord, Asked
      <4> QED BY <4>2, <4>3
    <3> QED BY <1>2, <1>3, <1>5, <3>1, <3>2, <3>4, <3>5 DEF InHand
  <2>3. CASE ~Reads(c) /\ ~ReadEnds(c, rd)
    <3>1. burst'[c] = burst[c] /\ buf'[c] = buf[c]
      BY <1>4, <2>3
    <3>2. st'[c] \in Bursting => st[c] \in Bursting
      BY <1>4, <2>3, StateMoves DEF Moving, Bursting
    <3>3. st'[c] \in Loaded => st[c] \in Loaded
      BY <1>6, <2>3
    <3> QED BY <1>1, <1>2, <1>3, <1>5, <3>1, <3>2, <3>3 DEF Goes, InHand
  <2> QED BY <2>1, <2>2, <2>3
<1> QED BY <1>3, <1>6, <1>7, <1>8 DEF Goes

\* What a channel whose write ends has in its hand.
LEMMA AtTheEnd ==
  ASSUME RunsWell, NEW c \in Channels, st[c] = "WAIT_WR"
  PROVE  /\ Goes(c) /\ Latches(c) /\ InBurst(c)
         /\ burst[c] = next_burst_len(c) /\ Len(buf[c]) = burst[c]
         /\ burst[c] \in Nat \ {0} /\ left[c] \in Nat \ {0}
         /\ sPos[c] \in Nat /\ dPos[c] \in Nat /\ job[c].len \in 0 .. BufLen /\ BufLen \in Nat
         /\ job[c].mode # "mem" => burst[c] = 1
         /\ job[c].mode = "mem" /\ burst[c] # left[c] => burst[c] = BurstLen + 1 /\ 4 * left[c] >= BurstLen + 4
         /\ ~job[c].rdErr => \A i \in 1 .. burst[c] : buf[c][i] = Asked(c, Place(c) + i)
         /\ job[c].mode = "rx" => taken = dPos[c] + 1
<1>1. Goes(c) /\ Latches(c) /\ InBurst(c)
  BY DEF RunsWell, RunInv, Goes
<1>2. burst[c] = next_burst_len(c) /\ Len(buf[c]) = burst[c]
  BY <1>1 DEF Goes, InHand, Bursting, Loaded
<1>3. ~job[c].rdErr => \A i \in 1 .. burst[c] : buf[c][i] = Asked(c, Place(c) + i)
  BY <1>1 DEF Goes, InHand, Loaded
<1>4. sPos[c] \in Nat /\ dPos[c] \in Nat
  BY DEF RunsWell, TypeOK
<1>5. job[c].len \in 0 .. BufLen /\ BufLen \in Nat
  BY SysDmaConstants DEF RunsWell, JobsInv
<1>6. job[c].mode = "rx" => taken = dPos[c] + 1
  BY <1>1 DEF Goes, ToMove, Loaded
<1> QED BY <1>1, <1>2, <1>3, <1>4, <1>5, <1>6, BurstLengths DEF Goes

\* A burst that the memory takes leaves what is asked, as far as it goes.
LEMMA BurstMoves ==
  ASSUME RunsWell, NEW w, NEW rd, NEW wr, OneCycle(w, rd, wr), NEW c \in Channels, Written(c, wr),
         job[c].mode # "tx"
  PROVE  /\ \A i \in Positions : i > dPos[c] + burst[c] => mem'[c][i] = <<"old", 0>>
         /\ ~job[c].rdErr => \A i \in Positions : i <= dPos[c] + burst[c] => mem'[c][i] = Asked(c, i)
<1>1. st[c] = "WAIT_WR"
  BY DEF Written, WriteEnds
<1>2. /\ Moved(c) /\ burst[c] \in Nat /\ dPos[c] \in Nat /\ Place(c) = dPos[c]
      /\ ~job[c].rdErr => \A i \in 1 .. burst[c] : buf[c][i] = Asked(c, Place(c) + i)
  BY <1>1, AtTheEnd DEF Goes, Place
<1>3. /\ \A i \in Positions : i > dPos[c] => mem[c][i] = <<"old", 0>>
      /\ ~job[c].rdErr => \A i \in Positions : i <= dPos[c] => mem[c][i] = Asked(c, i)
  BY <1>2 DEF Moved
<1>4. ASSUME NEW i \in Positions
      PROVE  /\ i > dPos[c] + burst[c] => mem'[c][i] = <<"old", 0>>
             /\ ~job[c].rdErr => (i <= dPos[c] + burst[c] => mem'[c][i] = Asked(c, i))
  <2>1. i \in Nat
    BY SysDmaConstants DEF Positions
  <2>2. mem'[c][i] = IF i - dPos[c] \in 1 .. burst[c] THEN buf[c][i - dPos[c]] ELSE mem[c][i]
    BY MemMoves
  <2>3. CASE i - dPos[c] \in 1 .. burst[c]
    <3>1. dPos[c] + (i - dPos[c]) = i /\ ~(i > dPos[c] + burst[c])
      BY <1>2, <2>1, <2>3
    <3>2. ~job[c].rdErr => buf[c][i - dPos[c]] = Asked(c, i)
      BY <1>2, <2>3, <3>1
    <3> QED BY <2>2, <2>3, <3>1, <3>2
  <2>4. CASE i - dPos[c] \notin 1 .. burst[c]
    <3>1. mem'[c][i] = mem[c][i] /\ (i <= dPos[c] \/ i > dPos[c] + burst[c])
      BY <1>2, <2>1, <2>2, <2>4
    <3> QED BY <1>2, <1>3, <2>1, <3>1
  <2> QED BY <2>3, <2>4
<1> QED BY <1>4

LEMMA OneMore ==
  ASSUME NEW S, NEW s \in Seq(S), NEW t \in Seq(S), Len(t) = 1
  PROVE  /\ s \o t \in Seq(S) /\ Len(s \o t) = Len(s) + 1
         /\ \A i \in 1 .. Len(s) : (s \o t)[i] = s[i]
         /\ (s \o t)[Len(s) + 1] = t[1]
<1>1. Len(s) \in Nat /\ Len(t) \in Nat
  OBVIOUS
<1>2. /\ s \o t \in Seq(S) /\ Len(s \o t) = Len(s) + Len(t)
      /\ \A i \in 1 .. Len(s) + Len(t) : (s \o t)[i] = IF i <= Len(s) THEN s[i] ELSE t[i - Len(s)]
  BY ConcatProperties
<1>3. PICK u : u = s \o t
  OBVIOUS
<1>4. /\ Len(u) = Len(s) + 1 /\ u \in Seq(S)
      /\ \A i \in 1 .. Len(s) + 1 : u[i] = IF i <= Len(s) THEN s[i] ELSE t[i - Len(s)]
  BY <1>2, <1>3
<1>5. \A i \in 1 .. Len(s) : u[i] = s[i]
  BY <1>1, <1>4
<1>6. u[Len(s) + 1] = t[(Len(s) + 1) - Len(s)] /\ (Len(s) + 1) - Len(s) = 1
  BY <1>1, <1>4
<1> QED BY <1>3, <1>4, <1>5, <1>6

LEMMA WordsSent ==
  ASSUME RunsWell, NEW w, NEW rd, NEW wr, OneCycle(w, rd, wr), NEW c \in Channels, Written(c, wr),
         job[c].mode = "tx"
  PROVE  /\ sent' \in Seq(Words) /\ Len(sent') = sPos[c] + 1
         /\ ~job[c].rdErr => \A i \in 1 .. sPos[c] + 1 : sent'[i] = Asked(c, i)
<1>1. st[c] = "WAIT_WR"
  BY DEF Written, WriteEnds
<1>2. /\ Moved(c) /\ burst[c] = 1 /\ Len(buf[c]) = 1 /\ sPos[c] \in Nat /\ Place(c) = sPos[c]
      /\ ~job[c].rdErr => \A i \in 1 .. burst[c] : buf[c][i] = Asked(c, Place(c) + i)
  BY <1>1, AtTheEnd DEF Goes, Place
<1>3. /\ Len(sent) = sPos[c]
      /\ ~job[c].rdErr => \A i \in 1 .. sPos[c] : sent[i] = Asked(c, i)
  BY <1>2 DEF Moved
<1>4. sent \in Seq(Words) /\ buf[c] \in Seq(Words) /\ sent' = sent \o buf[c]
  BY SentMoves DEF RunsWell, TypeOK
<1>5. /\ sent' \in Seq(Words) /\ Len(sent') = sPos[c] + 1
      /\ \A i \in 1 .. sPos[c] : sent'[i] = sent[i]
      /\ sent'[sPos[c] + 1] = buf[c][1]
  <2>1. PICK s \in Seq(Words), t \in Seq(Words) : s = sent /\ t = buf[c]
    BY <1>4
  <2>2. Len(t) = 1 /\ Len(s) = sPos[c] /\ sent' = s \o t
    BY <1>2, <1>3, <1>4, <2>1
  <2>3. PICK u : u = s \o t
    OBVIOUS
  <2>4. /\ u \in Seq(Words) /\ Len(u) = Len(s) + 1
        /\ \A i \in 1 .. Len(s) : u[i] = s[i]
        /\ u[Len(s) + 1] = t[1]
    BY <2>2, <2>3, OneMore
  <2> QED BY <2>1, <2>2, <2>3, <2>4
<1>6. ASSUME ~job[c].rdErr, NEW i \in 1 .. sPos[c] + 1 PROVE sent'[i] = Asked(c, i)
  <2>1. CASE i \in 1 .. sPos[c]
    BY <1>3, <1>5, <1>6, <2>1
  <2>2. CASE i = sPos[c] + 1
    BY <1>2, <1>5, <1>6, <2>2
  <2> QED BY <1>2, <2>1, <2>2
<1> QED BY <1>5, <1>6

\* The end of a job that the memory has taken.
LEMMA EndsWell ==
  ASSUME RunsWell, NEW w, NEW rd, NEW wr, OneCycle(w, rd, wr), NEW c \in Channels, Written(c, wr),
         LastBurst(c)
  PROVE  ~job[c].rdErr => Copied(c)'
<1>1. SUFFICES ASSUME ~job[c].rdErr PROVE Copied(c)'
  OBVIOUS
<1>2. st[c] = "WAIT_WR"
  BY DEF Written, WriteEnds
<1>3. /\ burst[c] \in Nat \ {0} /\ left[c] \in Nat \ {0} /\ left[c] <= burst[c]
      /\ sPos[c] \in Nat /\ dPos[c] \in Nat /\ job[c].len \in 0 .. BufLen /\ BufLen \in Nat
      /\ Place(c) + left[c] = job[c].len
      /\ job[c].mode # "mem" => burst[c] = 1
  BY <1>2, AtTheEnd DEF LastBurst, Goes, ToMove
<1>4. /\ job'[c].len = job[c].len /\ job'[c].mode = job[c].mode
      /\ \A i : Asked(c, i)' = Asked(c, i)
  BY JobKept DEF RunsWell
<1>5. CASE job[c].mode = "tx"
  <2>1. job[c].len = sPos[c] + 1
    BY <1>3, <1>5 DEF Place
  <2>2. sent' \in Seq(Words) /\ Len(sent') = job[c].len /\ \A i \in 1 .. job[c].len : sent'[i] = Asked(c, i)
    BY <1>1, <1>5, <2>1, WordsSent
  <2>3. sent' = [i \in 1 .. Len(sent') |-> sent'[i]]
    BY <2>2
  <2>4. sent' = [i \in 1 .. job[c].len |-> Asked(c, i)]
    BY <2>2, <2>3
  <2>5. sent' = [i \in 1 .. job'[c].len |-> Asked(c, i)']
    BY <1>4, <2>4
  <2> QED BY <1>4, <1>5, <2>5 DEF Copied
<1>6. CASE job[c].mode # "tx"
  <2>1. job[c].len <= dPos[c] + burst[c]
    BY <1>3, <1>6 DEF Place
  <2>2. \A i \in 1 .. job[c].len : i \in Positions /\ i <= dPos[c] + burst[c]
    BY <1>3, <2>1 DEF Positions
  <2>3. \A i \in 1 .. job[c].len : mem'[c][i] = Asked(c, i)
    BY <1>1, <1>6, <2>2, BurstMoves
  <2> QED BY <1>4, <1>6, <2>3 DEF Copied
<1> QED BY <1>5, <1>6

\* A burst writes behind its job only when a tail is taken for a full one.
LEMMA StaysInBurst ==
  ASSUME RunsWell, NEW w, NEW rd, NEW wr, OneCycle(w, rd, wr), NEW c \in Channels, Written(c, wr)
  PROVE  InBurst(c)'
<1>1. job'[c].len = job[c].len /\ job'[c].mode = job[c].mode
  BY JobKept DEF RunsWell
<1>2. st[c] = "WAIT_WR"
  BY DEF Written, WriteEnds
<1>3. /\ burst[c] \in Nat \ {0} /\ left[c] \in Nat \ {0} /\ InBurst(c)
      /\ dPos[c] \in Nat /\ job[c].len \in Nat
      /\ job[c].mode # "mem" => burst[c] = 1
      /\ job[c].mode = "mem" /\ burst[c] # left[c] => burst[c] = BurstLen + 1 /\ 4 * left[c] >= BurstLen + 4
      /\ Place(c) + left[c] = job[c].len
      /\ job[c].mode = "mem" => left[c] % (BurstLen + 1) = job[c].len % (BurstLen + 1)
  BY <1>2, AtTheEnd DEF Goes, ToMove
<1>4. CASE job[c].mode = "tx"
  <2>1. mem'[c] = mem[c]
    BY <1>4, MemMoves
  <2> QED BY <1>1, <1>3, <2>1 DEF InBurst
<1>5. CASE job[c].mode # "tx"
  <2>1. PICK t : t = job[c].len % (BurstLen + 1)
    OBVIOUS
  <2>2. dPos[c] + left[c] = job[c].len
    BY <1>3, <1>5 DEF Place
  <2>3. ASSUME NEW i \in Positions, i > job[c].len, mem'[c][i] # <<"old", 0>>
        PROVE  job[c].mode = "mem" /\ 4 * t >= BurstLen + 4 /\ i <= job[c].len - t + BurstLen + 1
    <3>1. i \in Nat /\ BurstLen \in Nat
      BY SysDmaConstants DEF Positions
    <3>2. i <= dPos[c] + burst[c]
      BY <1>3, <1>5, <2>3, <3>1, BurstMoves
    <3>3. left[c] < burst[c]
      BY <1>3, <2>2, <2>3, <3>1, <3>2
    <3>4. job[c].mode = "mem" /\ burst[c] = BurstLen + 1 /\ 4 * left[c] >= BurstLen + 4
      BY <1>3, <3>3
    <3>5. left[c] % (BurstLen + 1) = left[c]
      BY <1>3, <3>1, <3>3, <3>4, SmallerThanOne
    <3>6. t = left[c]
      BY <1>3, <2>1, <3>4, <3>5
    <3> QED BY <1>3, <2>2, <3>1, <3>2, <3>4, <3>6
  <2>4. \A i \in Positions : i > job'[c].len /\ mem'[c][i] # <<"old", 0>> =>
          job'[c].mode = "mem" /\ 4 * t >= BurstLen + 4 /\ i <= job'[c].len - t + BurstLen + 1
    BY <1>1, <2>3
  <2>5. t = job'[c].len % (BurstLen + 1)
    BY <1>1, <2>1
  <2> QED BY <2>4, <2>5 DEF InBurst
<1> QED BY <1>4, <1>5

\* A burst that is not the last is followed by the rest of the job.
LEMMA NextBurst ==
  ASSUME RunsWell, NEW w, NEW rd, NEW wr, OneCycle(w, rd, wr), NEW c \in Channels, Written(c, wr),
         ~LastBurst(c)
  PROVE  st'[c] \in {"P_WAIT", "FETCH_RD"} /\ Goes(c)'
<1>1. st[c] = "WAIT_WR" /\ WriteEnds(c, wr) /\ wr = "ok" /\ ~ReadEnds(c, rd)
  BY DEF Written, WriteEnds, ReadEnds
<1>2. st'[c] \in {"P_WAIT", "FETCH_RD"}
  BY <1>1, CycleParts, ChannelMoves, StateMoves DEF RunsWell
<1>3. /\ Goes(c) /\ Latches(c)
      /\ burst[c] \in Nat \ {0} /\ left[c] \in Nat \ {0} /\ left[c] > burst[c]
      /\ dPos[c] \in Nat /\ sPos[c] \in Nat /\ job[c].len \in Nat
      /\ job[c].mode # "mem" => burst[c] = 1
      /\ job[c].mode = "mem" => burst[c] = BurstLen + 1
      /\ job[c].mode = "rx" => taken = dPos[c] + 1
      /\ Place(c) + left[c] = job[c].len
      /\ job[c].mode = "mem" => left[c] % (BurstLen + 1) = job[c].len % (BurstLen + 1)
  BY <1>1, AtTheEnd DEF LastBurst, Goes, ToMove
<1>4. /\ job'[c].len = job[c].len /\ job'[c].mode = job[c].mode
      /\ job'[c].rdErr <=> job[c].rdErr
      /\ ~job'[c].wrErr
      /\ \A i : Asked(c, i)' = Asked(c, i)
  BY <1>1, <1>3, JobKept DEF RunsWell, Goes
<1>5. jMode[c] = job[c].mode
  BY <1>3 DEF Latches
<1>6. /\ sPos'[c] = IF job[c].mode # "rx" THEN sPos[c] + burst[c] ELSE sPos[c]
      /\ dPos'[c] = IF job[c].mode # "tx" THEN dPos[c] + burst[c] ELSE dPos[c]
      /\ left'[c] = left[c] - burst[c]
  <2>1. ~Starts(c)
    BY <1>1 DEF Starts
  <2> QED BY <1>1, <1>5, <2>1, CycleParts, ChannelMoves DEF RunsWell
<1>7. Moved(c)'
  <2>1. CASE job[c].mode = "tx"
    <3>1. mem'[c] = mem[c] /\ mem[c] = Blank /\ Blank' = Blank
      BY <1>3, <2>1, MemMoves DEF Goes, Moved, Blank
    <3>2. sPos'[c] = sPos[c] + 1
      BY <1>3, <1>6, <2>1
    <3>3. /\ Len(sent') = sPos'[c]
          /\ ~job[c].rdErr => \A i \in 1 .. sPos'[c] : sent'[i] = Asked(c, i)
      BY <2>1, <3>2, WordsSent
    <3> QED BY <1>4, <2>1, <3>1, <3>3 DEF Moved
  <2>2. CASE job[c].mode # "tx"
    BY <1>4, <1>6, <2>2, BurstMoves DEF Moved
  <2> QED BY <2>1, <2>2
<1>8. ToMove(c)'
  <2>1. left'[c] >= 1 /\ Place(c)' + left'[c] = job'[c].len
    BY <1>3, <1>4, <1>6 DEF Place
  <2>2. job[c].mode = "mem" => left'[c] % (BurstLen + 1) = job[c].len % (BurstLen + 1)
    <3>1. SUFFICES ASSUME job[c].mode = "mem"
                   PROVE  left'[c] % (BurstLen + 1) = job[c].len % (BurstLen + 1)
      OBVIOUS
    <3>2. BurstLen + 1 \in Nat \ {0} /\ burst[c] = BurstLen + 1 /\ left[c] >= BurstLen + 1
      BY <1>3, <3>1, SysDmaConstants
    <3>3. (left[c] - (BurstLen + 1)) % (BurstLen + 1) = left[c] % (BurstLen + 1)
      BY <1>3, <3>2, WithoutOneMore
    <3> QED BY <1>3, <1>6, <3>1, <3>2, <3>3
  <2>3. job[c].mode = "rx" => taken' = dPos'[c]
    BY <1>1, <1>3, <1>6, TakenMoves
  <2>4. st'[c] \notin Loaded
    BY <1>2 DEF Loaded
  <2> QED BY <1>4, <2>1, <2>2, <2>3, <2>4 DEF ToMove
<1>9. InHand(c)'
  BY <1>2 DEF InHand, Bursting, Loaded
<1> QED BY <1>2, <1>4, <1>7, <1>8, <1>9 DEF Goes

\* A job begins with nothing written.
LEMMA JobBegins ==
  ASSUME RunsWell, NEW w, NEW rd, NEW wr, OneCycle(w, rd, wr), NEW c \in Channels,
         st[c] = "IDLE", startPulse[c]
  PROVE  /\ ~startPulse'[c] /\ ~Pending(c)' /\ result'[c] = "none" /\ ~errPulse'[c] /\ ~job'[c].wrErr
         /\ mem'[c] = Blank
         /\ job[c].len = 0 => st'[c] = "IDLE" /\ donePulse'[c] /\ Copied(c)'
         /\ job[c].len # 0 => st'[c] \in {"P_WAIT", "FETCH_RD"} /\ ~donePulse'[c] /\ Latches(c)' /\ Goes(c)'
<1>1. /\ Fresh(c) /\ ~Pending(c) /\ Starts(c)
      /\ rSrc[c] = SrcOf(c) /\ rDst[c] = DstOf(c) /\ rLen[c] = job[c].len /\ rMode[c] = job[c].mode
  BY DEF RunsWell, BeginInv, Starts
<1>2. ~startPulse'[c] /\ ~Pending(c)' /\ rDst'[c] = rDst[c] /\ result'[c] = "none"
  BY <1>1, RegisterMoves, CycleParts DEF Fresh, RunsWell
<1>3. ~ReadEnds(c, rd) /\ ~WriteEnds(c, wr) /\ ~Written(c, wr)
  BY DEF ReadEnds, WriteEnds, Written
<1>4. /\ mem'[c] = Blank
      /\ job[c].mode = "tx" => sent' = <<>>
      /\ job[c].mode = "rx" => taken' = 0
  BY <1>1, <1>3, CopiedKept, TakenMoves DEF Fresh
<1>5. /\ job'[c].len = job[c].len /\ job'[c].mode = job[c].mode /\ job'[c].src = job[c].src
      /\ ~job'[c].wrErr
      /\ SrcOf(c)' = SrcOf(c) /\ DstOf(c)' = DstOf(c) /\ \A i : Asked(c, i)' = Asked(c, i)
  BY <1>1, <1>3, JobKept DEF Fresh, RunsWell
<1>6. /\ st'[c] = NextState(c, rd, wr) /\ ~errPulse'[c]
      /\ donePulse'[c] <=> job[c].len = 0
  BY <1>1, <1>3, CycleParts, ChannelMoves DEF RunsWell
<1>7. job[c].len \in Nat
  BY SysDmaConstants DEF RunsWell, JobsInv
<1>8. ASSUME job[c].len = 0 PROVE st'[c] = "IDLE" /\ Copied(c)'
  <2>1. st'[c] = "IDLE"
    BY <1>1, <1>6, <1>8, StateMoves
  <2>2. CASE job[c].mode = "tx"
    <3>1. sent' = [i \in 1 .. 0 |-> Asked(c, i)']
      BY <1>4, <2>2
    <3>2. job'[c].len = 0 /\ job'[c].mode = "tx"
      BY <1>5, <1>8, <2>2
    <3>3. sent' = [i \in 1 .. job'[c].len |-> Asked(c, i)']
      BY <3>1, <3>2
    <3> QED BY <2>1, <3>2, <3>3 DEF Copied
  <2>3. CASE job[c].mode # "tx"
    <3>1. job'[c].len = 0 /\ job'[c].mode # "tx"
      BY <1>5, <1>8, <2>3
    <3>2. \A i \in 1 .. job'[c].len : mem'[c][i] = Asked(c, i)'
      BY <3>1
    <3> QED BY <2>1, <3>1, <3>2 DEF Copied
  <2> QED BY <2>1, <2>2, <2>3
<1>9. ASSUME job[c].len # 0
      PROVE  st'[c] \in {"P_WAIT", "FETCH_RD"} /\ Latches(c)' /\ Goes(c)'
  <2>1. st'[c] \in {"P_WAIT", "FETCH_RD"}
    BY <1>1, <1>6, <1>9, StateMoves
  <2>2. /\ jSrc'[c] = rSrc[c] /\ jDst'[c] = rDst[c] /\ jMode'[c] = rMode[c]
        /\ sPos'[c] = 0 /\ dPos'[c] = 0 /\ left'[c] = job[c].len
    BY <1>1, <1>9, CycleParts, ChannelMoves DEF RunsWell
  <2>3. Latches(c)'
    BY <1>1, <1>2, <1>5, <2>2 DEF Latches, Fresh
  <2>4. Moved(c)'
    <3>1. CASE job[c].mode = "tx"
      <4>1. Len(sent') = sPos'[c] /\ 1 .. sPos'[c] = {}
        BY <1>4, <2>2, <3>1
      <4> QED BY <1>4, <1>5, <3>1, <4>1 DEF Moved, Blank
    <3>2. CASE job[c].mode # "tx"
      <4>1. \A i \in Positions : i > 0 /\ mem'[c][i] = <<"old", 0>>
        BY <1>4, SysDmaConstants DEF Positions, Blank
      <4> QED BY <1>5, <2>2, <3>2, <4>1, SysDmaConstants DEF Moved, Positions
    <3> QED BY <3>1, <3>2
  <2>5. ToMove(c)'
    BY <1>4, <1>5, <1>7, <1>9, <2>1, <2>2 DEF ToMove, Place, Loaded
  <2>6. InHand(c)'
    BY <2>1 DEF InHand, Bursting, Loaded
  <2> QED BY <1>5, <2>1, <2>3, <2>4, <2>5, <2>6 DEF Goes
<1> QED BY <1>2, <1>4, <1>5, <1>6, <1>8, <1>9

LEMMA RunStep ==
  ASSUME RunsWell, NEW w, NEW rd, NEW wr, OneCycle(w, rd, wr)
  PROVE  RunInv'
<1> DEFINE Runs(c) ==
      /\ InBurst(c)
      /\ errPulse[c] => st[c] = "ERROR"
      /\ donePulse[c] => st[c] = "IDLE"
      /\ st[c] # "IDLE" =>
           /\ ~startPulse[c] /\ ~Pending(c) /\ result[c] = "none" /\ Latches(c)
           /\ st[c] = "DONE" => Good(c)
           /\ st[c] = "ERROR" => job[c].wrErr
           /\ st[c] \notin {"DONE", "ERROR"} => Goes(c)
<1> SUFFICES ASSUME NEW c \in Channels PROVE Runs(c)'
  BY DEF RunInv, Goes, Channels
<1>1. /\ st'[c] = NextState(c, rd, wr)
      /\ errPulse'[c] <=> WriteEnds(c, wr) /\ wr = "err"
      /\ donePulse'[c] <=> st[c] = "DONE" \/ (Starts(c) /\ rLen[c] = 0)
  BY CycleParts, ChannelMoves DEF RunsWell
<1>2. CASE st[c] = "IDLE" /\ ~startPulse[c]
  <2>1. ~Written(c, wr)
    BY <1>2 DEF Written, WriteEnds
  <2> QED BY <1>2, <2>1, InBurstKept, IdleStays
<1>3. CASE st[c] = "IDLE" /\ startPulse[c]
  <2>1. ~Written(c, wr)
    BY <1>3 DEF Written, WriteEnds
  <2>2. CASE job[c].len = 0
    BY <1>3, <2>1, <2>2, InBurstKept, JobBegins
  <2>3. CASE job[c].len # 0
    BY <1>3, <2>1, <2>3, InBurstKept, JobBegins
  <2> QED BY <2>2, <2>3
<1>4. CASE st[c] \in Moving /\ ~WriteEnds(c, wr)
  <2>1. st[c] # "IDLE" /\ ~Written(c, wr) /\ ~errPulse'[c] /\ ~donePulse'[c]
    BY <1>1, <1>4 DEF Moving, Written, Starts
  <2>2. st'[c] \in Moving /\ Goes(c)'
    BY <1>4, GoesOn
  <2> QED BY <2>1, <2>2, InBurstKept, BusyStays DEF Moving
<1>5. CASE WriteEnds(c, wr) /\ wr = "err"
  <2>1. st[c] = "WAIT_WR" /\ ~Written(c, wr) /\ ~donePulse'[c]
    BY <1>1, <1>5 DEF WriteEnds, Written, Starts
  <2>2. st'[c] = "ERROR" /\ job'[c].wrErr
    BY <1>1, <1>5, <2>1, StateMoves, JobKept DEF RunsWell
  <2> QED BY <2>1, <2>2, InBurstKept, BusyStays
<1>6. CASE Written(c, wr)
  <2>1. st[c] = "WAIT_WR" /\ WriteEnds(c, wr) /\ wr = "ok" /\ ~errPulse'[c] /\ ~donePulse'[c]
    BY <1>1, <1>6 DEF WriteEnds, Written, Starts
  <2>2. CASE LastBurst(c)
    <3>1. st'[c] = "DONE"
      BY <1>1, <2>1, <2>2, StateMoves
    <3>2. Good(c)'
      <4>1. ~job[c].wrErr
        BY <2>1, AtTheEnd DEF Goes
      <4>2. ~job'[c].wrErr /\ (~job'[c].rdErr => ~job[c].rdErr)
        BY <2>1, <4>1, JobKept DEF RunsWell
      <4> QED BY <1>6, <2>2, <4>2, EndsWell DEF Good
    <3> QED BY <1>6, <2>1, <3>1, <3>2, StaysInBurst, BusyStays
  <2>3. CASE ~LastBurst(c)
    BY <1>6, <2>1, <2>3, NextBurst, StaysInBurst, BusyStays
  <2> QED BY <2>2, <2>3
<1>7. CASE st[c] \in {"DONE", "ERROR"}
  <2>1. ~Written(c, wr) /\ ~errPulse'[c] /\ st'[c] = "IDLE"
    BY <1>1, <1>7, StateMoves DEF WriteEnds, Written
  <2> QED BY <2>1, InBurstKept
<1>8. st[c] \in States /\ (WriteEnds(c, wr) => wr \in {"ok", "err"})
  BY CycleParts DEF RunsWell, TypeOK, WriteEnds, WrAnswers, Answers
<1> QED BY <1>2, <1>3, <1>4, <1>5, <1>6, <1>7, <1>8 DEF States, Moving, Written

(***************************************************************************)
(* What the program may learn.  A write to STATUS or IRQ_STATUS erases     *)
(* flags and makes none; the pulse it loses is no news either.             *)
(***************************************************************************)
LEMMA FlagMoves ==
  ASSUME TypeOK, NEW w, RegisterCycle(w), NEW c \in Channels
  PROVE  /\ stDone'[c] => stDone[c] \/ donePulse[c]
         /\ stErr'[c] => stErr[c] \/ errPulse[c]
         /\ irqSt'[c] => irqSt[c] \/ donePulse[c] \/ errPulse[c]
         /\ Clears(w, c) => ~stDone'[c] /\ ~stErr'[c]
         /\ w = IrqStatus(Channels) => ~irqSt'[c]
         /\ w[1] # "irqEnable" => irqEn' = irqEn
<1>1. /\ stDone'[c] = IF w[1] = "status" THEN (stDone[c] /\ c \notin w[2]) ELSE (stDone[c] \/ donePulse[c])
      /\ stErr'[c] = IF w[1] = "status" THEN (stErr[c] /\ c \notin w[3]) ELSE (stErr[c] \/ errPulse[c])
  BY DEF RegisterCycle, Without, Latched, Kind
<1>2. irqSt'[c] = IF w[1] = "irqStatus" THEN (irqSt[c] /\ c \notin w[2])
                  ELSE (irqSt[c] \/ (donePulse[c] \/ errPulse[c]))
  BY DEF RegisterCycle, Without, Latched, Kind
<1>3. w[1] # "irqEnable" => irqEn' = irqEn
  BY DEF RegisterCycle, Kind
<1>4. w = IrqStatus(Channels) => w[1] = "irqStatus" /\ w[2] = Channels
  BY DEF IrqStatus
<1>5. Clears(w, c) => w[1] = "status" /\ c \in w[2] /\ c \in w[3]
  BY DEF Clears
<1> QED BY <1>1, <1>2, <1>3, <1>4, <1>5

LEMMA FirstWrite ==
  ASSUME TypeOK, NEW w, Lands(w)
  PROVE  \/ w = todo[1]
         \/ todo' = todo /\ w[1] \in {"status", "irqStatus", "none"}
BY TodoMoves

\* What a channel with no write of its own ahead may tell after a cycle.
LEMMA EndMoves ==
  ASSUME RunsWell, NEW w, NEW rd, NEW wr, OneCycle(w, rd, wr), NEW c \in Channels, ~Pending(c)
  PROVE  /\ Resting(c) => Resting(c)' /\ ~donePulse'[c] /\ ~errPulse[c] /\ (Good(c) <=> Good(c)')
                          /\ (job[c].wrErr <=> job'[c].wrErr) /\ (job[c].rdErr <=> job'[c].rdErr)
                          /\ (Copied(c) <=> Copied(c)')
         /\ ~Resting(c) /\ Resting(c)' => /\ donePulse'[c] => Good(c)'
                                          /\ errPulse[c] => job'[c].wrErr
         /\ ~Resting(c) /\ ~Resting(c)' => ~donePulse'[c] /\ ~errPulse[c]
<1>1. ~Pending(c)' /\ ~IsStart(w, c) /\ ~startPulse'[c]
  BY RegisterMoves
<1>2. /\ st'[c] = NextState(c, rd, wr)
      /\ donePulse'[c] <=> st[c] = "DONE" \/ (Starts(c) /\ rLen[c] = 0)
  BY CycleParts, ChannelMoves DEF RunsWell
<1>3. errPulse[c] => st[c] = "ERROR"
  BY DEF RunsWell, RunInv
<1>4. ASSUME Resting(c)
      PROVE  Resting(c)' /\ ~donePulse'[c] /\ ~errPulse[c] /\ (Good(c) <=> Good(c)')
             /\ (job[c].wrErr <=> job'[c].wrErr) /\ (job[c].rdErr <=> job'[c].rdErr)
             /\ (Copied(c) <=> Copied(c)')
  <2>1. st[c] = "IDLE" /\ ~startPulse[c]
    BY <1>4 DEF Resting
  <2>2. /\ st'[c] = "IDLE" /\ ~donePulse'[c]
        /\ job'[c].rdErr <=> job[c].rdErr
        /\ job'[c].wrErr <=> job[c].wrErr
        /\ Copied(c)' <=> Copied(c)
    BY <2>1, IdleStays
  <2> QED BY <1>1, <1>3, <2>1, <2>2 DEF Resting, Good
<1>5. CASE st[c] = "IDLE" /\ startPulse[c]
  <2>1. ~Resting(c) /\ ~errPulse[c]
    BY <1>3, <1>5 DEF Resting
  <2>2. CASE job[c].len = 0
    <3>1. Good(c)'
      BY <1>5, <2>2, JobBegins DEF Good
    <3>2. Resting(c)'
      BY <1>1, <1>5, <2>2, JobBegins DEF Resting
    <3> QED BY <2>1, <3>1, <3>2
  <2>3. CASE job[c].len # 0
    <3>1. ~Resting(c)' /\ ~donePulse'[c]
      BY <1>5, <2>3, JobBegins DEF Resting
    <3> QED BY <2>1, <3>1
  <2> QED BY <2>2, <2>3
<1>6. CASE st[c] = "DONE"
  <2>1. st'[c] = "IDLE" /\ ~errPulse[c] /\ Resting(c)' /\ ~Resting(c)
    BY <1>1, <1>2, <1>3, <1>6, StateMoves DEF Resting
  <2>2. Good(c)
    BY <1>6 DEF RunsWell, RunInv
  <2>3. Good(c)'
    <3>1. ~Written(c, wr) /\ ~ReadEnds(c, rd) /\ ~WriteEnds(c, wr)
      BY <1>6 DEF Written, ReadEnds, WriteEnds
    <3>2. Copied(c)' <=> Copied(c)
      BY <3>1, CopiedKept
    <3>3. (job'[c].rdErr <=> job[c].rdErr) /\ (job'[c].wrErr <=> job[c].wrErr)
      BY <3>1, JobKept DEF RunsWell
    <3> QED BY <2>2, <3>2, <3>3 DEF Good
  <2> QED BY <2>1, <2>3
<1>7. CASE st[c] = "ERROR"
  <2>1. st'[c] = "IDLE" /\ ~donePulse'[c] /\ Resting(c)' /\ ~Resting(c)
    BY <1>1, <1>2, <1>7, StateMoves DEF Resting, Starts
  <2>2. job'[c].wrErr
    <3>1. job[c].wrErr
      BY <1>7 DEF RunsWell, RunInv
    <3> QED BY <3>1, JobKept DEF RunsWell
  <2> QED BY <2>1, <2>2
<1>8. CASE st[c] \in Moving
  <2>1. ~donePulse'[c] /\ ~errPulse[c] /\ ~Resting(c)
    BY <1>2, <1>3, <1>8 DEF Moving, Starts, Resting
  <2>2. st'[c] # "IDLE"
    BY <1>2, <1>8, StateMoves DEF Moving
  <2> QED BY <2>1, <2>2 DEF Resting
<1>9. CASE st[c] = "IDLE" /\ ~startPulse[c]
  <2>1. Resting(c)
    BY <1>9 DEF Resting
  <2> QED BY <1>4, <2>1
<1>10. st[c] \in States
  BY DEF RunsWell, TypeOK
<1> QED BY <1>5, <1>6, <1>7, <1>8, <1>9, <1>10 DEF States, Moving

\* The flags of a channel that is to be started are clear, or about to be.
LEMMA FreshFlags ==
  ASSUME RunsWell, NEW w, NEW rd, NEW wr, OneCycle(w, rd, wr), NEW c \in Channels, Pending(c)
  PROVE  /\ Quiet(c) \/ Clears(w, c) => Quiet(c)'
         /\ Calm(c) \/ w = IrqStatus(Channels) => Calm(c)'
<1>1. ~donePulse'[c] /\ ~errPulse[c]
  BY FreshStays DEF RunsWell, BeginInv, Fresh
<1> QED BY <1>1, FlagMoves, CycleParts DEF Quiet, Calm, RunsWell

LEMMA FlagsStep ==
  ASSUME RunsWell, FlagsInv, NEW w, NEW rd, NEW wr, OneCycle(w, rd, wr)
  PROVE  FlagsInv'
<1>1. /\ TypeOK /\ Lands(w) /\ RegisterCycle(w) /\ awaited' = awaited /\ background' = background
      /\ awaited \subseteq Channels /\ background \subseteq Channels
  BY CycleParts DEF RunsWell, TypeOK
<1>2. ASSUME NEW c \in awaited
      PROVE  IF Pending(c)' THEN Quiet(c)' \/ Clears(todo'[1], c)
             ELSE IF Resting(c)'
             THEN (donePulse'[c] \/ stDone'[c] => Good(c)') /\ (stErr'[c] => job'[c].wrErr)
             ELSE Quiet(c)'
  <2>1. c \in Channels
    BY <1>1
  <2>2. CASE Pending(c)
    <3>1. Quiet(c) \/ Clears(todo[1], c)
      BY <2>2 DEF FlagsInv
    <3>2. CASE Pending(c)'
      <4>1. Quiet(c)' \/ Clears(todo'[1], c)
        BY <1>1, <2>1, <2>2, <3>1, FirstWrite, FreshFlags
      <4> QED BY <3>2, <4>1
    <3>3. CASE ~Pending(c)'
      <4>1. IsStart(w, c)
        BY <2>1, <2>2, <3>3, RegisterMoves
      <4>2. w[1] = "ctrl" /\ w = todo[1]
        BY <1>1, <4>1, FirstWrite DEF IsStart
      <4>3. Quiet(c)
        BY <3>1, <4>2 DEF Clears
      <4>4. Quiet(c)' /\ startPulse'[c]
        BY <2>1, <2>2, <4>1, <4>3, FreshFlags, RegisterMoves
      <4> QED BY <3>3, <4>4 DEF Resting
    <3> QED BY <3>2, <3>3
  <2>3. CASE ~Pending(c)
    <3>1. ~Pending(c)'
      BY <2>1, <2>3, RegisterMoves
    <3>2. /\ stDone'[c] => stDone[c] \/ donePulse[c]
          /\ stErr'[c] => stErr[c] \/ errPulse[c]
      BY <1>1, <2>1, FlagMoves
    <3>3. CASE Resting(c)
      <4>1. (donePulse[c] \/ stDone[c] => Good(c)) /\ (stErr[c] => job[c].wrErr)
        BY <2>3, <3>3 DEF FlagsInv
      <4>2. /\ Resting(c)' /\ ~donePulse'[c] /\ ~errPulse[c] /\ (Good(c) <=> Good(c)')
            /\ job[c].wrErr <=> job'[c].wrErr
        BY <2>1, <2>3, <3>3, EndMoves
      <4> QED BY <3>1, <3>2, <4>1, <4>2
    <3>4. CASE ~Resting(c)
      <4>1. Quiet(c)
        BY <2>3, <3>4 DEF FlagsInv
      <4>2. ~stDone'[c] /\ (stErr'[c] => errPulse[c])
        BY <3>2, <4>1 DEF Quiet
      <4>3. CASE Resting(c)'
        <5>1. (donePulse'[c] => Good(c)') /\ (errPulse[c] => job'[c].wrErr)
          BY <2>1, <2>3, <3>4, <4>3, EndMoves
        <5> QED BY <3>1, <4>2, <4>3, <5>1
      <4>4. CASE ~Resting(c)'
        <5>1. ~donePulse'[c] /\ ~errPulse[c]
          BY <2>1, <2>3, <3>4, <4>4, EndMoves
        <5> QED BY <3>1, <4>2, <4>4, <5>1 DEF Quiet
      <4> QED BY <4>3, <4>4
    <3> QED BY <3>3, <3>4
  <2> QED BY <2>2, <2>3
<1>3. ASSUME NEW c \in background
      PROVE  IF Pending(c)' THEN Calm(c)' \/ (c \notin irqEn' /\ todo'[1] = IrqStatus(Channels))
             ELSE IF Resting(c)'
             THEN donePulse'[c] \/ irqSt'[c] => job'[c].wrErr \/ job'[c].rdErr \/ Copied(c)'
             ELSE Calm(c)'
  <2>1. c \in Channels
    BY <1>1
  <2>2. CASE Pending(c)
    <3>1. Calm(c) \/ (c \notin irqEn /\ todo[1] = IrqStatus(Channels))
      BY <2>2 DEF FlagsInv
    <3>2. CASE Pending(c)'
      <4>1. CASE Calm(c) \/ w = IrqStatus(Channels)
        BY <2>1, <2>2, <3>2, <4>1, FreshFlags
      <4>2. CASE ~Calm(c) /\ w # IrqStatus(Channels)
        <5>1. todo' = todo /\ w[1] \in {"status", "irqStatus", "none"}
          BY <1>1, <3>1, <4>2, FirstWrite
        <5>2. irqEn' = irqEn
          BY <1>1, <2>1, <5>1, FlagMoves
        <5> QED BY <3>1, <3>2, <4>2, <5>1, <5>2 DEF IrqStatus, Channels
      <4> QED BY <4>1, <4>2
    <3>3. CASE ~Pending(c)'
      <4>1. IsStart(w, c)
        BY <2>1, <2>2, <3>3, RegisterMoves
      <4>2. w[1] = "ctrl" /\ w = todo[1]
        BY <1>1, <4>1, FirstWrite DEF IsStart
      <4>3. Calm(c)
        BY <3>1, <4>2 DEF IrqStatus
      <4>4. Calm(c)' /\ startPulse'[c]
        BY <2>1, <2>2, <4>1, <4>3, FreshFlags, RegisterMoves
      <4> QED BY <3>3, <4>4 DEF Resting
    <3> QED BY <3>2, <3>3
  <2>3. CASE ~Pending(c)
    <3>1. ~Pending(c)'
      BY <2>1, <2>3, RegisterMoves
    <3>2. irqSt'[c] => irqSt[c] \/ donePulse[c] \/ errPulse[c]
      BY <1>1, <2>1, FlagMoves
    <3>3. CASE Resting(c)
      <4>1. donePulse[c] \/ irqSt[c] => job[c].wrErr \/ job[c].rdErr \/ Copied(c)
        BY <2>3, <3>3 DEF FlagsInv
      <4>2. /\ Resting(c)' /\ ~donePulse'[c] /\ ~errPulse[c] /\ (Copied(c) <=> Copied(c)')
            /\ (job[c].wrErr <=> job'[c].wrErr) /\ (job[c].rdErr <=> job'[c].rdErr)
        BY <2>1, <2>3, <3>3, EndMoves
      <4> QED BY <3>1, <3>2, <4>1, <4>2
    <3>4. CASE ~Resting(c)
      <4>1. Calm(c)
        BY <2>3, <3>4 DEF FlagsInv
      <4>2. irqSt'[c] => errPulse[c]
        BY <3>2, <4>1 DEF Calm
      <4>3. CASE Resting(c)'
        <5>1. (donePulse'[c] => Good(c)') /\ (errPulse[c] => job'[c].wrErr)
          BY <2>1, <2>3, <3>4, <4>3, EndMoves
        <5>2. Good(c)' => job'[c].rdErr \/ Copied(c)'
          BY DEF Good
        <5> QED BY <3>1, <4>2, <4>3, <5>1, <5>2
      <4>4. CASE ~Resting(c)'
        <5>1. ~donePulse'[c] /\ ~errPulse[c]
          BY <2>1, <2>3, <3>4, <4>4, EndMoves
        <5> QED BY <3>1, <4>2, <4>4, <5>1 DEF Calm
      <4> QED BY <4>3, <4>4
    <3> QED BY <3>3, <3>4
  <2> QED BY <2>2, <2>3
<1> QED BY <1>1, <1>2, <1>3 DEF FlagsInv

LEMMA ToldStep ==
  ASSUME RunsWell, ToldInv, NEW w, NEW rd, NEW wr, OneCycle(w, rd, wr)
  PROVE  ToldInv'
<1> SUFFICES ASSUME NEW c \in Channels, result'[c] # "none"
             PROVE  /\ Resting(c)'
                    /\ result'[c] = "err" => job'[c].wrErr
                    /\ result'[c] = "ok" => ~job'[c].wrErr
                    /\ result'[c] \in {"ok", "served"} /\ ~job'[c].rdErr /\ ~job'[c].wrErr => Copied(c)'
  BY DEF ToldInv, Channels
<1>1. result'[c] = result[c] /\ result[c] # "none"
  BY CycleParts DEF RunsWell
<1>2. /\ Resting(c)
      /\ result[c] = "err" => job[c].wrErr
      /\ result[c] = "ok" => ~job[c].wrErr
      /\ result[c] \in {"ok", "served"} /\ ~job[c].rdErr /\ ~job[c].wrErr => Copied(c)
  BY <1>1 DEF ToldInv
<1>3. ~Pending(c)
  BY <1>2 DEF Resting
<1> QED BY <1>1, <1>2, <1>3, EndMoves

(***************************************************************************)
(* The types.  They are not inductive alone: what a burst reads has a type *)
(* because a channel under way has a source, and what it writes because    *)
(* the burst is as long as the words in hand.                              *)
(***************************************************************************)
LEMMA LeastNatural ==
  ASSUME NEW S \in SUBSET Nat, S # {}
  PROVE  \E m \in S : \A n \in S : m <= n
<1> DEFINE R == {p \in Nat \X Nat : p[1] < p[2]}
<1>1. IsWellFoundedOn(R, Nat)
  BY NatLessThanWellFounded DEF OpToRel
<1>2. \A m, n \in Nat : m < n => <<m, n>> \in R
  OBVIOUS
<1> HIDE DEF R
<1>3. PICK m \in S : \A n \in S : <<n, m>> \notin R
  BY <1>1, WFMin
<1>4. ASSUME NEW n \in S PROVE m <= n
  <2>1. m \in Nat /\ n \in Nat /\ <<n, m>> \notin R
    BY <1>3
  <2>2. ~(n < m)
    BY <1>2, <2>1
  <2> QED BY <2>1, <2>2
<1> QED BY <1>4

LEMMA WinnerIsARequest ==
  ASSUME NEW reqs \in SUBSET Channels, NEW last \in Channels, reqs # {}
  PROVE  Winner(reqs, last) \in reqs
<1>1. \A c \in Channels : Ahead(c, last) \in Nat
  BY SysDmaConstants DEF Ahead, Channels
<1> DEFINE S == {Ahead(c, last) : c \in reqs}
<1>2. S \in SUBSET Nat /\ S # {}
  BY <1>1
<1>3. PICK m \in S : \A n \in S : m <= n
  <2> HIDE DEF S
  <2> QED BY <1>2, LeastNatural
<1>4. PICK c \in reqs : m = Ahead(c, last)
  BY <1>3
<1>5. \A d \in reqs : Ahead(c, last) <= Ahead(d, last)
  BY <1>3, <1>4
<1> QED BY <1>5 DEF Winner

LEMMA ArbiterTypes ==
  ASSUME TypeOK, ArbiterCycle
  PROVE  /\ rdOwner' \in Channels \cup {Nobody} /\ rdLast' \in Channels
         /\ wrOwner' \in Channels \cup {Nobody} /\ wrLast' \in Channels
<1>1. ASSUME NEW reqs \in SUBSET Channels, NEW rel, NEW owner \in Channels \cup {Nobody}, NEW last \in Channels
      PROVE  /\ NextOwner(reqs, rel, owner, last) \in Channels \cup {Nobody}
             /\ NextLast(reqs, owner, last) \in Channels
  <2>1. reqs # {} => Winner(reqs, last) \in Channels
    BY WinnerIsARequest
  <2> QED BY <2>1 DEF NextOwner, NextLast
<1>2. RdReqs \in SUBSET Channels /\ WrReqs \in SUBSET Channels
  BY DEF RdReqs, WrReqs
<1>3. /\ rdOwner \in Channels \cup {Nobody} /\ rdLast \in Channels
      /\ wrOwner \in Channels \cup {Nobody} /\ wrLast \in Channels
  BY DEF TypeOK
<1> QED BY <1>1, <1>2, <1>3 DEF ArbiterCycle

LEMMA WriteTypes ==
  ASSUME TypeOK, NEW w, Lands(w)
  PROVE  /\ w[1] = "src" => w[3] \in Sources \cup {"port"}
         /\ w[1] = "dst" => w[3] \in {"buffer", "port"}
         /\ w[1] = "len" => w[3] \in Nat
         /\ w[1] = "ctrl" => w[3] \in BOOLEAN /\ w[5] \in Modes
         /\ w[1] = "irqEnable" => w[2] \subseteq Channels
<1>1. CASE w[1] \in {"status", "irqStatus", "none"}
  BY <1>1
<1>2. CASE w[1] \notin {"status", "irqStatus", "none"}
  <2>1. Len(todo) >= 1 /\ w = todo[1]
    BY <1>2, TodoMoves
  <2>2. todo \in Seq(RegisterWrites)
    BY DEF TypeOK
  <2>3. w \in RegisterWrites
    BY <2>1, <2>2
  <2>4. CASE w \in {"status"} \X (SUBSET Channels) \X (SUBSET Channels)
    BY <1>2, <2>4
  <2>5. CASE w \in {"irqStatus", "irqEnable"} \X (SUBSET Channels)
    BY <2>5
  <2>6. CASE w \in {"src"} \X Channels \X (Sources \cup {"port"})
    BY <2>6
  <2>7. CASE w \in {"dst"} \X Channels \X {"buffer", "port"}
    BY <2>7
  <2>8. CASE w \in {"len"} \X Channels \X Nat
    BY <2>8
  <2>9. CASE w \in {"ctrl"} \X Channels \X BOOLEAN \X BOOLEAN \X Modes
    BY <2>9
  <2> QED BY <2>3, <2>4, <2>5, <2>6, <2>7, <2>8, <2>9 DEF RegisterWrites
<1> QED BY <1>1, <1>2

LEMMA RegisterTypes ==
  ASSUME TypeOK, NEW w, Lands(w), RegisterCycle(w)
  PROVE  /\ rSrc' \in [Channels -> Sources \cup {"port", "unset"}]
         /\ rDst' \in [Channels -> {"buffer", "port", "unset"}]
         /\ rLen' \in [Channels -> Nat] /\ rMode' \in [Channels -> Modes]
         /\ rEn' \in Flags /\ startPulse' \in Flags
         /\ stDone' \in Flags /\ stErr' \in Flags /\ irqEn' \subseteq Channels /\ irqSt' \in Flags
<1>1. rSrc' \in [Channels -> Sources \cup {"port", "unset"}]
  BY WriteTypes DEF TypeOK, RegisterCycle, Configure, Kind
<1>2. rDst' \in [Channels -> {"buffer", "port", "unset"}]
  BY WriteTypes DEF TypeOK, RegisterCycle, Configure, Kind
<1>3. rLen' \in [Channels -> Nat]
  BY WriteTypes DEF TypeOK, RegisterCycle, Configure, Kind
<1>4. rMode' \in [Channels -> Modes]
  BY WriteTypes DEF TypeOK, RegisterCycle, Kind
<1>5. rEn' \in Flags
  BY WriteTypes DEF TypeOK, RegisterCycle, Configure, Kind, Flags
<1>6. startPulse' \in Flags
  BY DEF RegisterCycle, Flags
<1>7. stDone' \in Flags /\ stErr' \in Flags
  BY DEF RegisterCycle, Flags, Without, Latched
<1>8. irqSt' \in Flags
  BY DEF RegisterCycle, Flags, Without, Latched
<1>9. irqEn' \subseteq Channels
  BY WriteTypes DEF TypeOK, RegisterCycle, Kind
<1> QED BY <1>1, <1>2, <1>3, <1>4, <1>5, <1>6, <1>7, <1>8, <1>9

LEMMA ChannelTypes ==
  ASSUME RunsWell, NEW rd, NEW wr, ChannelCycle(rd, wr)
  PROVE  /\ st' \in [Channels -> States]
         /\ jSrc' \in [Channels -> Sources \cup {"port", "unset"}]
         /\ jDst' \in [Channels -> {"buffer", "port", "unset"}]
         /\ jMode' \in [Channels -> Modes]
         /\ sPos' \in [Channels -> Nat] /\ dPos' \in [Channels -> Nat]
         /\ left' \in [Channels -> Nat] /\ burst' \in [Channels -> Nat]
         /\ donePulse' \in Flags /\ errPulse' \in Flags /\ rdRel' \in Flags /\ wrRel' \in Flags
<1>1. TypeOK
  BY DEF RunsWell
<1>2. st' \in [Channels -> States]
  <2>1. \A c \in Channels : NextState(c, rd, wr) \in States
    BY <1>1 DEF NextState, TypeOK, States
  <2> QED BY <2>1 DEF ChannelCycle
<1>3. /\ jSrc' \in [Channels -> Sources \cup {"port", "unset"}]
      /\ jDst' \in [Channels -> {"buffer", "port", "unset"}]
      /\ jMode' \in [Channels -> Modes]
  BY <1>1 DEF ChannelCycle, TypeOK
<1>4. sPos' \in [Channels -> Nat] /\ dPos' \in [Channels -> Nat]
  <2>1. ASSUME NEW c \in Channels PROVE sPos[c] + burst[c] \in Nat /\ dPos[c] + burst[c] \in Nat
    <3>1. sPos[c] \in Nat /\ dPos[c] \in Nat /\ burst[c] \in Nat
      BY <1>1 DEF TypeOK
    <3> QED BY <3>1
  <2>2. /\ sPos' = [c \in Channels |-> IF Starts(c) /\ rLen[c] # 0 THEN 0
              ELSE IF (WriteEnds(c, wr) /\ wr = "ok") /\ jMode[c] # "rx" THEN sPos[c] + burst[c] ELSE sPos[c]]
        /\ dPos' = [c \in Channels |-> IF Starts(c) /\ rLen[c] # 0 THEN 0
              ELSE IF (WriteEnds(c, wr) /\ wr = "ok") /\ jMode[c] # "tx" THEN dPos[c] + burst[c] ELSE dPos[c]]
    BY DEF ChannelCycle
  <2>3. sPos \in [Channels -> Nat] /\ dPos \in [Channels -> Nat]
    BY <1>1 DEF TypeOK
  <2> QED BY <2>1, <2>2, <2>3
<1>5. left' \in [Channels -> Nat]
  <2>1. ASSUME NEW c \in Channels, ~LastBurst(c) PROVE left[c] - burst[c] \in Nat
    <3>1. left[c] \in Nat /\ burst[c] \in Nat
      BY <1>1 DEF TypeOK
    <3> QED BY <2>1, <3>1 DEF LastBurst
  <2>2. left' = [c \in Channels |-> IF Starts(c) /\ rLen[c] # 0 THEN rLen[c]
                   ELSE IF ~(WriteEnds(c, wr) /\ wr = "ok") THEN left[c]
                   ELSE IF LastBurst(c) THEN 0 ELSE left[c] - burst[c]]
    BY DEF ChannelCycle
  <2>3. left \in [Channels -> Nat] /\ rLen \in [Channels -> Nat]
    BY <1>1 DEF TypeOK
  <2> QED BY <2>1, <2>2, <2>3
<1>6. burst' \in [Channels -> Nat]
  <2>1. \A c \in Channels : next_burst_len(c) \in Nat
    BY <1>1, SysDmaConstants DEF next_burst_len, TypeOK
  <2> QED BY <1>1, <2>1 DEF ChannelCycle, TypeOK
<1>7. donePulse' \in Flags /\ errPulse' \in Flags /\ rdRel' \in Flags /\ wrRel' \in Flags
  <2>1. /\ donePulse' = [c \in Channels |-> st[c] = "DONE" \/ (Starts(c) /\ rLen[c] = 0)]
        /\ errPulse' = [c \in Channels |-> WriteEnds(c, wr) /\ wr = "err"]
        /\ rdRel' = [c \in Channels |-> ReadEnds(c, rd)]
        /\ wrRel' = [c \in Channels |-> WriteEnds(c, wr)]
    BY DEF ChannelCycle
  <2> QED BY <2>1 DEF Flags, ReadEnds, WriteEnds
<1> QED BY <1>2, <1>3, <1>4, <1>5, <1>6, <1>7

\* What is read has the type of a word, and what is written had it before.
LEMMA BufTypes ==
  ASSUME RunsWell, NEW rd, NEW wr, ChannelCycle(rd, wr), NEW c \in Channels
  PROVE  buf'[c] \in Seq(Words)
<1>1. buf[c] \in Seq(Words) /\ burst[c] \in Nat /\ sPos[c] \in Nat /\ taken \in Nat
  BY DEF RunsWell, TypeOK
<1>2. ASSUME ReadEnds(c, rd) PROVE ReadData(c, rd) \in Seq(Words)
  <2>1. Latches(c)
    BY <1>2 DEF ReadEnds, RunsWell, RunInv
  <2>2. jSrc[c] \in Sources \cup {"port"}
    BY <2>1 DEF Latches, SrcOf
  <2>3. \A i \in 1 .. burst[c] : ReadWord(c, i) \in Words
    BY <1>1, <2>2 DEF ReadWord, Words
  <2>4. <<"junk", 0>> \in Words
    BY DEF Words
  <2>5. \A i \in 1 .. burst[c] : (IF rd = "err" THEN <<"junk", 0>> ELSE ReadWord(c, i)) \in Words
    BY <2>3, <2>4
  <2>6. ReadData(c, rd) \in [1 .. burst[c] -> Words]
    <3>1. ReadData(c, rd) =
            [i \in 1 .. burst[c] |-> IF rd = "err" THEN <<"junk", 0>> ELSE ReadWord(c, i)]
      BY DEF ReadData
    <3> QED BY ONLY <2>5, <3>1
  <2> QED BY <1>1, <2>6, SeqDef
<1>3. <<>> \in Seq(Words)
  OBVIOUS
<1>4. buf'[c] = IF ReadEnds(c, rd) THEN ReadData(c, rd) ELSE IF WriteEnds(c, wr) THEN <<>> ELSE buf[c]
  BY ChannelMoves
<1>5. buf[c] \in Seq(Words)
  BY <1>1
<1> QED BY ONLY <1>2, <1>3, <1>4, <1>5

LEMMA MemTypes ==
  ASSUME RunsWell, NEW w, NEW rd, NEW wr, OneCycle(w, rd, wr), NEW c \in Channels
  PROVE  mem'[c] \in [Positions -> Words]
<1>1. mem[c] \in [Positions -> Words] /\ buf[c] \in Seq(Words)
  BY DEF RunsWell, TypeOK
<1>2. mem'[c] = IF Written(c, wr) /\ Target(c) = "buffer"
                THEN [i \in Positions |-> IF i - dPos[c] \in 1 .. burst[c] THEN buf[c][i - dPos[c]]
                                          ELSE mem[c][i]]
                ELSE mem[c]
  <2>1. PICK receives \in BOOLEAN, sends \in BOOLEAN : OutsideCycle(rd, wr, receives, sends)
    BY CycleParts DEF RunsWell
  <2> QED BY <2>1 DEF OutsideCycle
<1>3. ASSUME Written(c, wr), NEW i \in Positions, i - dPos[c] \in 1 .. burst[c]
      PROVE  buf[c][i - dPos[c]] \in Words
  <2>1. Len(buf[c]) = burst[c]
    BY <1>3, AtTheEnd DEF Written, WriteEnds
  <2> QED BY <1>1, <1>3, <2>1
<1> QED BY <1>1, <1>2, <1>3

LEMMA OutsideTypes ==
  ASSUME RunsWell, NEW w, NEW rd, NEW wr, OneCycle(w, rd, wr)
  PROVE  /\ rxFull' \in BOOLEAN /\ txFull' \in BOOLEAN /\ taken' \in Nat /\ sent' \in Seq(Words)
         /\ faults' \in 0 .. MaxFaults
<1>1. PICK receives \in BOOLEAN, sends \in BOOLEAN : OutsideCycle(rd, wr, receives, sends)
  BY CycleParts DEF RunsWell
<1>2. /\ taken \in Nat /\ sent \in Seq(Words) /\ faults \in 0 .. MaxFaults
      /\ \A c \in Channels : buf[c] \in Seq(Words)
  BY DEF RunsWell, TypeOK
<1>3. rxFull' \in BOOLEAN /\ txFull' \in BOOLEAN
  BY <1>1, Zenon DEF OutsideCycle
<1>4. taken' \in Nat
  BY <1>1, <1>2 DEF OutsideCycle
<1>5. sent' \in Seq(Words)
  <2> DEFINE puts(c) == Written(c, wr) /\ Target(c) = "port"
  <2>1. sent' = IF \E c \in Channels : puts(c) THEN sent \o buf[CHOOSE c \in Channels : puts(c)] ELSE sent
    BY <1>1 DEF OutsideCycle
  <2> HIDE DEF puts
  <2>2. CASE \E c \in Channels : puts(c)
    <3>1. PICK d \in Channels : d = CHOOSE c \in Channels : puts(c)
      BY <2>2
    <3>2. sent' = sent \o buf[d]
      BY <2>1, <2>2, <3>1
    <3>3. \A s, t \in Seq(Words) : s \o t \in Seq(Words)
      OBVIOUS
    <3> QED BY <1>2, <3>2, <3>3
  <2>3. CASE ~\E c \in Channels : puts(c)
    BY <1>2, <2>1, <2>3
  <2> QED BY <2>2, <2>3
<1>6. faults' \in 0 .. MaxFaults
  <2>1. "err" \in {rd, wr} => faults > 0
    BY CycleParts DEF RunsWell, RdAnswers, WrAnswers, Answers
  <2>2. faults' = IF "err" \in {rd, wr} THEN faults - 1 ELSE faults
    BY <1>1 DEF OutsideCycle
  <2> QED BY <1>2, <2>1, <2>2, SysDmaConstants
<1> QED BY <1>3, <1>4, <1>5, <1>6

LEMMA CycleTypes ==
  ASSUME RunsWell, NEW w, NEW rd, NEW wr, OneCycle(w, rd, wr), calls' = calls,
         isrTodo' \subseteq Channels, isrNext' \in {1, 2}
  PROVE  TypeOK'
<1>1. TypeOK /\ Lands(w) /\ RegisterCycle(w) /\ ChannelCycle(rd, wr) /\ ArbiterCycle
  BY CycleParts DEF RunsWell
<1>2. /\ call' \in {"none", "memcpy", "pair", "background", "disable"}
      /\ awaited' \subseteq Channels /\ calls' \in 0 .. MaxCalls
      /\ result' \in [Channels -> {"none", "ok", "err", "served"}] /\ background' \subseteq Channels
  BY <1>1, CycleParts DEF TypeOK
<1>3. todo' \in Seq(RegisterWrites)
  BY <1>1, TodoMoves
<1>4. PICK receives \in BOOLEAN, sends \in BOOLEAN : Cycle(w, rd, wr, receives, sends)
  BY DEF OneCycle
<1>5. missed' \subseteq Channels /\ irqMissed' \subseteq Channels
  BY <1>1, <1>4 DEF Cycle, TypeOK
<1>6. job' \in [Channels -> [src : Sources \cup {"unset"}, len : Nat, mode : Modes,
                             rdErr : BOOLEAN, wrErr : BOOLEAN]]
  <2>1. job' = [c \in Channels |->
                 [job[c] EXCEPT !.rdErr = @ \/ (rd = "err" /\ ReadEnds(c, rd)),
                                !.wrErr = @ \/ (wr = "err" /\ WriteEnds(c, wr))]]
    BY <1>4 DEF Cycle
  <2>2. ASSUME NEW c \in Channels
        PROVE  [job[c] EXCEPT !.rdErr = @ \/ (rd = "err" /\ ReadEnds(c, rd)),
                              !.wrErr = @ \/ (wr = "err" /\ WriteEnds(c, wr))]
               \in [src : Sources \cup {"unset"}, len : Nat, mode : Modes,
                    rdErr : BOOLEAN, wrErr : BOOLEAN]
    <3>1. ASSUME NEW r \in [src : Sources \cup {"unset"}, len : Nat, mode : Modes,
                             rdErr : BOOLEAN, wrErr : BOOLEAN],
                 NEW a \in BOOLEAN, NEW b \in BOOLEAN
          PROVE  [r EXCEPT !.rdErr = a, !.wrErr = b]
                 \in [src : Sources \cup {"unset"}, len : Nat, mode : Modes,
                      rdErr : BOOLEAN, wrErr : BOOLEAN]
      OBVIOUS
    <3>2. /\ (job[c].rdErr \/ (rd = "err" /\ ReadEnds(c, rd))) \in BOOLEAN
          /\ (job[c].wrErr \/ (wr = "err" /\ WriteEnds(c, wr))) \in BOOLEAN
      OBVIOUS
    <3>3. job[c] \in [src : Sources \cup {"unset"}, len : Nat, mode : Modes,
                      rdErr : BOOLEAN, wrErr : BOOLEAN]
      BY <1>1 DEF TypeOK
    <3> QED BY <3>1, <3>2, <3>3
  <2> QED BY <2>1, <2>2
<1>7. \A c \in Channels : buf'[c] \in Seq(Words) /\ mem'[c] \in [Positions -> Words]
  BY <1>1, BufTypes, MemTypes
<1>8. Channels' = Channels /\ Positions' = Positions /\ Words' = Words /\ Flags' = Flags
  BY DEF Channels, Positions, Words, Flags
<1>9. /\ rSrc' \in [Channels -> Sources \cup {"port", "unset"}]
      /\ rDst' \in [Channels -> {"buffer", "port", "unset"}]
      /\ rLen' \in [Channels -> Nat] /\ rMode' \in [Channels -> Modes]
      /\ rEn' \in Flags /\ startPulse' \in Flags
      /\ stDone' \in Flags /\ stErr' \in Flags /\ irqEn' \subseteq Channels /\ irqSt' \in Flags
  BY <1>1, RegisterTypes
<1> QED BY <1>1, <1>2, <1>3, <1>5, <1>6, <1>7, <1>9, ChannelTypes, ArbiterTypes, OutsideTypes DEF TypeOK

(***************************************************************************)
(* The invariant, and its cycles.                                          *)
(***************************************************************************)
DmaInv == RunsWell /\ CallInv /\ FlagsInv /\ ToldInv

LEMMA CycleStep ==
  ASSUME DmaInv, NEW w, NEW rd, NEW wr, OneCycle(w, rd, wr), calls' = calls,
         isrTodo' \subseteq Channels, isrNext' \in {1, 2}
  PROVE  DmaInv'
<1>1. RunsWell /\ FlagsInv /\ ToldInv /\ CallInv
  BY DEF DmaInv
<1>2. TypeOK'
  BY <1>1, CycleTypes
<1>3. ConfigInv'
  <2>1. \A c \in Channels : /\ job'[c].mode = job[c].mode /\ job'[c].len = job[c].len
                            /\ SrcOf(c)' = SrcOf(c) /\ DstOf(c)' = DstOf(c)
    BY <1>1, JobKept DEF RunsWell
  <2>2. TypeOK /\ ConfigInv /\ Lands(w) /\ RegisterCycle(w)
    BY <1>1, CycleParts DEF RunsWell
  <2> QED BY <2>1, <2>2, ConfigStep
<1>4. JobsInv'
  <2>1. \A c \in Channels : job'[c].mode = job[c].mode /\ job'[c].len = job[c].len
    BY <1>1, JobKept DEF RunsWell
  <2> QED BY <1>1, <2>1 DEF JobsInv, RunsWell, Channels
<1>5. CallInv'
  <2>1. call' = call /\ awaited' = awaited /\ Lands(w)
    BY <1>1, CycleParts DEF RunsWell
  <2> QED BY <1>1, <2>1 DEF CallInv, Lands
<1>6. BeginInv' /\ RunInv'
  BY <1>1, BeginStep, RunStep
<1>7. FlagsInv' /\ ToldInv'
  BY <1>1, FlagsStep, ToldStep
<1> QED BY <1>2, <1>3, <1>4, <1>5, <1>6, <1>7 DEF DmaInv, RunsWell

LEMMA ClockedStep ==
  ASSUME DmaInv, NEW w, Lands(w), Clocked(w), UNCHANGED <<call, awaited, result, background, calls>>,
         isrTodo' \subseteq Channels, isrNext' \in {1, 2}
  PROVE  DmaInv'
<1>1. rxFull \in BOOLEAN /\ txFull \in BOOLEAN
  BY DEF DmaInv, RunsWell, TypeOK
<1>2. PICK rd \in RdAnswers, wr \in WrAnswers, receives \in {FALSE, ~rxFull /\ Receiver}, sends \in {FALSE, txFull} :
        Cycle(w, rd, wr, receives, sends)
  BY DEF Clocked
<1>3. receives \in BOOLEAN /\ sends \in BOOLEAN
  BY <1>1, <1>2
<1>4. OneCycle(w, rd, wr)
  BY <1>2, <1>3 DEF OneCycle
<1> QED BY <1>4, CycleStep

LEMMA TickStep ==
  ASSUME DmaInv, Ticks
  PROVE  DmaInv'
<1>1. isrTodo \subseteq Channels /\ isrNext \in {1, 2}
  BY DEF DmaInv, RunsWell, TypeOK
<1>2. CASE ThreadWrites
  <2>1. /\ Lands(Head(todo)) /\ Clocked(Head(todo))
        /\ UNCHANGED <<call, awaited, result, background, calls>>
        /\ isrTodo' \subseteq Channels /\ isrNext' \in {1, 2}
    BY <1>1, <1>2 DEF ThreadWrites, Lands
  <2>2. PICK w : w = Head(todo)
    OBVIOUS
  <2>3. Lands(w) /\ Clocked(w)
    BY <2>1, <2>2
  <2> QED BY <2>1, <2>3, ClockedStep
<1>3. CASE HandlerWrites
  <2>1. PICK c : /\ Clocked(dma_isr_clear(c)[isrNext])
                 /\ IF isrNext = 1 THEN isrNext' = 2 /\ UNCHANGED isrTodo
                    ELSE isrNext' = 1 /\ isrTodo' = isrTodo \ {c}
    BY <1>3 DEF HandlerWrites
  <2>2. PICK w : w = dma_isr_clear(c)[isrNext]
    OBVIOUS
  <2>3. w[1] \in {"status", "irqStatus"}
    <3>1. /\ dma_isr_clear(c)[1] = IrqStatus({c})
          /\ dma_isr_clear(c)[2] = Status({c}, {})
      BY DEF dma_isr_clear, dma_clear_irq, dma_clear_done
    <3> QED BY <1>1, <2>2, <3>1 DEF IrqStatus, Status
  <2>4. UNCHANGED <<call, awaited, todo, calls, result, background>>
    BY <1>3 DEF HandlerWrites, thread
  <2>5. Lands(w) /\ Clocked(w)
    BY <2>1, <2>2, <2>3, <2>4 DEF Lands
  <2>6. isrTodo' \subseteq Channels /\ isrNext' \in {1, 2}
    BY <1>1, <2>1
  <2> QED BY <2>4, <2>5, <2>6, ClockedStep
<1>4. CASE NobodyWrites
  <2>1. /\ UNCHANGED <<call, awaited, todo, calls, result, background>>
        /\ isrTodo' \subseteq Channels /\ isrNext' \in {1, 2}
    BY <1>1, <1>4 DEF NobodyWrites, thread
  <2>2. Lands(NoWrite) /\ Clocked(NoWrite)
    BY <1>4, <2>1 DEF NobodyWrites, Lands, NoWrite
  <2> QED BY <2>1, <2>2, ClockedStep
<1> QED BY <1>2, <1>3, <1>4 DEF Ticks

(***************************************************************************)
(* The program's own steps leave the controller alone.                     *)
(***************************************************************************)
LEMMA NothingAhead == ASSUME todo = <<>> PROVE \A c \in Channels : ~Pending(c)
BY DEF Pending

\* What a run says of a channel is about the controller, the job and the data.
LEMMA ChannelKept ==
  ASSUME UNCHANGED <<registers, channels>>, NEW c \in Channels, job'[c] = job[c], mem'[c] = mem[c],
         job[c].mode = "tx" => sent' = sent, job[c].mode = "rx" => taken' = taken
  PROVE  /\ InBurst(c) => InBurst(c)'
         /\ Copied(c) <=> Copied(c)'
         /\ Good(c) <=> Good(c)'
         /\ Latches(c) => Latches(c)'
         /\ Moved(c) /\ ToMove(c) /\ InHand(c) => Moved(c)' /\ ToMove(c)' /\ InHand(c)'
<1>1. \A i : Asked(c, i)' = Asked(c, i)
  BY DEF Asked
<1>2. InBurst(c) => InBurst(c)'
  BY DEF InBurst
<1>3. Copied(c) <=> Copied(c)'
  <2>1. CASE job[c].mode = "tx"
    BY <1>1, <2>1 DEF Copied
  <2>2. CASE job[c].mode # "tx"
    BY <1>1, <2>2 DEF Copied
  <2> QED BY <2>1, <2>2
<1>4. Good(c) <=> Good(c)'
  BY <1>3 DEF Good
<1>5. Latches(c) => Latches(c)'
  BY DEF Latches, SrcOf, DstOf, registers, channels
<1>6. Place(c)' = Place(c) /\ next_burst_len(c)' = next_burst_len(c)
  BY DEF Place, next_burst_len, channels
<1>7. Moved(c) => Moved(c)'
  <2>1. CASE job[c].mode = "tx"
    BY <1>1, <2>1 DEF Moved, Blank, channels
  <2>2. CASE job[c].mode # "tx"
    BY <1>1, <2>2 DEF Moved, channels
  <2> QED BY <2>1, <2>2
<1>8. ToMove(c) => ToMove(c)'
  BY <1>6 DEF ToMove, channels
<1>9. InHand(c) => InHand(c)'
  BY <1>1, <1>6 DEF InHand, channels
<1> QED BY <1>2, <1>3, <1>4, <1>5, <1>7, <1>8, <1>9

LEMMA RunKept ==
  ASSUME RunInv, UNCHANGED <<registers, channels>>,
         \A c \in Channels : st[c] # "IDLE" =>
           /\ job'[c] = job[c] /\ mem'[c] = mem[c] /\ result'[c] = "none" /\ ~Pending(c)'
           /\ job[c].mode = "tx" => sent' = sent
           /\ job[c].mode = "rx" => taken' = taken,
         \A c \in Channels : InBurst(c)'
  PROVE  RunInv'
<1> SUFFICES ASSUME NEW c \in Channels
             PROVE  /\ InBurst(c)'
                    /\ errPulse'[c] => st'[c] = "ERROR"
                    /\ donePulse'[c] => st'[c] = "IDLE"
                    /\ st'[c] # "IDLE" =>
                         /\ ~startPulse'[c] /\ ~Pending(c)' /\ result'[c] = "none" /\ Latches(c)'
                         /\ st'[c] = "DONE" => Good(c)'
                         /\ st'[c] = "ERROR" => job'[c].wrErr
                         /\ st'[c] \notin {"DONE", "ERROR"} =>
                              ~job'[c].wrErr /\ Moved(c)' /\ ToMove(c)' /\ InHand(c)'
  BY DEF RunInv, Channels
<1>1. st' = st /\ errPulse' = errPulse /\ donePulse' = donePulse /\ startPulse' = startPulse
  BY DEF registers, channels
<1>2. /\ errPulse[c] => st[c] = "ERROR"
      /\ donePulse[c] => st[c] = "IDLE"
      /\ st[c] # "IDLE" =>
           /\ ~startPulse[c] /\ Latches(c)
           /\ st[c] = "DONE" => Good(c)
           /\ st[c] = "ERROR" => job[c].wrErr
           /\ st[c] \notin {"DONE", "ERROR"} => ~job[c].wrErr /\ Moved(c) /\ ToMove(c) /\ InHand(c)
  BY DEF RunInv
<1> QED BY <1>1, <1>2, ChannelKept

(***************************************************************************)
(* The two halves of the type invariant.  A step of the program leaves the *)
(* registers of the controller and what lies outside it alone.             *)
(***************************************************************************)
DeviceTypes ==
  /\ rSrc \in [Channels -> Sources \cup {"port", "unset"}]
  /\ rDst \in [Channels -> {"buffer", "port", "unset"}]
  /\ rLen \in [Channels -> Nat] /\ rMode \in [Channels -> Modes]
  /\ rEn \in Flags /\ startPulse \in Flags
  /\ stDone \in Flags /\ stErr \in Flags /\ irqEn \subseteq Channels /\ irqSt \in Flags
  /\ st \in [Channels -> States]
  /\ jSrc \in [Channels -> Sources \cup {"port", "unset"}]
  /\ jDst \in [Channels -> {"buffer", "port", "unset"}]
  /\ jMode \in [Channels -> Modes]
  /\ sPos \in [Channels -> Nat] /\ dPos \in [Channels -> Nat]
  /\ left \in [Channels -> Nat] /\ burst \in [Channels -> Nat]
  /\ donePulse \in Flags /\ errPulse \in Flags /\ rdRel \in Flags /\ wrRel \in Flags
  /\ rdOwner \in Channels \cup {Nobody} /\ rdLast \in Channels
  /\ wrOwner \in Channels \cup {Nobody} /\ wrLast \in Channels
  /\ \A c \in Channels : buf[c] \in Seq(Words) /\ mem[c] \in [Positions -> Words]
  /\ rxFull \in BOOLEAN /\ txFull \in BOOLEAN /\ taken \in Nat /\ sent \in Seq(Words)
  /\ faults \in 0 .. MaxFaults
ProgramTypes ==
  /\ call \in {"none", "memcpy", "pair", "background", "disable"}
  /\ awaited \subseteq Channels /\ calls \in 0 .. MaxCalls
  /\ todo \in Seq(RegisterWrites) /\ isrTodo \subseteq Channels /\ isrNext \in {1, 2}
  /\ job \in [Channels -> [src : Sources \cup {"unset"}, len : Nat, mode : Modes,
                          rdErr : BOOLEAN, wrErr : BOOLEAN]]
  /\ result \in [Channels -> {"none", "ok", "err", "served"}]
  /\ background \subseteq Channels /\ missed \subseteq Channels /\ irqMissed \subseteq Channels

LEMMA TypesAreBoth == /\ TypeOK <=> DeviceTypes /\ ProgramTypes
                      /\ TypeOK' <=> DeviceTypes' /\ ProgramTypes'
BY DEF TypeOK, DeviceTypes, ProgramTypes

LEMMA DeviceTypesKept ==
  ASSUME DeviceTypes, UNCHANGED <<registers, flags, channels, arbiters, outside>>
  PROVE  DeviceTypes'
<1>1. UNCHANGED <<rSrc, rDst, rLen, rMode, rEn, startPulse, stDone, stErr, irqEn, irqSt>>
  BY DEF registers, flags
<1>2. UNCHANGED <<st, jSrc, jDst, jMode, sPos, dPos, left, burst, buf, donePulse, errPulse, rdRel, wrRel>>
  BY DEF channels
<1>3. UNCHANGED <<rdOwner, rdLast, wrOwner, wrLast, mem, rxFull, txFull, taken, sent, faults>>
  BY DEF arbiters, outside
<1> QED BY <1>1, <1>2, <1>3 DEF DeviceTypes

LEMMA WaitStep ==
  ASSUME DmaInv, WaitReturns
  PROVE  DmaInv'
<1>1. /\ TypeOK /\ ConfigInv /\ JobsInv /\ BeginInv /\ RunInv /\ CallInv /\ FlagsInv /\ ToldInv
  BY DEF DmaInv, RunsWell
<1>2. /\ UNCHANGED <<registers, flags, channels, arbiters, outside>>
      /\ UNCHANGED <<call, calls, isrTodo, isrNext, job, background, missed, irqMissed>>
      /\ awaited # {} /\ todo = <<>> /\ awaited' = {}
  BY DEF WaitReturns, device
<1>3. /\ \A c \in Channels : ~Pending(c)
      /\ \A c \in Channels : ~Pending(c)' /\ \A i \in 1 .. Len(todo') : ~Sets(todo'[i], c)
      /\ todo' \in Seq(RegisterWrites)
  <2>1. CASE call = "memcpy"
    <3>1. PICK d \in Channels : todo' = <<Status({d}, {d})>>
      BY <1>1, <1>2, <2>1 DEF WaitReturns, dma_memcpy_end, TypeOK
    <3>2. Len(todo') = 1 /\ todo'[1] = <<"status", {d}, {d}>>
      BY <3>1 DEF Status
    <3>3. <<"status", {d}, {d}>> \in RegisterWrites
      BY DEF RegisterWrites
    <3>4. todo' \in Seq(RegisterWrites)
      BY <3>1, <3>3 DEF Status
    <3>5. \A c \in Channels : \A i \in 1 .. Len(todo') : ~Sets(todo'[i], c) /\ ~IsStart(todo'[i], c)
      BY <3>2 DEF Sets, IsStart
    <3> QED BY <1>2, <3>4, <3>5, NothingAhead DEF Pending
  <2>2. CASE call # "memcpy"
    <3>1. todo' = <<>>
      BY <2>2 DEF WaitReturns
    <3> QED BY <1>2, <3>1, NothingAhead DEF Pending
  <2> QED BY <2>1, <2>2
<1>4. ASSUME NEW c \in Channels
      PROVE  /\ c \notin awaited => result'[c] = result[c]
             /\ c \in awaited => result'[c] = IF stErr[c] THEN "err" ELSE IF stDone[c] THEN "ok" ELSE "none"
  BY DEF WaitReturns
<1>5. ASSUME NEW c \in Channels, c \in awaited
      PROVE  IF Resting(c) THEN (stDone[c] => Good(c)) /\ (stErr[c] => job[c].wrErr)
             ELSE ~stDone[c] /\ ~stErr[c]
  BY <1>1, <1>3, <1>5 DEF FlagsInv, Quiet
<1>6. ASSUME NEW c \in Channels, result[c] = "none", ~Resting(c) PROVE result'[c] = "none"
  BY <1>4, <1>5, <1>6
<1>7. TypeOK'
  <2>1. result' \in [Channels -> {"none", "ok", "err", "served"}]
    BY <1>1 DEF WaitReturns, TypeOK
  <2>2. ProgramTypes'
    BY <1>1, <1>2, <1>3, <2>1 DEF TypeOK, ProgramTypes
  <2> QED BY <1>1, <1>2, <2>2, TypesAreBoth, DeviceTypesKept
<1>8. ConfigInv' /\ CallInv' /\ JobsInv'
  <2>1. ConfigInv'
    <3>1. \A c \in Channels : \A i \in 1 .. Len(todo') : ~Sets(todo'[i], c) /\ ~IsStart(todo'[i], c)
      BY <1>3 DEF Sets, IsStart
    <3> QED BY <3>1 DEF ConfigInv, Channels
  <2>2. CallInv' /\ JobsInv'
    BY <1>1, <1>2 DEF CallInv, JobsInv, Channels
  <2> QED BY <2>1, <2>2
<1>9. BeginInv'
  <2>1. ASSUME NEW c \in Channels, startPulse[c] PROVE result'[c] = "none"
    BY <1>1, <1>6, <2>1 DEF BeginInv, Fresh, Resting
  <2> QED BY <1>1, <1>2, <1>3, <2>1
          DEF BeginInv, Fresh, SrcOf, DstOf, registers, channels, outside, Channels, Blank
<1>10. RunInv'
  <2>1. ASSUME NEW c \in Channels, st[c] # "IDLE" PROVE result'[c] = "none"
    BY <1>1, <1>6, <2>1 DEF RunInv, Resting
  <2>2. \A c \in Channels : InBurst(c)'
    BY <1>1, <1>2, ChannelKept DEF RunInv, outside
  <2>3. mem' = mem /\ sent' = sent /\ taken' = taken
    BY <1>2 DEF outside
  <2> QED BY <1>1, <1>2, <1>3, <2>1, <2>2, <2>3, RunKept
<1>11. FlagsInv'
  <2>1. ASSUME NEW c \in background
        PROVE  IF Resting(c) THEN donePulse[c] \/ irqSt[c] => job[c].wrErr \/ job[c].rdErr \/ Copied(c)
               ELSE Calm(c)
    BY <1>1, <1>3 DEF FlagsInv, TypeOK
  <2>2. background \subseteq Channels
    BY <1>1 DEF TypeOK
  <2> QED BY <1>2, <1>3, <2>1, <2>2
          DEF FlagsInv, Resting, Calm, Copied, Asked, registers, flags, channels, outside
<1>12. ToldInv'
  <2>1. ASSUME NEW c \in Channels, result'[c] # "none"
        PROVE  /\ Resting(c)
               /\ result'[c] = "err" => job[c].wrErr
               /\ result'[c] = "ok" => ~job[c].wrErr
               /\ result'[c] \in {"ok", "served"} /\ ~job[c].rdErr /\ ~job[c].wrErr => Copied(c)
    <3>1. CASE c \in awaited
      BY <1>4, <1>5, <2>1, <3>1 DEF Good
    <3>2. CASE c \notin awaited
      BY <1>1, <1>4, <2>1, <3>2 DEF ToldInv
    <3> QED BY <3>1, <3>2
  <2> QED BY <1>2, <1>3, <2>1 DEF ToldInv, Resting, Copied, Asked, registers, channels, outside, Channels
<1> QED BY <1>7, <1>8, <1>9, <1>10, <1>11, <1>12 DEF DmaInv, RunsWell

\* A step that writes nothing leaves what is ahead of a channel, and all that
\* is said of the controller and the jobs.
LEMMA ProgramKept ==
  ASSUME DmaInv, UNCHANGED <<registers, flags, channels, arbiters, outside, todo, job>>,
         \A c \in Channels : ~Resting(c) => result'[c] = result[c]
  PROVE  /\ ConfigInv' /\ JobsInv' /\ BeginInv' /\ RunInv'
         /\ \A c \in Channels : /\ Pending(c)' <=> Pending(c)
                                /\ Resting(c)' <=> Resting(c)
                                /\ Good(c)' <=> Good(c)
                                /\ Copied(c)' <=> Copied(c)
                                /\ Quiet(c)' <=> Quiet(c)
                                /\ Calm(c)' <=> Calm(c)
<1>1. ConfigInv /\ JobsInv /\ BeginInv /\ RunInv
  BY DEF DmaInv, RunsWell
<1>2. \A c \in Channels : Pending(c)' <=> Pending(c)
  BY DEF Pending
<1>3. \A c \in Channels : Resting(c)' <=> Resting(c)
  BY <1>2 DEF Resting, registers, channels
<1>4. \A c \in Channels : (Quiet(c)' <=> Quiet(c)) /\ (Calm(c)' <=> Calm(c))
  BY DEF Quiet, Calm, channels, flags
<1>5. mem' = mem /\ sent' = sent /\ taken' = taken
  BY DEF outside
<1>6. \A c \in Channels : (Good(c)' <=> Good(c)) /\ (Copied(c)' <=> Copied(c)) /\ InBurst(c)'
  <2> SUFFICES ASSUME NEW c \in Channels
               PROVE  (Good(c)' <=> Good(c)) /\ (Copied(c)' <=> Copied(c)) /\ InBurst(c)'
    OBVIOUS
  <2>1. InBurst(c)
    BY <1>1 DEF RunInv
  <2>2. job'[c] = job[c] /\ mem'[c] = mem[c]
    BY <1>5
  <2> QED BY <1>5, <2>1, <2>2, ChannelKept
<1>7. JobsInv'
  BY <1>1 DEF JobsInv, Channels
<1>8. ConfigInv'
  <2>1. \A kind, c : /\ Value(kind, c)' = Value(kind, c) /\ Register(kind, c)' = Register(kind, c)
                     /\ Setting(kind, c)' = Setting(kind, c)
    BY DEF Value, Register, Setting, SrcOf, DstOf, registers
  <2> QED BY <1>1, <1>2, <2>1, ZenonT(30) DEF ConfigInv, Channels, Kinds
<1>9. BeginInv'
  <2>1. \A c \in Channels : Pending(c) \/ startPulse[c] => Fresh(c)'
    <3>1. ASSUME NEW c \in Channels, Pending(c) \/ startPulse[c] PROVE Fresh(c)'
      <4>1. Fresh(c) /\ ~Resting(c)
        BY <1>1, <3>1 DEF BeginInv, Resting
      <4>2. result'[c] = "none"
        BY <4>1 DEF Fresh
      <4> QED BY <1>5, <4>1, <4>2 DEF Fresh, channels, Blank
    <3> QED BY <3>1
  <2>2. \A c \in Channels : SrcOf(c)' = SrcOf(c) /\ DstOf(c)' = DstOf(c)
    BY DEF SrcOf, DstOf
  <2> QED BY <1>1, <1>2, <2>1, <2>2 DEF BeginInv, registers, Channels
<1>10. RunInv'
  <2>1. \A c \in Channels : st[c] # "IDLE" => ~Pending(c)' /\ result'[c] = "none"
    BY <1>1, <1>2 DEF RunInv, Resting
  <2> QED BY <1>1, <1>5, <1>6, <2>1, RunKept
<1> QED BY <1>2, <1>3, <1>4, <1>6, <1>7, <1>8, <1>9, <1>10

LEMMA ReturnStep ==
  ASSUME DmaInv, CallReturns
  PROVE  DmaInv'
<1>1. /\ UNCHANGED <<registers, flags, channels, arbiters, outside, todo, job>>
      /\ UNCHANGED <<awaited, calls, isrTodo, isrNext, result, background, missed, irqMissed>>
      /\ todo = <<>> /\ awaited = {} /\ call' = "none"
  BY DEF CallReturns, device
<1>2. /\ ConfigInv' /\ JobsInv' /\ BeginInv' /\ RunInv'
      /\ \A c \in Channels : /\ Pending(c)' <=> Pending(c)
                             /\ Resting(c)' <=> Resting(c)
                             /\ Good(c)' <=> Good(c)
                             /\ Copied(c)' <=> Copied(c)
                             /\ Quiet(c)' <=> Quiet(c)
                             /\ Calm(c)' <=> Calm(c)
  BY <1>1, ProgramKept
<1>3. TypeOK'
  <2>1. TypeOK
    BY DEF DmaInv, RunsWell
  <2>2. ProgramTypes'
    BY <1>1, <2>1 DEF TypeOK, ProgramTypes
  <2> QED BY <1>1, <2>1, <2>2, TypesAreBoth, DeviceTypesKept
<1>4. CallInv'
  BY <1>1 DEF CallInv
<1>5. FlagsInv'
  <2>1. \A c \in background : c \in Channels
    BY DEF DmaInv, RunsWell, TypeOK
  <2> QED BY <1>1, <1>2, <2>1 DEF DmaInv, FlagsInv, channels, flags
<1>6. ToldInv'
  BY <1>1, <1>2 DEF DmaInv, ToldInv, Channels
<1> QED BY <1>2, <1>3, <1>4, <1>5, <1>6 DEF DmaInv, RunsWell

LEMMA InterruptStep ==
  ASSUME DmaInv, NEW looksAt, TakeInterrupt(looksAt)
  PROVE  DmaInv'
<1> DEFINE served == dma_isr_get_pending \cap looksAt \cap irqEn \cap background
<1>1. /\ UNCHANGED <<registers, flags, channels, arbiters, outside, todo, job>>
      /\ UNCHANGED <<call, awaited, calls, isrNext, missed, irqMissed>>
      /\ isrTodo' \subseteq Channels /\ background' \subseteq background
  BY DEF TakeInterrupt, device, thread, dma_isr_get_pending
<1>2. \A c \in Channels : result'[c] = IF c \in served THEN "served" ELSE result[c]
  BY DEF TakeInterrupt
<1>3. ASSUME NEW c \in Channels, c \in served
      PROVE  Resting(c) /\ (job[c].wrErr \/ job[c].rdErr \/ Copied(c))
  <2>1. irqSt[c] /\ c \in irqEn /\ c \in background
    BY <1>3 DEF dma_isr_get_pending
  <2>2. IF Pending(c) THEN Calm(c) \/ (c \notin irqEn /\ todo[1] = IrqStatus(Channels))
        ELSE IF Resting(c) THEN donePulse[c] \/ irqSt[c] => job[c].wrErr \/ job[c].rdErr \/ Copied(c)
        ELSE Calm(c)
    BY <2>1 DEF DmaInv, FlagsInv
  <2> QED BY <2>1, <2>2 DEF Calm
<1> HIDE DEF served
<1>4. /\ ConfigInv' /\ JobsInv' /\ BeginInv' /\ RunInv'
      /\ \A c \in Channels : /\ Pending(c)' <=> Pending(c)
                             /\ Resting(c)' <=> Resting(c)
                             /\ Good(c)' <=> Good(c)
                             /\ Copied(c)' <=> Copied(c)
                             /\ Quiet(c)' <=> Quiet(c)
                             /\ Calm(c)' <=> Calm(c)
  <2>1. \A c \in Channels : ~Resting(c) => result'[c] = result[c]
    BY <1>2, <1>3
  <2> QED BY <1>1, <2>1, ProgramKept
<1>5. TypeOK'
  <2>1. result' \in [Channels -> {"none", "ok", "err", "served"}]
    BY DEF TakeInterrupt, DmaInv, RunsWell, TypeOK
  <2>2. TypeOK
    BY DEF DmaInv, RunsWell
  <2>3. ProgramTypes'
    BY <1>1, <2>1, <2>2 DEF TypeOK, ProgramTypes
  <2> QED BY <1>1, <2>2, <2>3, TypesAreBoth, DeviceTypesKept
<1>6. CallInv'
  BY <1>1 DEF DmaInv, CallInv
<1>7. FlagsInv'
  <2>1. \A c \in background \cup awaited : c \in Channels
    BY DEF DmaInv, RunsWell, TypeOK
  <2> QED BY <1>1, <1>4, <2>1 DEF DmaInv, FlagsInv, channels, flags, Clears, Channels
<1>8. ToldInv'
  <2>1. ASSUME NEW c \in Channels, result'[c] # "none"
        PROVE  /\ Resting(c)
               /\ result'[c] = "err" => job[c].wrErr
               /\ result'[c] = "ok" => ~job[c].wrErr
               /\ result'[c] \in {"ok", "served"} /\ ~job[c].rdErr /\ ~job[c].wrErr => Copied(c)
    <3>1. CASE c \in served
      BY <1>2, <1>3, <2>1, <3>1
    <3>2. CASE c \notin served
      BY <1>2, <2>1, <3>2 DEF DmaInv, ToldInv
    <3> QED BY <3>1, <3>2
  <2> QED BY <1>1, <1>4, <2>1 DEF ToldInv, Channels
<1> QED BY <1>4, <1>5, <1>6, <1>7, <1>8 DEF DmaInv, RunsWell

(***************************************************************************)
(* The calls.  A call finds nothing ahead, nothing started, and no flag    *)
(* that it reads; what it writes sets up and starts the channels it takes. *)
(***************************************************************************)
LEMMA SettingTypes ==
  ASSUME NEW c \in Channels, NEW s \in Sources \cup {"port"}, NEW t \in {"buffer", "port"}, NEW n \in Nat
  PROVE  /\ SetSrc(c, s) \in RegisterWrites /\ SetDst(c, t) \in RegisterWrites
         /\ SetLen(c, n) \in RegisterWrites
BY DEF RegisterWrites, SetSrc, SetDst, SetLen

LEMMA CtrlTypes ==
  ASSUME NEW c \in Channels, NEW mode \in {"mem", "rx", "tx"}
  PROVE  Ctrl(c, TRUE, TRUE, mode) \in RegisterWrites /\ Ctrl(c, FALSE, FALSE, mode) \in RegisterWrites
BY DEF RegisterWrites, Ctrl, Modes

LEMMA StatusTypes ==
  ASSUME NEW chs \in SUBSET Channels
  PROVE  /\ IrqStatus(chs) \in RegisterWrites /\ IrqEnable(chs) \in RegisterWrites
         /\ Status(chs, chs) \in RegisterWrites
BY DEF RegisterWrites, IrqStatus, IrqEnable, Status

LEMMA Joined ==
  ASSUME NEW S, NEW s \in Seq(S), NEW t \in Seq(S)
  PROVE  /\ s \o t \in Seq(S) /\ Len(s \o t) = Len(s) + Len(t)
         /\ \A i \in 1 .. Len(s) : (s \o t)[i] = s[i]
         /\ \A i \in 1 .. Len(t) : (s \o t)[Len(s) + i] = t[i]
<1>1. Len(s) \in Nat /\ Len(t) \in Nat
  OBVIOUS
<1>2. PICK u : u = s \o t
  OBVIOUS
<1>3. /\ u \in Seq(S) /\ Len(u) = Len(s) + Len(t)
      /\ \A i \in 1 .. Len(s) + Len(t) : u[i] = IF i <= Len(s) THEN s[i] ELSE t[i - Len(s)]
  BY <1>2, ConcatProperties
<1>4. \A i \in 1 .. Len(s) : u[i] = s[i]
  BY <1>1, <1>3
<1>5. ASSUME NEW i \in 1 .. Len(t) PROVE u[Len(s) + i] = t[i]
  <2>1. Len(s) + i \in 1 .. Len(s) + Len(t) /\ ~(Len(s) + i <= Len(s)) /\ (Len(s) + i) - Len(s) = i
    BY <1>1
  <2> QED BY <1>3, <2>1
<1> QED BY <1>2, <1>3, <1>4, <1>5

LEMMA OneWrite ==
  ASSUME NEW e \in RegisterWrites, NEW u, u = <<e>>
  PROVE  u \in Seq(RegisterWrites) /\ Len(u) = 1 /\ u[1] = e
OBVIOUS

\* The functions that configure, and the two that start.
LEMMA JoinedThree ==
  ASSUME NEW u \in Seq(RegisterWrites), NEW p \in RegisterWrites, NEW q \in RegisterWrites,
         NEW r \in RegisterWrites, NEW y, y = u \o <<p, q, r>>
  PROVE  /\ y \in Seq(RegisterWrites) /\ Len(y) = Len(u) + 3
         /\ \A i \in 1 .. Len(u) : y[i] = u[i]
         /\ y[Len(u) + 1] = p /\ y[Len(u) + 2] = q /\ y[Len(u) + 3] = r
<1>1. PICK v : v = <<p, q, r>>
  OBVIOUS
<1>2. v \in Seq(RegisterWrites) /\ Len(v) = 3 /\ v[1] = p /\ v[2] = q /\ v[3] = r
  BY <1>1
<1>3. /\ y \in Seq(RegisterWrites) /\ Len(y) = Len(u) + Len(v)
      /\ \A i \in 1 .. Len(u) : y[i] = u[i]
      /\ \A i \in 1 .. Len(v) : y[Len(u) + i] = v[i]
  <2>1. u \in Seq(RegisterWrites) /\ v \in Seq(RegisterWrites)
    BY <1>2
  <2>2. y = u \o v
    BY <1>1
  <2> QED BY <2>1, <2>2, Joined
<1> QED BY <1>2, <1>3

LEMMA JoinedWrite ==
  ASSUME NEW u \in Seq(RegisterWrites), NEW e \in RegisterWrites, NEW y, y = u \o <<e>>
  PROVE  /\ y \in Seq(RegisterWrites) /\ Len(y) = Len(u) + 1
         /\ \A i \in 1 .. Len(u) : y[i] = u[i]
         /\ y[Len(u) + 1] = e
<1>1. PICK v : v = <<e>>
  OBVIOUS
<1>2. v \in Seq(RegisterWrites) /\ Len(v) = 1 /\ v[1] = e
  BY <1>1, OneWrite
<1>3. /\ y \in Seq(RegisterWrites) /\ Len(y) = Len(u) + Len(v)
      /\ \A i \in 1 .. Len(u) : y[i] = u[i]
      /\ \A i \in 1 .. Len(v) : y[Len(u) + i] = v[i]
  <2>1. u \in Seq(RegisterWrites) /\ v \in Seq(RegisterWrites)
    BY <1>2
  <2>2. y = u \o v
    BY <1>1
  <2> QED BY <2>1, <2>2, Joined
<1> QED BY <1>2, <1>3

LEMMA MemcpyWrites ==
  ASSUME NEW c \in Channels, NEW s \in Sources, NEW n \in Nat
  PROVE  \E z : /\ z = dma_memcpy(c, s, n) /\ z \in Seq(RegisterWrites) /\ Len(z) = 5
                /\ z[1] = Status({c}, {c})
                /\ z[2] = SetSrc(c, s) /\ z[3] = SetDst(c, "buffer") /\ z[4] = SetLen(c, n)
                /\ z[5] = Ctrl(c, TRUE, TRUE, "mem")
<1>1. PICK a, e : a = Status({c}, {c}) /\ e = Ctrl(c, TRUE, TRUE, "mem")
  OBVIOUS
<1>2. a \in RegisterWrites /\ e \in RegisterWrites
  BY <1>1, StatusTypes, CtrlTypes
<1>3. PICK u : u = <<a>>
  OBVIOUS
<1>4. PICK y : y = u \o <<SetSrc(c, s), SetDst(c, "buffer"), SetLen(c, n)>>
  OBVIOUS
<1>5. PICK z : z = y \o <<e>>
  OBVIOUS
<1>6. u \in Seq(RegisterWrites) /\ Len(u) = 1 /\ u[1] = a
  BY <1>2, <1>3, OneWrite
<1>7. /\ y \in Seq(RegisterWrites) /\ Len(y) = 4 /\ y[1] = a
      /\ y[2] = SetSrc(c, s) /\ y[3] = SetDst(c, "buffer") /\ y[4] = SetLen(c, n)
  <2>1. /\ y \in Seq(RegisterWrites) /\ Len(y) = Len(u) + 3
        /\ \A i \in 1 .. Len(u) : y[i] = u[i]
        /\ y[Len(u) + 1] = SetSrc(c, s) /\ y[Len(u) + 2] = SetDst(c, "buffer") /\ y[Len(u) + 3] = SetLen(c, n)
    <3>1. u \in Seq(RegisterWrites)
      BY <1>6
    <3>2. /\ SetSrc(c, s) \in RegisterWrites /\ SetDst(c, "buffer") \in RegisterWrites
          /\ SetLen(c, n) \in RegisterWrites
      BY SettingTypes
    <3> QED BY <1>4, <3>1, <3>2, JoinedThree
  <2> QED BY <1>6, <2>1
<1>8. /\ z \in Seq(RegisterWrites) /\ Len(z) = 5
      /\ z[1] = y[1] /\ z[2] = y[2] /\ z[3] = y[3] /\ z[4] = y[4] /\ z[5] = e
  <2>1. /\ z \in Seq(RegisterWrites) /\ Len(z) = Len(y) + 1
        /\ \A i \in 1 .. Len(y) : z[i] = y[i]
        /\ z[Len(y) + 1] = e
    <3>1. y \in Seq(RegisterWrites)
      BY <1>7
    <3> QED BY <1>2, <1>5, <3>1, JoinedWrite
  <2>2. Len(y) = 4
    BY <1>7
  <2> QED BY <2>1, <2>2
<1>9. z = dma_memcpy(c, s, n)
  BY <1>1, <1>3, <1>4, <1>5 DEF dma_memcpy, dma_ch_setup, dma_ch_start
<1> QED BY <1>1, <1>7, <1>8, <1>9

PairWrites(c, d, s, n, m) ==
  dma_clear_all_status \o dma_chN_setup(c, s, n) \o dma_chN_setup(d, s, m)
    \o dma_chN_start(c) \o dma_chN_start(d)

ArePair(z, c, d, s, n, m) ==
  /\ z = PairWrites(c, d, s, n, m) /\ z \in Seq(RegisterWrites) /\ Len(z) = 9
  /\ z[1] = Status(Channels, Channels)
  /\ z[2] = SetSrc(c, s) /\ z[3] = SetDst(c, "buffer") /\ z[4] = SetLen(c, n)
  /\ z[5] = SetSrc(d, s) /\ z[6] = SetDst(d, "buffer") /\ z[7] = SetLen(d, m)
  /\ z[8] = Ctrl(c, TRUE, TRUE, "mem") /\ z[9] = Ctrl(d, TRUE, TRUE, "mem")

LEMMA PairWritesAre ==
  ASSUME NEW c \in Channels, NEW d \in Channels, NEW s \in Sources, NEW n \in Nat, NEW m \in Nat
  PROVE  \E z : ArePair(z, c, d, s, n, m)
<1>1. PICK a, e, f : /\ a = Status(Channels, Channels)
                     /\ e = Ctrl(c, TRUE, TRUE, "mem") /\ f = Ctrl(d, TRUE, TRUE, "mem")
  OBVIOUS
<1>2. a \in RegisterWrites /\ e \in RegisterWrites /\ f \in RegisterWrites
  BY <1>1, StatusTypes, CtrlTypes
<1>3. PICK u : u = <<a>>
  OBVIOUS
<1>4. PICK v : v = u \o <<SetSrc(c, s), SetDst(c, "buffer"), SetLen(c, n)>>
  OBVIOUS
<1>5. PICK x : x = v \o <<SetSrc(d, s), SetDst(d, "buffer"), SetLen(d, m)>>
  OBVIOUS
<1>6. PICK y : y = x \o <<e>>
  OBVIOUS
<1>7. PICK z : z = y \o <<f>>
  OBVIOUS
<1>8. u \in Seq(RegisterWrites) /\ Len(u) = 1 /\ u[1] = a
  BY <1>2, <1>3, OneWrite
<1>9. /\ v \in Seq(RegisterWrites) /\ Len(v) = 4 /\ v[1] = a
      /\ v[2] = SetSrc(c, s) /\ v[3] = SetDst(c, "buffer") /\ v[4] = SetLen(c, n)
  <2>1. /\ v \in Seq(RegisterWrites) /\ Len(v) = Len(u) + 3
        /\ \A i \in 1 .. Len(u) : v[i] = u[i]
        /\ v[Len(u) + 1] = SetSrc(c, s) /\ v[Len(u) + 2] = SetDst(c, "buffer") /\ v[Len(u) + 3] = SetLen(c, n)
    <3>1. u \in Seq(RegisterWrites)
      BY <1>8
    <3>2. /\ SetSrc(c, s) \in RegisterWrites /\ SetDst(c, "buffer") \in RegisterWrites
          /\ SetLen(c, n) \in RegisterWrites
      BY SettingTypes
    <3> QED BY <1>4, <3>1, <3>2, JoinedThree
  <2> QED BY <1>8, <2>1
<1>10. /\ x \in Seq(RegisterWrites) /\ Len(x) = 7
       /\ x[1] = v[1] /\ x[2] = v[2] /\ x[3] = v[3] /\ x[4] = v[4]
       /\ x[5] = SetSrc(d, s) /\ x[6] = SetDst(d, "buffer") /\ x[7] = SetLen(d, m)
  <2>1. /\ x \in Seq(RegisterWrites) /\ Len(x) = Len(v) + 3
        /\ \A i \in 1 .. Len(v) : x[i] = v[i]
        /\ x[Len(v) + 1] = SetSrc(d, s) /\ x[Len(v) + 2] = SetDst(d, "buffer") /\ x[Len(v) + 3] = SetLen(d, m)
    <3>1. v \in Seq(RegisterWrites)
      BY <1>9
    <3>2. /\ SetSrc(d, s) \in RegisterWrites /\ SetDst(d, "buffer") \in RegisterWrites
          /\ SetLen(d, m) \in RegisterWrites
      BY SettingTypes
    <3> QED BY <1>5, <3>1, <3>2, JoinedThree
  <2>2. Len(v) = 4
    BY <1>9
  <2> QED BY <2>1, <2>2
<1>11. /\ y \in Seq(RegisterWrites) /\ Len(y) = 8
       /\ \A i \in 1 .. 7 : y[i] = x[i]
       /\ y[8] = e
  <2>1. /\ y \in Seq(RegisterWrites) /\ Len(y) = Len(x) + 1
        /\ \A i \in 1 .. Len(x) : y[i] = x[i]
        /\ y[Len(x) + 1] = e
    <3>1. x \in Seq(RegisterWrites)
      BY <1>10
    <3> QED BY <1>2, <1>6, <3>1, JoinedWrite
  <2>2. Len(x) = 7
    BY <1>10
  <2> QED BY <2>1, <2>2
<1>12. /\ z \in Seq(RegisterWrites) /\ Len(z) = 9
       /\ \A i \in 1 .. 8 : z[i] = y[i]
       /\ z[9] = f
  <2>1. /\ z \in Seq(RegisterWrites) /\ Len(z) = Len(y) + 1
        /\ \A i \in 1 .. Len(y) : z[i] = y[i]
        /\ z[Len(y) + 1] = f
    <3>1. y \in Seq(RegisterWrites)
      BY <1>11
    <3> QED BY <1>2, <1>7, <3>1, JoinedWrite
  <2>2. Len(y) = 8
    BY <1>11
  <2> QED BY <2>1, <2>2
<1>13. /\ z[1] = x[1] /\ z[2] = x[2] /\ z[3] = x[3] /\ z[4] = x[4] /\ z[5] = x[5]
       /\ z[6] = x[6] /\ z[7] = x[7] /\ z[8] = e
  BY <1>11, <1>12
<1>14. z = PairWrites(c, d, s, n, m)
  BY <1>1, <1>3, <1>4, <1>5, <1>6, <1>7 DEF PairWrites, dma_clear_all_status, dma_chN_setup, dma_chN_start
<1>15. ArePair(z, c, d, s, n, m)
  BY <1>1, <1>9, <1>10, <1>12, <1>13, <1>14 DEF ArePair
<1> QED BY <1>15

BackgroundWrites(chs, c, s, n, mode) ==
  dma_clear_all_irq \o dma_irq_enable(chs)
    \o (IF mode = "mem" THEN dma_ch_setup(c, s, n) \o dma_ch_start(c)
        ELSE dma_ch_setup_periph(c, s, n, mode))

LEMMA BackgroundWritesAre ==
  ASSUME NEW chs \in SUBSET Channels, NEW c \in Channels, NEW s \in Sources, NEW n \in Nat,
         NEW mode \in {"mem", "rx", "tx"}
  PROVE  \E z : /\ z = BackgroundWrites(chs, c, s, n, mode) /\ z \in Seq(RegisterWrites) /\ Len(z) = 6
                /\ z[1] = IrqStatus(Channels) /\ z[2] = IrqEnable(chs)
                /\ z[3] = SetSrc(c, IF mode = "rx" THEN "port" ELSE s)
                /\ z[4] = SetDst(c, IF mode = "tx" THEN "port" ELSE "buffer")
                /\ z[5] = SetLen(c, n)
                /\ z[6] = Ctrl(c, TRUE, TRUE, mode)
<1>1. PICK src, dst : /\ src = IF mode = "rx" THEN "port" ELSE s
                      /\ dst = IF mode = "tx" THEN "port" ELSE "buffer"
  OBVIOUS
<1>2. PICK a, b, e : a = IrqStatus(Channels) /\ b = IrqEnable(chs) /\ e = Ctrl(c, TRUE, TRUE, mode)
  OBVIOUS
<1>3. /\ a \in RegisterWrites /\ b \in RegisterWrites /\ e \in RegisterWrites
      /\ src \in Sources \cup {"port"} /\ dst \in {"buffer", "port"}
  BY <1>1, <1>2, StatusTypes, CtrlTypes
<1>4. /\ SetSrc(c, src) \in RegisterWrites /\ SetDst(c, dst) \in RegisterWrites
      /\ SetLen(c, n) \in RegisterWrites
  BY <1>3, SettingTypes
<1>5. PICK p, q, r : p = SetSrc(c, src) /\ q = SetDst(c, dst) /\ r = SetLen(c, n)
  OBVIOUS
<1>6. PICK u : u = <<a>>
  OBVIOUS
<1>7. PICK v : v = u \o <<b>>
  OBVIOUS
<1>8. PICK x : x = <<p, q, r, e>>
  OBVIOUS
<1>9. x = (IF mode = "mem" THEN dma_ch_setup(c, s, n) \o dma_ch_start(c)
           ELSE dma_ch_setup_periph(c, s, n, mode))
  <2>1. CASE mode = "mem"
    <3>1. PICK g : g = <<p, q, r>>
      OBVIOUS
    <3>2. PICK h : h = g \o <<e>>
      OBVIOUS
    <3>3. g \in Seq(RegisterWrites) /\ Len(g) = 3 /\ g[1] = p /\ g[2] = q /\ g[3] = r
      BY <1>4, <1>5, <3>1
    <3>4. /\ h \in Seq(RegisterWrites) /\ Len(h) = Len(g) + 1
          /\ \A i \in 1 .. Len(g) : h[i] = g[i]
          /\ h[Len(g) + 1] = e
      <4>1. g \in Seq(RegisterWrites) /\ e \in RegisterWrites
        BY <1>3, <3>3
      <4> QED BY <3>2, <4>1, JoinedWrite
    <3>5. /\ h \in Seq(RegisterWrites) /\ Len(h) = 4
          /\ h[1] = p /\ h[2] = q /\ h[3] = r /\ h[4] = e
      BY <3>3, <3>4
    <3>6. x \in Seq(RegisterWrites) /\ Len(x) = 4 /\ x[1] = p /\ x[2] = q /\ x[3] = r /\ x[4] = e
      BY <1>3, <1>4, <1>5, <1>8
    <3>7. \A i \in 1 .. 4 : h[i] = x[i]
      BY <3>5, <3>6
    <3>8. h = x
      BY <3>5, <3>6, <3>7, SeqEqual
    <3>9. h = dma_ch_setup(c, s, n) \o dma_ch_start(c)
      BY <1>1, <1>2, <1>5, <2>1, <3>1, <3>2 DEF dma_ch_setup, dma_ch_start
    <3> QED BY <2>1, <3>8, <3>9
  <2>2. CASE mode # "mem"
    BY <1>1, <1>2, <1>5, <1>8, <2>2 DEF dma_ch_setup_periph
  <2> QED BY <2>1, <2>2
<1>20. PICK z : z = v \o x
  OBVIOUS
<1>21. u \in Seq(RegisterWrites) /\ Len(u) = 1 /\ u[1] = a
  BY <1>3, <1>6, OneWrite
<1>22. v \in Seq(RegisterWrites) /\ Len(v) = 2 /\ v[1] = a /\ v[2] = b
  <2>1. /\ v \in Seq(RegisterWrites) /\ Len(v) = Len(u) + 1
        /\ \A i \in 1 .. Len(u) : v[i] = u[i]
        /\ v[Len(u) + 1] = b
    <3>1. u \in Seq(RegisterWrites)
      BY <1>21
    <3> QED BY <1>3, <1>7, <3>1, JoinedWrite
  <2> QED BY <1>21, <2>1
<1>23. x \in Seq(RegisterWrites) /\ Len(x) = 4 /\ x[1] = p /\ x[2] = q /\ x[3] = r /\ x[4] = e
  BY <1>3, <1>4, <1>5, <1>8
<1>24. /\ z \in Seq(RegisterWrites) /\ Len(z) = 6
       /\ z[1] = v[1] /\ z[2] = v[2] /\ z[3] = x[1] /\ z[4] = x[2] /\ z[5] = x[3] /\ z[6] = x[4]
  <2>1. /\ z \in Seq(RegisterWrites) /\ Len(z) = Len(v) + Len(x)
        /\ \A i \in 1 .. Len(v) : z[i] = v[i]
        /\ \A i \in 1 .. Len(x) : z[Len(v) + i] = x[i]
    <3>1. v \in Seq(RegisterWrites) /\ x \in Seq(RegisterWrites)
      BY <1>22, <1>23
    <3> QED BY <1>20, <3>1, Joined
  <2>2. Len(v) = 2 /\ Len(x) = 4
    BY <1>22, <1>23
  <2> QED BY <2>1, <2>2
<1>25. z = BackgroundWrites(chs, c, s, n, mode)
  BY <1>2, <1>6, <1>7, <1>9, <1>20 DEF BackgroundWrites, dma_clear_all_irq, dma_irq_enable
<1> QED BY <1>1, <1>2, <1>5, <1>22, <1>23, <1>24, <1>25

\* Writes that set up the channels of chs before they start them, with one
\* start each, are what ConfigInv says of them.
LEMMA SetupIsConfigured ==
  ASSUME NEW chs \in SUBSET Channels, NEW at, Len(todo') \in Nat,
         \A i \in 1 .. Len(todo') :
           \/ todo'[i][1] \in {"status", "irqStatus", "irqEnable"}
           \/ \E c \in chs, kind \in Kinds : i < at[c] /\ todo'[i] = Setting(kind, c)'
           \/ \E c \in chs : i = at[c] /\ todo'[i] = Ctrl(c, TRUE, TRUE, job'[c].mode),
         \A c \in chs :
           /\ at[c] \in 1 .. Len(todo') /\ todo'[at[c]] = Ctrl(c, TRUE, TRUE, job'[c].mode)
           /\ \A kind \in Kinds : \E j \in 1 .. at[c] - 1 : todo'[j] = Setting(kind, c)'
  PROVE  ConfigInv' /\ \A d \in Channels : Pending(d)' <=> d \in chs
<1>1. ASSUME NEW c \in chs, NEW kind \in Kinds, NEW e, e = Setting(kind, c)', NEW d \in Channels
      PROVE  ~IsStart(e, d) /\ (Sets(e, d) <=> d = c)
  <2>1. e[1] = kind /\ e[2] = c
    BY <1>1 DEF Setting
  <2> QED BY <2>1 DEF IsStart, Sets, Kinds
<1>2. ASSUME NEW c \in chs, NEW e, e = Ctrl(c, TRUE, TRUE, job'[c].mode), NEW d \in Channels
      PROVE  (IsStart(e, d) <=> d = c) /\ (Sets(e, d) <=> d = c)
  <2>1. e[1] = "ctrl" /\ e[2] = c /\ e[4]
    BY <1>2 DEF Ctrl
  <2> QED BY <2>1 DEF IsStart, Sets
<1>3. ASSUME NEW i \in 1 .. Len(todo'), NEW d \in Channels
      PROVE  /\ IsStart(todo'[i], d) => d \in chs /\ i = at[d]
             /\ Sets(todo'[i], d) => /\ d \in chs /\ i <= at[d]
                                     /\ i < at[d] => \E kind \in Kinds : todo'[i] = Setting(kind, d)'
  <2>1. PICK e : e = todo'[i]
    OBVIOUS
  <2>2. CASE e[1] \in {"status", "irqStatus", "irqEnable"}
    BY <2>1, <2>2 DEF IsStart, Sets
  <2>3. CASE \E c \in chs, kind \in Kinds : i < at[c] /\ e = Setting(kind, c)'
    <3>1. PICK c \in chs, kind \in Kinds : i < at[c] /\ e = Setting(kind, c)'
      BY <2>3
    <3>2. ~IsStart(e, d) /\ (Sets(e, d) <=> d = c)
      BY <1>1, <3>1
    <3>3. \A n \in Nat : \A j \in 1 .. n : j \in Nat
      OBVIOUS
    <3>4. at[c] \in Nat
      <4>1. at[c] \in 1 .. Len(todo') /\ Len(todo') \in Nat
        BY <3>1
      <4> QED BY <3>3, <4>1
    <3>5. i <= at[c]
      <4>1. i \in Nat /\ i < at[c]
        BY <3>1, <3>3
      <4> QED BY ONLY <3>4, <4>1
    <3>6. CASE d = c
      BY <2>1, <3>1, <3>2, <3>5, <3>6
    <3>7. CASE d # c
      BY <2>1, <3>2, <3>7
    <3> QED BY <3>6, <3>7
  <2>4. CASE \E c \in chs : i = at[c] /\ e = Ctrl(c, TRUE, TRUE, job'[c].mode)
    <3>1. PICK c \in chs : i = at[c] /\ e = Ctrl(c, TRUE, TRUE, job'[c].mode)
      BY <2>4
    <3>2. (IsStart(e, d) <=> d = c) /\ (Sets(e, d) <=> d = c)
      <4>1. e[1] = "ctrl" /\ e[2] = c /\ e[4]
        BY <3>1 DEF Ctrl
      <4> QED BY <4>1 DEF IsStart, Sets
    <3>3. at[c] \in 1 .. Len(todo') /\ i = at[c]
      BY <3>1
    <3>4. i <= at[c] /\ ~(i < at[c])
      <4>1. at[c] \in Nat
        BY <3>3
      <4> QED BY ONLY <3>3, <4>1
    <3>5. CASE d = c
      BY <2>1, <3>3, <3>4, <3>5
    <3>6. CASE d # c
      BY <2>1, <3>2, <3>6
    <3> QED BY <3>5, <3>6
  <2> QED BY <2>1, <2>2, <2>3, <2>4
<1>4. ASSUME NEW d \in Channels PROVE Pending(d)' <=> d \in chs
  <2>1. ASSUME d \in chs PROVE Pending(d)'
    <3>1. IsStart(todo'[at[d]], d)
      BY <1>2, <2>1
    <3> QED BY <2>1, <3>1 DEF Pending
  <2>2. ASSUME Pending(d)' PROVE d \in chs
    BY <1>3, <2>2 DEF Pending
  <2> QED BY <2>1, <2>2
<1>5. ConfigInv'
  <2> SUFFICES ASSUME NEW d \in Channels, NEW i \in 1 .. Len(todo')
               PROVE  /\ Sets(todo'[i], d) => Pending(d)' \/ todo'[i] = Ctrl(d, FALSE, FALSE, "mem")
                      /\ IsStart(todo'[i], d) =>
                           /\ todo'[i] = Ctrl(d, TRUE, TRUE, job'[d].mode)
                           /\ \A kind \in Kinds : \/ Register(kind, d)' = Value(kind, d)'
                                                 \/ \E j \in 1 .. i - 1 : todo'[j] = Setting(kind, d)'
                           /\ \A j \in 1 .. Len(todo') : Sets(todo'[j], d) =>
                                j <= i /\ (j < i => \E kind \in Kinds : todo'[j] = Setting(kind, d)')
    BY DEF ConfigInv, Channels, Kinds
  <2>1. ASSUME Sets(todo'[i], d) PROVE Pending(d)'
    BY <1>3, <1>4, <2>1
  <2>2. ASSUME IsStart(todo'[i], d)
        PROVE  /\ todo'[i] = Ctrl(d, TRUE, TRUE, job'[d].mode)
               /\ \A kind \in Kinds : \E j \in 1 .. i - 1 : todo'[j] = Setting(kind, d)'
               /\ \A j \in 1 .. Len(todo') : Sets(todo'[j], d) =>
                    j <= i /\ (j < i => \E kind \in Kinds : todo'[j] = Setting(kind, d)')
    <3>1. d \in chs /\ i = at[d]
      BY <1>3, <2>2
    <3>2. todo'[i] = Ctrl(d, TRUE, TRUE, job'[d].mode)
      BY <3>1
    <3>3. \A kind \in Kinds : \E j \in 1 .. i - 1 : todo'[j] = Setting(kind, d)'
      BY <3>1
    <3>4. \A j \in 1 .. Len(todo') : Sets(todo'[j], d) =>
            j <= i /\ (j < i => \E kind \in Kinds : todo'[j] = Setting(kind, d)')
      BY <1>3, <3>1
    <3> QED BY <3>2, <3>3, <3>4
  <2> QED BY <2>1, <2>2
<1> QED BY <1>4, <1>5

\* What every call has in common: the channels it takes, with the job of each.
NewJobs == [src : Sources, len : 0 .. BufLen, mode : Modes, rdErr : {FALSE}, wrErr : {FALSE}]

LEMMA CallStep ==
  ASSUME DmaInv, NEW kind \in {"memcpy", "pair", "background", "disable"}, NEW jobs, NEW writes, NEW polled,
         Call(kind, jobs, writes, polled), NEW chs \in SUBSET Channels, chs = DOMAIN jobs,
         \A c \in chs : Free(c) /\ jobs[c] \in NewJobs,
         \A c \in chs : (jobs[c].mode = "rx" => c = 0 /\ taken' = 0)
                        /\ (jobs[c].mode = "tx" => c = 1 /\ sent' = <<>>),
         writes \in Seq(RegisterWrites), ConfigInv', \A c \in Channels : Pending(c)' <=> c \in chs,
         polled \subseteq chs, \A c \in polled : Clears(writes[1], c),
         background' \subseteq background \cup chs,
         \A c \in chs : c \in background' => writes[1] = IrqStatus(Channels),
         taken' \in Nat, sent' \in Seq(Words), taken' = taken \/ 0 \in chs, sent' = sent \/ 1 \in chs
  PROVE  DmaInv'
<1> DEFINE over == {c \in Channels \ background : ~dma_is_busy(c)}
<1>1. /\ TypeOK /\ ConfigInv /\ JobsInv /\ BeginInv /\ RunInv /\ CallInv /\ FlagsInv /\ ToldInv
  BY DEF DmaInv, RunsWell
<1>2. /\ UNCHANGED <<registers, flags, channels, arbiters>>
      /\ UNCHANGED <<rxFull, txFull, faults, isrTodo, isrNext>>
      /\ call = "none" /\ call' = kind /\ todo' = writes /\ awaited' = polled
      /\ calls > 0 /\ calls' = calls - 1
      /\ missed' \subseteq missed /\ irqMissed' \subseteq irqMissed
      /\ \A c \in Channels : ~startPulse[c]
  BY DEF Call, device
<1>3. /\ job' = [c \in Channels |-> IF c \in chs THEN jobs[c]
                                    ELSE IF c \in over THEN NoJob ELSE job[c]]
      /\ result' = [c \in Channels |-> IF c \in chs \cup over THEN "none" ELSE result[c]]
      /\ mem' = [c \in Channels |-> IF c \in chs \cup over THEN Blank ELSE mem[c]]
  BY DEF Call
<1>4. chs \subseteq over /\ \A c \in chs : c \notin background /\ c \notin irqEn /\ st[c] = "IDLE"
  BY DEF Free, dma_is_busy
<1>5. \A c \in Channels : c \in over <=> c \notin background /\ st[c] = "IDLE"
  BY DEF dma_is_busy
<1> HIDE DEF over
<1>6. /\ st' = st /\ startPulse' = startPulse /\ errPulse' = errPulse /\ donePulse' = donePulse
      /\ irqSt' = irqSt /\ stDone' = stDone /\ stErr' = stErr /\ irqEn' = irqEn
  BY <1>2 DEF registers, flags, channels
<1>7. \A c \in Channels : ~Pending(c)
  BY <1>1, <1>2, NothingAhead DEF CallInv
<1>8. \A c \in chs : job'[c] = jobs[c]
  BY <1>3
<1>9. \A c \in over : result'[c] = "none" /\ mem'[c] = Blank
  BY <1>3, <1>5 DEF over
<1>10. ASSUME NEW c \in Channels, c \notin over
       PROVE  /\ c \notin chs /\ job'[c] = job[c] /\ result'[c] = result[c] /\ mem'[c] = mem[c]
              /\ job[c].mode = "tx" => sent' = sent
              /\ job[c].mode = "rx" => taken' = taken
  <2>1. c \notin chs
    BY <1>4, <1>10
  <2>2. job'[c] = job[c] /\ result'[c] = result[c] /\ mem'[c] = mem[c]
    BY <1>3, <1>10, <2>1
  <2>3. (job[c].mode = "rx" => c = 0) /\ (job[c].mode = "tx" => c = 1)
    BY <1>1 DEF JobsInv
  <2> QED BY <2>1, <2>2, <2>3
<1>11. ASSUME NEW c \in Channels, c \notin over
       PROVE  /\ InBurst(c)'
              /\ Copied(c) <=> Copied(c)'
              /\ Good(c) <=> Good(c)'
              /\ Resting(c) <=> Resting(c)'
  <2>1. InBurst(c)' /\ (Copied(c) <=> Copied(c)') /\ (Good(c) <=> Good(c)')
    BY <1>1, <1>2, <1>10, <1>11, ChannelKept DEF RunInv
  <2>2. Resting(c) <=> Resting(c)'
    BY <1>6, <1>7, <1>10, <1>11 DEF Resting
  <2> QED BY <2>1, <2>2
<1>12. TypeOK'
  <2>1. job' \in [Channels -> [src : Sources \cup {"unset"}, len : Nat, mode : Modes,
                               rdErr : BOOLEAN, wrErr : BOOLEAN]]
    <3>1. job \in [Channels -> [src : Sources \cup {"unset"}, len : Nat, mode : Modes,
                                rdErr : BOOLEAN, wrErr : BOOLEAN]]
      BY <1>1 DEF TypeOK
    <3>2. NoJob \in [src : Sources \cup {"unset"}, len : Nat, mode : Modes, rdErr : BOOLEAN, wrErr : BOOLEAN]
      BY DEF NoJob, Job, Modes
    <3>3. \A c \in chs : jobs[c] \in [src : Sources \cup {"unset"}, len : Nat, mode : Modes,
                                      rdErr : BOOLEAN, wrErr : BOOLEAN]
      <4>1. 0 .. BufLen \subseteq Nat
        OBVIOUS
      <4>2. \A x \in NewJobs : x \in [src : Sources \cup {"unset"}, len : Nat, mode : Modes,
                                     rdErr : BOOLEAN, wrErr : BOOLEAN]
        BY <4>1 DEF NewJobs
      <4>3. \A c \in chs : jobs[c] \in NewJobs
        OBVIOUS
      <4> QED BY <4>2, <4>3
    <3> QED BY <1>3, <3>1, <3>2, <3>3
  <2>2. result' \in [Channels -> {"none", "ok", "err", "served"}]
    BY <1>1, <1>3 DEF TypeOK
  <2>3. \A c \in Channels : mem'[c] \in [Positions -> Words]
    <3>1. Blank \in [Positions -> Words]
      BY DEF Blank, Words
    <3>2. \A c \in Channels : mem[c] \in [Positions -> Words]
      BY <1>1 DEF TypeOK
    <3> QED BY <1>3, <3>1, <3>2
  <2>4. calls' \in 0 .. MaxCalls
    <3>1. calls \in 0 .. MaxCalls
      BY <1>1 DEF TypeOK
    <3> QED BY <1>2, <3>1, SysDmaConstants
  <2>5. background' \subseteq Channels /\ awaited' \subseteq Channels
    BY <1>1, <1>2 DEF TypeOK
  <2> QED BY <1>1, <1>2, <2>1, <2>2, <2>3, <2>4, <2>5
          DEF TypeOK, registers, flags, channels, arbiters, Channels, Positions, Words
<1>13. JobsInv'
  <2>1. ASSUME NEW c \in Channels
        PROVE  /\ job'[c].len \in 0 .. BufLen
               /\ (job'[c].mode = "rx" => c = 0) /\ (job'[c].mode = "tx" => c = 1)
    <3>1. CASE c \in chs
      BY <1>8, <3>1 DEF NewJobs
    <3>2. CASE c \notin chs /\ c \in over
      BY <1>3, <3>2, SysDmaConstants DEF NoJob, Job
    <3>3. CASE c \notin over
      BY <1>1, <1>10, <3>3 DEF JobsInv
    <3> QED BY <3>1, <3>2, <3>3
  <2> QED BY <2>1 DEF JobsInv, Channels
<1>14. BeginInv'
  <2>1. ASSUME NEW c \in chs PROVE Fresh(c)'
    <3>1. st[c] = "IDLE" /\ ~errPulse[c] /\ result'[c] = "none" /\ mem'[c] = Blank
      BY <1>1, <1>4, <1>9 DEF RunInv
    <3>2. /\ job'[c].src \in Sources /\ ~job'[c].rdErr /\ ~job'[c].wrErr
          /\ (job'[c].mode = "rx" => taken' = 0) /\ (job'[c].mode = "tx" => sent' = <<>>)
      BY <1>8 DEF NewJobs
    <3> QED BY <1>6, <3>1, <3>2 DEF Fresh, Blank
  <2> QED BY <1>2, <1>6, <2>1 DEF BeginInv, Channels
<1>15. RunInv'
  <2>1. ASSUME NEW c \in Channels, st[c] # "IDLE"
        PROVE  /\ job'[c] = job[c] /\ mem'[c] = mem[c] /\ result'[c] = "none" /\ ~Pending(c)'
               /\ job[c].mode = "tx" => sent' = sent
               /\ job[c].mode = "rx" => taken' = taken
    BY <1>1, <1>5, <1>10, <2>1 DEF RunInv
  <2>2. ASSUME NEW c \in Channels PROVE InBurst(c)'
    <3>1. CASE c \in over
      <4>1. \A i \in Positions : mem'[c][i] = <<"old", 0>>
        BY <1>9, <3>1 DEF Blank
      <4> QED BY <4>1 DEF InBurst, Positions
    <3>2. CASE c \notin over
      BY <1>11, <3>2
    <3> QED BY <3>1, <3>2
  <2> QED BY <1>1, <1>2, <2>1, <2>2, RunKept
<1>16. CallInv'
  BY <1>2 DEF CallInv
<1>17. FlagsInv'
  <2>1. ASSUME NEW c \in background', c \notin chs
        PROVE  /\ ~Pending(c)'
               /\ IF Resting(c)' THEN donePulse'[c] \/ irqSt'[c] => job'[c].wrErr \/ job'[c].rdErr \/ Copied(c)'
                  ELSE Calm(c)'
    <3>1. c \in background /\ c \in Channels
      BY <1>1, <2>1 DEF TypeOK
    <3>2. c \notin over
      BY <1>5, <3>1
    <3>3. IF Resting(c) THEN donePulse[c] \/ irqSt[c] => job[c].wrErr \/ job[c].rdErr \/ Copied(c)
          ELSE Calm(c)
      BY <1>1, <1>7, <3>1 DEF FlagsInv
    <3>4. job'[c] = job[c] /\ (Copied(c) <=> Copied(c)') /\ (Resting(c) <=> Resting(c)')
      BY <1>10, <1>11, <3>1, <3>2
    <3>5. Calm(c) <=> Calm(c)'
      BY <1>6 DEF Calm
    <3> QED BY <1>6, <2>1, <3>1, <3>3, <3>4, <3>5
  <2>2. \A c \in polled : Pending(c)' /\ Clears(todo'[1], c)
    BY <1>2
  <2>3. \A c \in chs : c \in background' => Pending(c)' /\ c \notin irqEn' /\ todo'[1] = IrqStatus(Channels)
    BY <1>2, <1>4, <1>6
  <2>4. /\ \A c \in polled : Clears(todo[1], c)'
        /\ \A c \in chs : c \in background' => (todo[1] = IrqStatus(Channels))'
    BY <2>2, <2>3 DEF Clears, IrqStatus, Channels
  <2> QED BY <1>2, <2>1, <2>2, <2>3, <2>4 DEF FlagsInv
<1>18. ToldInv'
  <2>1. ASSUME NEW c \in Channels, result'[c] # "none"
        PROVE  /\ Resting(c)'
               /\ result'[c] = "err" => job'[c].wrErr
               /\ result'[c] = "ok" => ~job'[c].wrErr
               /\ result'[c] \in {"ok", "served"} /\ ~job'[c].rdErr /\ ~job'[c].wrErr => Copied(c)'
    <3>1. c \notin over
      BY <1>9, <2>1
    <3> QED BY <1>1, <1>10, <1>11, <2>1, <3>1 DEF ToldInv
  <2> QED BY <2>1 DEF ToldInv, Channels
<1> QED BY <1>12, <1>13, <1>14, <1>15, <1>16, <1>17, <1>18 DEF DmaInv, RunsWell

\* What a call gives its channel is a new job.
LEMMA JobTypes ==
  ASSUME NEW s \in Sources, NEW n \in 0 .. BufLen, NEW mode \in {"mem", "rx", "tx"}
  PROVE  /\ Job(s, n, mode) \in NewJobs
         /\ Job(s, n, mode).src = s /\ Job(s, n, mode).len = n /\ Job(s, n, mode).mode = mode
BY DEF Job, NewJobs, Modes

LEMMA SetupMeans ==
  ASSUME NEW c \in Channels, NEW s, NEW n, NEW mode, job'[c] = Job(s, n, mode)
  PROVE  /\ job'[c].mode = mode
         /\ Setting("src", c)' = SetSrc(c, IF mode = "rx" THEN "port" ELSE s)
         /\ Setting("dst", c)' = SetDst(c, IF mode = "tx" THEN "port" ELSE "buffer")
         /\ Setting("len", c)' = SetLen(c, n)
<1>1. job'[c].src = s /\ job'[c].len = n /\ job'[c].mode = mode
  BY DEF Job
<1>2. /\ Value("src", c)' = IF mode = "rx" THEN "port" ELSE s
      /\ Value("dst", c)' = IF mode = "tx" THEN "port" ELSE "buffer"
      /\ Value("len", c)' = n
  BY <1>1 DEF Value, SrcOf, DstOf
<1> QED BY <1>1, <1>2 DEF Setting, SetSrc, SetDst, SetLen

\* One channel: k writes that configure nothing, then its setup and its start.
LEMMA OneSetup ==
  ASSUME NEW c \in Channels, NEW k \in Nat, NEW e, e = Ctrl(c, TRUE, TRUE, job'[c].mode),
         Len(todo') = k + 4, \A i \in 1 .. k : todo'[i][1] \in {"status", "irqStatus", "irqEnable"},
         todo'[k + 1] = Setting("src", c)', todo'[k + 2] = Setting("dst", c)',
         todo'[k + 3] = Setting("len", c)', todo'[k + 4] = e
  PROVE  ConfigInv' /\ \A d \in Channels : Pending(d)' <=> d \in {c}
<1>1. PICK at : at = [x \in {c} |-> k + 4]
  OBVIOUS
<1>2. at[c] = k + 4
  BY <1>1
<1>3. "src" \in Kinds /\ "dst" \in Kinds /\ "len" \in Kinds
  BY DEF Kinds
<1>4. ASSUME NEW i \in 1 .. Len(todo')
      PROVE  \/ todo'[i][1] \in {"status", "irqStatus", "irqEnable"}
             \/ \E x \in {c}, kind \in Kinds : i < at[x] /\ todo'[i] = Setting(kind, x)'
             \/ \E x \in {c} : i = at[x] /\ todo'[i] = Ctrl(x, TRUE, TRUE, job'[x].mode)
  <2>1. i \in 1 .. k \/ i = k + 1 \/ i = k + 2 \/ i = k + 3 \/ i = k + 4
    OBVIOUS
  <2>2. CASE i \in 1 .. k
    BY <2>2
  <2>3. CASE i = k + 1 \/ i = k + 2 \/ i = k + 3
    <3>1. i < at[c]
      BY <1>2, <2>3
    <3>2. \E kind \in Kinds : todo'[i] = Setting(kind, c)'
      BY <1>3, <2>3
    <3> QED BY <3>1, <3>2
  <2>4. CASE i = k + 4
    BY <1>2, <2>4
  <2> QED BY <2>1, <2>2, <2>3, <2>4
<1>5. ASSUME NEW x \in {c}
      PROVE  /\ at[x] \in 1 .. Len(todo') /\ todo'[at[x]] = Ctrl(x, TRUE, TRUE, job'[x].mode)
             /\ \A kind \in Kinds : \E j \in 1 .. at[x] - 1 : todo'[j] = Setting(kind, x)'
  <2>1. /\ k + 1 \in 1 .. at[c] - 1 /\ k + 2 \in 1 .. at[c] - 1 /\ k + 3 \in 1 .. at[c] - 1
        /\ at[c] \in 1 .. Len(todo')
    BY <1>2
  <2>2. ASSUME NEW kind \in Kinds PROVE \E j \in 1 .. at[c] - 1 : todo'[j] = Setting(kind, c)'
    <3>1. kind = "src" \/ kind = "dst" \/ kind = "len"
      BY DEF Kinds
    <3> QED BY <2>1, <3>1
  <2>3. todo'[at[c]] = Ctrl(c, TRUE, TRUE, job'[c].mode)
    BY <1>2
  <2> QED BY <2>1, <2>2, <2>3
<1>6. Len(todo') \in Nat /\ {c} \in SUBSET Channels
  OBVIOUS
<1> QED BY <1>4, <1>5, <1>6, SetupIsConfigured

LEMMA MemcpyStep ==
  ASSUME DmaInv, NEW c \in Channels, NEW s \in Sources, NEW n \in Copies, CallMemcpy(c, s, n)
  PROVE  DmaInv'
<1>1. n \in 0 .. BufLen /\ n \in Nat /\ BufLen \in Nat
  BY SysDmaConstants
<1>2. PICK z : /\ z = dma_memcpy(c, s, n) /\ z \in Seq(RegisterWrites) /\ Len(z) = 5
               /\ z[1] = Status({c}, {c})
               /\ z[2] = SetSrc(c, s) /\ z[3] = SetDst(c, "buffer") /\ z[4] = SetLen(c, n)
               /\ z[5] = Ctrl(c, TRUE, TRUE, "mem")
  BY <1>1, MemcpyWrites
<1>3. PICK jobs, chs : jobs = [x \in {c} |-> Job(s, n, "mem")] /\ chs = {c}
  OBVIOUS
<1>4. /\ Call("memcpy", jobs, z, chs) /\ Free(c)
      /\ background' = background /\ taken' = taken /\ sent' = sent
  BY <1>2, <1>3 DEF CallMemcpy
<1>5. chs \in SUBSET Channels /\ chs = DOMAIN jobs /\ jobs[c] = Job(s, n, "mem")
  BY <1>3
<1>6. \A x \in chs : Free(x) /\ jobs[x] \in NewJobs /\ jobs[x].mode = "mem"
  BY <1>1, <1>3, <1>4, <1>5, JobTypes
<1>7. todo' = z /\ job'[c] = Job(s, n, "mem")
  BY <1>3, <1>4, <1>5 DEF Call
<1>8. ConfigInv' /\ \A d \in Channels : Pending(d)' <=> d \in chs
  <2>1. /\ job'[c].mode = "mem" /\ z[2] = Setting("src", c)' /\ z[3] = Setting("dst", c)'
        /\ z[4] = Setting("len", c)'
    BY <1>2, <1>7, SetupMeans
  <2>2. z[1][1] = "status"
    BY <1>2 DEF Status
  <2>3. PICK e : e = Ctrl(c, TRUE, TRUE, job'[c].mode)
    OBVIOUS
  <2>4. PICK k \in Nat : k = 1
    OBVIOUS
  <2>5. Len(todo') = k + 4 /\ \A i \in 1 .. k : todo'[i] = z[1]
    BY <1>2, <1>7, <2>4
  <2>6. /\ todo'[k + 1] = Setting("src", c)' /\ todo'[k + 2] = Setting("dst", c)'
        /\ todo'[k + 3] = Setting("len", c)' /\ todo'[k + 4] = e
    <3>1. k + 1 = 2 /\ k + 2 = 3 /\ k + 3 = 4 /\ k + 4 = 5
      BY <2>4
    <3>2. z[5] = e
      BY <1>2, <2>1, <2>3, Zenon
    <3> QED BY <1>7, <2>1, <3>1, <3>2
  <2> QED BY <1>3, <2>2, <2>3, <2>5, <2>6, OneSetup
<1>9. taken' \in Nat /\ sent' \in Seq(Words)
  BY <1>4 DEF DmaInv, RunsWell, TypeOK
<1>10. \A x \in chs : Clears(z[1], x)
  BY <1>2, <1>3 DEF Clears, Status
<1>11. \A x \in chs : x \notin background'
  BY <1>4, <1>6 DEF Free
<1>12. \A x \in chs : (jobs[x].mode = "rx" => x = 0 /\ taken' = 0)
                       /\ (jobs[x].mode = "tx" => x = 1 /\ sent' = <<>>)
  BY <1>6
<1>13. z \in Seq(RegisterWrites) /\ background' \subseteq background \cup chs
  BY <1>2, <1>4
<1> QED BY <1>4, <1>5, <1>6, <1>8, <1>9, <1>10, <1>11, <1>12, <1>13, CallStep

LEMMA BackgroundStep ==
  ASSUME DmaInv, NEW c \in Channels, NEW s \in Sources, NEW j \in Jobs, CallBackground(c, s, j[2], j[1])
  PROVE  DmaInv'
<1>1. PICK n, mode : n = j[2] /\ mode = j[1]
  OBVIOUS
<1>2. n \in 0 .. BufLen /\ n \in Nat /\ mode \in {"mem", "rx", "tx"}
  <2>1. j \in {"mem", "rx", "tx"} \X (0 .. BufLen) /\ BufLen \in Nat
    BY SysDmaConstants
  <2> QED BY <1>1, <2>1
<1>3. PICK irqs : irqs = background \cup {c}
  OBVIOUS
<1>4. irqs \in SUBSET Channels
  BY <1>3 DEF DmaInv, RunsWell, TypeOK
<1>5. PICK z : /\ z = BackgroundWrites(irqs, c, s, n, mode) /\ z \in Seq(RegisterWrites) /\ Len(z) = 6
               /\ z[1] = IrqStatus(Channels) /\ z[2] = IrqEnable(irqs)
               /\ z[3] = SetSrc(c, IF mode = "rx" THEN "port" ELSE s)
               /\ z[4] = SetDst(c, IF mode = "tx" THEN "port" ELSE "buffer")
               /\ z[5] = SetLen(c, n)
               /\ z[6] = Ctrl(c, TRUE, TRUE, mode)
  BY <1>2, <1>4, BackgroundWritesAre
<1>6. PICK jobs, chs : jobs = [x \in {c} |-> Job(s, n, mode)] /\ chs = {c}
  OBVIOUS
<1>7. /\ Call("background", jobs, z, {}) /\ Free(c)
      /\ mode = "rx" => c = 0
      /\ mode = "tx" => c = 1
      /\ background' = background \cup {c}
      /\ taken' = IF mode = "rx" THEN 0 ELSE taken
      /\ sent' = IF mode = "tx" THEN <<>> ELSE sent
  BY <1>1, <1>3, <1>5, <1>6 DEF CallBackground, BackgroundWrites
<1>8. chs \in SUBSET Channels /\ chs = DOMAIN jobs /\ jobs[c] = Job(s, n, mode)
  BY <1>6
<1>9. \A x \in chs : Free(x) /\ jobs[x] \in NewJobs /\ jobs[x].mode = mode
  BY <1>2, <1>6, <1>7, <1>8, JobTypes
<1>10. todo' = z /\ job'[c] = Job(s, n, mode)
  BY <1>6, <1>7, <1>8 DEF Call
<1>11. ConfigInv' /\ \A d \in Channels : Pending(d)' <=> d \in chs
  <2>1. /\ job'[c].mode = mode /\ z[3] = Setting("src", c)' /\ z[4] = Setting("dst", c)'
        /\ z[5] = Setting("len", c)'
    BY <1>5, <1>10, SetupMeans
  <2>2. z[1][1] = "irqStatus" /\ z[2][1] = "irqEnable"
    BY <1>5 DEF IrqStatus, IrqEnable
  <2>3. PICK e : e = Ctrl(c, TRUE, TRUE, job'[c].mode)
    OBVIOUS
  <2>4. PICK k \in Nat : k = 2
    OBVIOUS
  <2>5. Len(todo') = k + 4 /\ \A i \in 1 .. k : todo'[i] = z[1] \/ todo'[i] = z[2]
    BY <1>5, <1>10, <2>4
  <2>6. /\ todo'[k + 1] = Setting("src", c)' /\ todo'[k + 2] = Setting("dst", c)'
        /\ todo'[k + 3] = Setting("len", c)' /\ todo'[k + 4] = e
    <3>1. k + 1 = 3 /\ k + 2 = 4 /\ k + 3 = 5 /\ k + 4 = 6
      BY <2>4
    <3>2. z[6] = e
      BY <1>5, <2>1, <2>3, Zenon
    <3> QED BY <1>10, <2>1, <3>1, <3>2
  <2>7. \A i \in 1 .. k : todo'[i][1] \in {"status", "irqStatus", "irqEnable"}
    BY <2>2, <2>5
  <2> QED BY <1>6, <2>3, <2>5, <2>6, <2>7, OneSetup
<1>12. taken' \in Nat /\ sent' \in Seq(Words)
  <2>1. taken \in Nat /\ sent \in Seq(Words)
    BY DEF DmaInv, RunsWell, TypeOK
  <2>2. <<>> \in Seq(Words)
    OBVIOUS
  <2> QED BY <1>7, <2>1, <2>2
<1>13. \A x \in chs : (jobs[x].mode = "rx" => x = 0 /\ taken' = 0)
                       /\ (jobs[x].mode = "tx" => x = 1 /\ sent' = <<>>)
  BY <1>6, <1>7, <1>9
<1>14. (taken' = taken \/ 0 \in chs) /\ (sent' = sent \/ 1 \in chs)
  BY <1>6, <1>7
<1>15. z \in Seq(RegisterWrites) /\ background' \subseteq background \cup chs /\ z[1] = IrqStatus(Channels)
  BY <1>5, <1>6, <1>7
<1> QED BY <1>7, <1>8, <1>9, <1>11, <1>12, <1>13, <1>14, <1>15, CallStep

LEMMA DisableStep ==
  ASSUME DmaInv, NEW c \in Channels, CallDisable(c)
  PROVE  DmaInv'
<1>1. PICK a, b : a = Ctrl(c, FALSE, FALSE, "mem") /\ b = IrqEnable({})
  OBVIOUS
<1>2. a \in RegisterWrites /\ b \in RegisterWrites
  BY <1>1, CtrlTypes, StatusTypes
<1>3. PICK u : u = <<a>>
  OBVIOUS
<1>4. u \in Seq(RegisterWrites) /\ Len(u) = 1 /\ u[1] = a
  BY <1>2, <1>3, OneWrite
<1>5. PICK z : z = u \o <<b>>
  OBVIOUS
<1>6. /\ z \in Seq(RegisterWrites) /\ Len(z) = Len(u) + 1 /\ \A i \in 1 .. Len(u) : z[i] = u[i]
      /\ z[Len(u) + 1] = b
  <2>1. u \in Seq(RegisterWrites)
    BY <1>4
  <2> QED BY <1>2, <1>5, <2>1, JoinedWrite
<1>7. Len(z) = 2 /\ z[1] = a /\ z[2] = b
  BY <1>4, <1>6
<1>8. PICK jobs, chs : jobs = [x \in {} |-> NoJob] /\ chs = {}
  OBVIOUS
<1>9. /\ Call("disable", jobs, z, {})
      /\ background' = {} /\ taken' = taken /\ sent' = sent
  BY <1>1, <1>3, <1>5, <1>8 DEF CallDisable, dma_ch_disable, dma_irq_disable_all
<1>10. chs \in SUBSET Channels /\ chs = DOMAIN jobs
  BY <1>8
<1>11. todo' = z
  BY <1>9 DEF Call
<1>12. \A i \in 1 .. Len(todo') : todo'[i] = a \/ todo'[i] = b
  <2>1. \A i \in 1 .. 2 : i = 1 \/ i = 2
    OBVIOUS
  <2>2. Len(todo') = 2 /\ todo'[1] = a /\ todo'[2] = b
    BY <1>7, <1>11
  <2> QED BY <2>1, <2>2
<1>13. /\ \A d \in Channels : ~IsStart(a, d) /\ ~IsStart(b, d) /\ ~Sets(b, d)
       /\ \A d \in Channels : Sets(a, d) => d = c
  BY <1>1 DEF IsStart, Sets, Ctrl, IrqEnable
<1>14. \A d \in Channels : ~Pending(d)'
  <2>1. \A i \in 1 .. Len(todo') : \A d \in Channels : ~IsStart(todo'[i], d)
    BY <1>12, <1>13
  <2> QED BY <2>1 DEF Pending
<1>15. ConfigInv'
  <2>1. ASSUME NEW d \in Channels, NEW i \in 1 .. Len(todo')
        PROVE  /\ ~IsStart(todo'[i], d)
               /\ Sets(todo'[i], d) => todo'[i] = Ctrl(d, FALSE, FALSE, "mem")
    <3>1. todo'[i] = a \/ todo'[i] = b
      BY <1>12
    <3>2. ~IsStart(todo'[i], d) /\ (Sets(todo'[i], d) => todo'[i] = a /\ d = c)
      BY <1>13, <3>1
    <3> QED BY <1>1, <3>2, Zenon
  <2> QED BY <2>1 DEF ConfigInv, Channels
<1>16. taken' \in Nat /\ sent' \in Seq(Words)
  BY <1>9 DEF DmaInv, RunsWell, TypeOK
<1>17. z \in Seq(RegisterWrites) /\ \A x \in chs : FALSE
  BY <1>6, <1>8
<1> QED BY <1>9, <1>10, <1>14, <1>15, <1>16, <1>17, CallStep

LEMMA PairStep ==
  ASSUME DmaInv, NEW c \in Channels, NEW d \in Channels, NEW s \in Sources, NEW p \in Pairs,
         CallPair(c, d, s, p[1], p[2])
  PROVE  DmaInv'
<1>1. PICK n, m : n = p[1] /\ m = p[2]
  OBVIOUS
<1>2. n \in 0 .. BufLen /\ m \in 0 .. BufLen /\ n \in Nat /\ m \in Nat
  <2>1. p \in (0 .. BufLen) \X (0 .. BufLen) /\ BufLen \in Nat
    BY SysDmaConstants
  <2> QED BY <1>1, <2>1
<1>3. PICK z : /\ z = PairWrites(c, d, s, n, m) /\ z \in Seq(RegisterWrites) /\ Len(z) = 9
               /\ z[1] = Status(Channels, Channels)
               /\ z[2] = SetSrc(c, s) /\ z[3] = SetDst(c, "buffer") /\ z[4] = SetLen(c, n)
               /\ z[5] = SetSrc(d, s) /\ z[6] = SetDst(d, "buffer") /\ z[7] = SetLen(d, m)
               /\ z[8] = Ctrl(c, TRUE, TRUE, "mem") /\ z[9] = Ctrl(d, TRUE, TRUE, "mem")
  <2>1. n \in Nat /\ m \in Nat
    BY <1>2
  <2>2. \E z : ArePair(z, c, d, s, n, m)
    BY <2>1, PairWritesAre
  <2> QED BY <2>2 DEF ArePair
<1>4. PICK jobs, chs : jobs = [x \in {c, d} |-> Job(s, IF x = c THEN n ELSE m, "mem")] /\ chs = {c, d}
  OBVIOUS
<1>5. /\ Call("pair", jobs, z, chs) /\ Free(c) /\ Free(d) /\ c < d
      /\ background' = background /\ taken' = taken /\ sent' = sent
  BY <1>1, <1>3, <1>4 DEF CallPair, PairWrites
<1>6. c # d
  BY <1>5, SysDmaConstants DEF Channels
<1>7. /\ chs \in SUBSET Channels /\ chs = DOMAIN jobs
      /\ jobs[c] = Job(s, n, "mem") /\ jobs[d] = Job(s, m, "mem")
  BY <1>4, <1>6
<1>8. \A x \in chs : Free(x) /\ jobs[x] \in NewJobs /\ jobs[x].mode = "mem"
  BY <1>2, <1>4, <1>5, <1>7, JobTypes
<1>9. todo' = z /\ job'[c] = Job(s, n, "mem") /\ job'[d] = Job(s, m, "mem")
  BY <1>4, <1>5, <1>7 DEF Call
<1>10. ConfigInv' /\ \A x \in Channels : Pending(x)' <=> x \in chs
  <2>1. /\ job'[c].mode = "mem" /\ z[2] = Setting("src", c)' /\ z[3] = Setting("dst", c)'
        /\ z[4] = Setting("len", c)'
    BY <1>3, <1>9, SetupMeans
  <2>2. /\ job'[d].mode = "mem" /\ z[5] = Setting("src", d)' /\ z[6] = Setting("dst", d)'
        /\ z[7] = Setting("len", d)'
    BY <1>3, <1>9, SetupMeans
  <2>3. z[1][1] = "status"
    BY <1>3 DEF Status
  <2>4. PICK e, f : e = Ctrl(c, TRUE, TRUE, job'[c].mode) /\ f = Ctrl(d, TRUE, TRUE, job'[d].mode)
    OBVIOUS
  <2>5. z[8] = e /\ z[9] = f
    BY <1>3, <2>1, <2>2, <2>4, Zenon
  <2>6. Len(z) = 9
    BY <1>3
  <2>7. PICK at : at = [x \in {c, d} |-> IF x = c THEN 8 ELSE 9]
    OBVIOUS
  <2>8. at[c] = 8 /\ at[d] = 9
    BY <1>6, <2>7
  <2>9. "src" \in Kinds /\ "dst" \in Kinds /\ "len" \in Kinds
    BY DEF Kinds
  <2>10. ASSUME NEW i \in 1 .. Len(todo')
         PROVE  \/ todo'[i][1] \in {"status", "irqStatus", "irqEnable"}
                \/ \E x \in chs, kind \in Kinds : i < at[x] /\ todo'[i] = Setting(kind, x)'
                \/ \E x \in chs : i = at[x] /\ todo'[i] = Ctrl(x, TRUE, TRUE, job'[x].mode)
    <3>1. i \in 1 .. 9
      BY <1>9, <2>6
    <3>2. i = 1 \/ i \in {2, 3, 4} \/ i \in {5, 6, 7} \/ i = 8 \/ i = 9
      BY <3>1
    <3>3. CASE i = 1
      BY <1>9, <2>3, <3>3
    <3>4. CASE i \in {2, 3, 4}
      <4>1. i < at[c]
        BY <2>8, <3>4
      <4>2. \E kind \in Kinds : z[i] = Setting(kind, c)'
        BY <2>1, <2>9, <3>4
      <4> QED BY <1>4, <1>9, <4>1, <4>2
    <3>5. CASE i \in {5, 6, 7}
      <4>1. i < at[d]
        BY <2>8, <3>5
      <4>2. \E kind \in Kinds : z[i] = Setting(kind, d)'
        BY <2>2, <2>9, <3>5
      <4> QED BY <1>4, <1>9, <4>1, <4>2
    <3>6. CASE i = 8
      BY <1>4, <1>9, <2>4, <2>5, <2>8, <3>6
    <3>7. CASE i = 9
      BY <1>4, <1>9, <2>4, <2>5, <2>8, <3>7
    <3> QED BY <3>2, <3>3, <3>4, <3>5, <3>6, <3>7
  <2>11. ASSUME NEW x \in chs
         PROVE  /\ at[x] \in 1 .. Len(todo') /\ todo'[at[x]] = Ctrl(x, TRUE, TRUE, job'[x].mode)
                /\ \A kind \in Kinds : \E j \in 1 .. at[x] - 1 : todo'[j] = Setting(kind, x)'
    <3>1. at[x] \in 1 .. Len(todo') /\ at[x] - 1 \in {7, 8}
      <4>1. at[x] = 8 \/ at[x] = 9
        BY <1>4, <2>8
      <4>2. Len(todo') = 9
        BY <1>9, <2>6
      <4> QED BY <4>1, <4>2
    <3>2. \A i \in 1 .. 7 : i \in 1 .. at[x] - 1
      BY <3>1
    <3>3. todo'[at[x]] = Ctrl(x, TRUE, TRUE, job'[x].mode)
      BY <1>4, <1>9, <2>4, <2>5, <2>8
    <3>4. ASSUME NEW kind \in Kinds PROVE \E j \in 1 .. 7 : z[j] = Setting(kind, x)'
      <4>1. kind = "src" \/ kind = "dst" \/ kind = "len"
        BY DEF Kinds
      <4>2. CASE x = c
        <5>1. z[2] = Setting("src", x)' /\ z[3] = Setting("dst", x)' /\ z[4] = Setting("len", x)'
          BY <2>1, <4>2
        <5> QED BY <4>1, <5>1
      <4>3. CASE x = d
        <5>1. z[5] = Setting("src", x)' /\ z[6] = Setting("dst", x)' /\ z[7] = Setting("len", x)'
          BY <2>2, <4>3
        <5> QED BY <4>1, <5>1
      <4> QED BY <1>4, <4>2, <4>3
    <3> QED BY <1>9, <3>1, <3>2, <3>3, <3>4
  <2>12. Len(todo') \in Nat
    BY <1>9, <2>6
  <2>13. chs \in SUBSET Channels
    BY <1>7
  <2> QED BY <2>10, <2>11, <2>12, <2>13, SetupIsConfigured
<1>11. taken' \in Nat /\ sent' \in Seq(Words)
  BY <1>5 DEF DmaInv, RunsWell, TypeOK
<1>12. \A x \in chs : Clears(z[1], x)
  BY <1>3, <1>7 DEF Clears, Status
<1>13. \A x \in chs : x \notin background'
  BY <1>5, <1>8 DEF Free
<1>14. \A x \in chs : (jobs[x].mode = "rx" => x = 0 /\ taken' = 0)
                       /\ (jobs[x].mode = "tx" => x = 1 /\ sent' = <<>>)
  BY <1>8
<1>15. z \in Seq(RegisterWrites) /\ background' \subseteq background \cup chs
  BY <1>3, <1>5
<1> QED BY <1>5, <1>7, <1>8, <1>10, <1>11, <1>12, <1>13, <1>14, <1>15, CallStep

(***************************************************************************)
(* The invariant is inductive.                                             *)
(***************************************************************************)
LEMMA DmaBegins == Init => DmaInv
<1> SUFFICES ASSUME Init PROVE DmaInv
  OBVIOUS
<1>1. /\ todo = <<>> /\ awaited = {} /\ background = {}
      /\ \A c \in Channels : /\ job[c] = NoJob /\ result[c] = "none" /\ st[c] = "IDLE" /\ mem[c] = Blank
                             /\ ~startPulse[c] /\ ~donePulse[c] /\ ~errPulse[c]
  BY DEF Init
<1>2. TypeOK
  <2>1. NumCh \in Nat \ {0} /\ MaxCalls \in Nat /\ MaxFaults \in Nat
    BY SysDmaConstants
  <2>2. Nobody \in Channels \cup {Nobody} /\ NumCh - 1 \in Channels
    BY <2>1 DEF Channels
  <2>3. Blank \in [Positions -> Words]
    BY DEF Blank, Words
  <2>4. NoJob \in [src : Sources \cup {"unset"}, len : Nat, mode : Modes, rdErr : BOOLEAN, wrErr : BOOLEAN]
    BY DEF NoJob, Job, Modes
  <2>5. \A S : <<>> \in Seq(S)
    OBVIOUS
  <2>6. calls \in 0 .. MaxCalls /\ faults \in 0 .. MaxFaults
    BY <2>1 DEF Init
  <2>7. \A c \in Channels : buf[c] \in Seq(Words) /\ mem[c] \in [Positions -> Words]
    BY <1>1, <2>3, <2>5 DEF Init
  <2>8. job \in [Channels -> [src : Sources \cup {"unset"}, len : Nat, mode : Modes,
                              rdErr : BOOLEAN, wrErr : BOOLEAN]]
    BY <2>4 DEF Init
  <2>9. sent \in Seq(Words) /\ todo \in Seq(RegisterWrites)
    BY <2>5 DEF Init
  <2>10. /\ rdOwner \in Channels \cup {Nobody} /\ rdLast \in Channels
         /\ wrOwner \in Channels \cup {Nobody} /\ wrLast \in Channels
    BY <2>2 DEF Init
  <2> QED BY <2>6, <2>7, <2>8, <2>9, <2>10 DEF Init, TypeOK, Flags, States, Modes
<1>3. ConfigInv /\ CallInv
  BY <1>1 DEF ConfigInv, CallInv
<1>4. \A c \in Channels : ~Pending(c)
  BY <1>1, NothingAhead
<1>5. JobsInv
  BY <1>1, SysDmaConstants DEF JobsInv, NoJob, Job
<1>6. BeginInv
  BY <1>1, <1>4 DEF BeginInv
<1>7. RunInv
  <2>1. \A c \in Channels : InBurst(c)
    <3>1. \A c \in Channels : \A i \in Positions : mem[c][i] = <<"old", 0>>
      BY <1>1 DEF Blank
    <3> QED BY <3>1 DEF InBurst
  <2> QED BY <1>1, <2>1 DEF RunInv
<1>8. FlagsInv /\ ToldInv
  BY <1>1 DEF FlagsInv, ToldInv
<1> QED BY <1>2, <1>3, <1>5, <1>6, <1>7, <1>8 DEF DmaInv, RunsWell

LEMMA DmaStays == ASSUME DmaInv, UNCHANGED vars PROVE DmaInv'
<1>1. /\ UNCHANGED <<registers, flags, channels, arbiters, outside, todo, job>>
      /\ UNCHANGED <<call, awaited, calls, isrTodo, isrNext, result, background, missed, irqMissed>>
  BY DEF vars, program, thread
<1>2. /\ ConfigInv' /\ JobsInv' /\ BeginInv' /\ RunInv'
      /\ \A c \in Channels : /\ Pending(c)' <=> Pending(c)
                             /\ Resting(c)' <=> Resting(c)
                             /\ Good(c)' <=> Good(c)
                             /\ Copied(c)' <=> Copied(c)
                             /\ Quiet(c)' <=> Quiet(c)
                             /\ Calm(c)' <=> Calm(c)
  BY <1>1, ProgramKept
<1>3. TypeOK'
  <2>1. TypeOK
    BY DEF DmaInv, RunsWell
  <2>2. ProgramTypes'
    BY <1>1, <2>1 DEF TypeOK, ProgramTypes
  <2> QED BY <1>1, <2>1, <2>2, TypesAreBoth, DeviceTypesKept
<1>4. CallInv'
  BY <1>1 DEF DmaInv, CallInv
<1>5. FlagsInv'
  <2>1. \A c \in background \cup awaited : c \in Channels
    BY DEF DmaInv, RunsWell, TypeOK
  <2> QED BY <1>1, <1>2, <2>1 DEF DmaInv, FlagsInv, channels, flags, Clears, Channels
<1>6. ToldInv'
  BY <1>1, <1>2 DEF DmaInv, ToldInv, Channels
<1> QED BY <1>2, <1>3, <1>4, <1>5, <1>6 DEF DmaInv, RunsWell

LEMMA DmaStep == DmaInv /\ [Next]_vars => DmaInv'
<1> SUFFICES ASSUME DmaInv, [Next]_vars PROVE DmaInv'
  OBVIOUS
<1>1. CASE Computes
  <2>1. CASE \E c \in Channels, s \in Sources, n \in Copies : CallMemcpy(c, s, n)
    BY <2>1, MemcpyStep
  <2>2. CASE \E c \in Channels, d \in Channels, s \in Sources, p \in Pairs : CallPair(c, d, s, p[1], p[2])
    BY <2>2, PairStep
  <2>3. CASE \E c \in Channels, s \in Sources, j \in Jobs : CallBackground(c, s, j[2], j[1])
    BY <2>3, BackgroundStep
  <2>4. CASE \E c \in Channels : CallDisable(c)
    BY <2>4, DisableStep
  <2>5. CASE WaitReturns
    BY <2>5, WaitStep
  <2>6. CASE CallReturns
    BY <2>6, ReturnStep
  <2>7. CASE \E looksAt \in {irqEn, Channels} : TakeInterrupt(looksAt)
    BY <2>7, InterruptStep
  <2> QED BY <1>1, <2>1, <2>2, <2>3, <2>4, <2>5, <2>6, <2>7 DEF Computes
<1>2. CASE Ticks
  BY <1>2, TickStep
<1>3. CASE UNCHANGED vars
  BY <1>3, DmaStays
<1> QED BY <1>1, <1>2, <1>3 DEF Next, Ticks

\* Every state of the controller, its program, the memory and the UART has
\* the types of the model: the counters stay in range, the channels in the
\* nine states of dma_channel.v and the arbiters' owners are channels.
THEOREM DmaIsTyped == Spec => []TypeOK
<1>1. DmaInv => TypeOK
  BY DEF DmaInv, RunsWell
<1> QED BY DmaBegins, DmaStep, <1>1, PTL DEF Spec

\* Whatever the order of the calls, the interrupts, the answers of the memory
\* and the words of the UART, what dma_memcpy, dma_wait_all or the handler
\* tells the program of a job is so: an error is a write the memory refused,
\* and without one the data is where the job was to leave it, unless a read
\* failed, which the channel does not look at (dma_channel.v:260-270).
THEOREM DmaTellsTheTruth == Spec => []ReturnsTruth
<1>1. DmaInv => ReturnsTruth
  <2> SUFFICES ASSUME DmaInv, NEW c \in Channels
               PROVE  /\ result[c] = "err" => job[c].wrErr
                      /\ result[c] = "ok" => ~job[c].wrErr
                      /\ result[c] \in {"ok", "served"} /\ ~job[c].rdErr /\ ~job[c].wrErr => Copied(c)
    BY DEF ReturnsTruth
  <2> QED BY DEF DmaInv, ToldInv
<1> QED BY DmaBegins, DmaStep, <1>1, PTL DEF Spec

\* However long a job and a burst are, a channel leaves the words of its
\* buffer behind the job alone, but for the full burst that a long enough
\* tail is taken for (dma_channel.v:149).
THEOREM WritesEndWithTheJob == Spec => []WritesStayInBurst
<1>1. DmaInv => WritesStayInBurst
  BY DEF DmaInv, RunsWell, RunInv, InBurst, WritesStayInBurst
<1> QED BY DmaBegins, DmaStep, <1>1, PTL DEF Spec
=============================================================================
