---------------------------- MODULE DCache_proofs ----------------------------
(***************************************************************************)
(* Proofs about DCache, for every set of lines, indexes and words, every   *)
(* program and every choice of other agents.  The units of the cache share *)
(* the arrays and the write-back engine without a handshake; what keeps    *)
(* them apart is who may move when: the controller waits while a fence is  *)
(* under way or a snoop is answered, a fence starts when nothing is.  The  *)
(* invariants say so, unit by unit, and what each knows of the line it is  *)
(* about to change.  The windows "drain" and "snoop" break this order and  *)
(* are excluded.                                                           *)
(***************************************************************************)
EXTENDS DCache, FiniteSetTheorems, TLAPS

Lines    == Used \cup {NoLine}
Quiet(p) == ~p.tagUpdate /\ ~p.dirtySet /\ ~p.dirtyClear

HartInv ==
  /\ req.line \in Lines /\ cur.line \in Lines /\ fab.line \in Lines /\ sreq.line \in Lines
  /\ CpuReq => fence = {} /\ ~ncJust /\ ~pulse.deferred
  /\ state \notin {"idle", "drain"} => CpuReq
  /\ fence # {} => state = "idle" /\ sstate = "idle"
  /\ prev # NoCheck => state # "idle" \/ SnoopBusy

FenceInv ==
  /\ fbusy <=> fstate # "idle"
  /\ fbusy \/ fpulse # NoFPulse =>
       state = "idle" /\ Quiet(pulse) /\ sstate = "idle" /\ spulse = NoSPulse
  /\ fstate = "tagwait" => fdata # NoData

SnoopInv ==
  /\ sstate # "idle" \/ spulse # NoSPulse =>
       /\ fab.state = "wait" /\ state \in {"idle", "peer"}
       /\ Quiet(pulse) /\ pulse.evict = NoEvict
  /\ sstate # "idle" => ~spulse.resp /\ ~spulse.shared /\ ~spulse.inval
  /\ sstate = "capture" => look.state = states[Index(sreq.line)]
  /\ spulse.shared => states[Index(sreq.line)] = "E"

MissInv ==
  /\ state \notin {"idle", "wait"} => Quiet(pulse)
  /\ pulse.dirtyClear <=> state = "wait"
  /\ state = "wait" => ~pulse.tagUpdate /\ ~pulse.dirtySet
  /\ state = "lookup" /\ stable => (look.dirty <=> states[Index(cur.line)] = "M")
  /\ \/ state = "peer" /\ ~localDirty
     \/ state \in {"refill", "drain", "c2c"}
     \/ pulse.tagUpdate /\ ~pulse.dirtySet
     => states[Index(cur.line)] # "M"

BitmapInv == bitmap = {i \in Indexes : states[i] = "M"}

EvictInv ==
  /\ fpulse.evict # NoEvict => fstate = "evict"
  /\ spulse.evict # NoEvict => sstate = "evict"
  /\ pulse.evict # NoEvict => state \in {"evict", "ncwrite"}
  /\ ev.state # "idle" \/ evictDone =>
       /\ Starters = {}
       /\ fstate = "evict" \/ sstate = "evict" \/ state \in {"evict", "ncwrite"}
  /\ ~(ev.state # "idle" /\ evictDone)

DCacheInv == HartInv /\ FenceInv /\ SnoopInv /\ MissInv /\ BitmapInv /\ EvictInv

LEMMA LinesAreLines ==
  /\ NoLine \in Lines /\ \A l \in Lines : l # NoCheck /\ Index(l) \in Indexes
  /\ Snooped \subseteq Lines
<1>1. \A l \in Used : l # NoCheck /\ Index(l) \in Indexes
  <2> SUFFICES ASSUME NEW l \in Used PROVE l # NoCheck /\ Index(l) \in Indexes
    OBVIOUS
  <2>1. l \in (Nat \ {NoTag}) \X Indexes
    BY CacheConstants
  <2>2. l = <<l[1], l[2]>> /\ l[2] \in Indexes
    BY <2>1
  <2> QED BY <2>2 DEF NoCheck, Index
<1>2. NoLine # NoCheck /\ Index(NoLine) \in Indexes
  BY CacheConstants DEF NoLine, NoCheck, Index, NoTag
<1> QED BY <1>1, <1>2, CacheConstants DEF Lines

LEMMA InvStarts == Init => DCacheInv
<1> SUFFICES ASSUME Init PROVE DCacheInv
  OBVIOUS
<1>1. ~CpuReq /\ NoLine \in Lines
  BY LinesAreLines DEF Init, CpuReq
<1>2. HartInv
  BY <1>1 DEF Init, HartInv, NoReq, NoCur, NoFab, NoSnoop
<1>3. FenceInv /\ SnoopInv /\ MissInv
  BY DEF Init, FenceInv, SnoopInv, MissInv, Quiet, NoPulse, NoFPulse, NoSPulse
<1>4. BitmapInv
  BY DEF Init, BitmapInv
<1>5. EvictInv
  BY DEF Init, EvictInv, EvIdle, NoPulse, NoFPulse, NoSPulse
<1> QED BY <1>2, <1>3, <1>4, <1>5 DEF DCacheInv

-----------------------------------------------------------------------------
(***************************************************************************)
(* The controller: what its states follow, and what it puts out.           *)
(***************************************************************************)

\* An access never meets a lookup that was made for it already: the check
\* for a hit in the first cycle (prev_was_idle_hit_check) does not come true.
LEMMA NoIdleHit ==
  ASSUME HartInv, state = "idle"
  PROVE  ~Ready /\ (Accept => ~IdleHit)
<1>1. ASSUME IdleHitCheck PROVE ~IdleHit
  <2>1. prev = NoCheck /\ LookupLine = req.line
    BY <1>1 DEF HartInv, IdleHitCheck, LookupLine
  <2> QED BY <2>1, LinesAreLines DEF IdleHit, HartInv
<1>2. Ready => IdleHitCheck /\ IdleHit
  BY DEF Ready, IdleHitCheck
<1>3. Accept => IdleHitCheck
  BY DEF Accept, IdleHitCheck, CpuReqNoSnoop
<1> QED BY <1>1, <1>2, <1>3

\* Where the states lead.
LEMMA StatesFollow ==
  ASSUME HartInv, state' = NextState
  PROVE  /\ state = "idle" => state' = "idle" \/ (Accept /\ state' \in {"lookup", "ncread", "ncwrite"})
         /\ state = "idle" /\ Accept =>
              state' = IF IsNc(req) THEN IF IsStore(req) THEN "ncwrite" ELSE "ncread" ELSE "lookup"
         /\ state = "lookup" =>
              state' = IF ~stable THEN "lookup" ELSE IF look.hit THEN "idle" ELSE IF ~cur.we THEN "peer"
                       ELSE IF look.dirty THEN "evict" ELSE "refill"
         /\ state = "peer" =>
              state' = IF ~OwnAnswer THEN "peer" ELSE IF localDirty THEN "evict"
                       ELSE IF OwnHit THEN "c2c" ELSE "refill"
         /\ state = "evict" => state' = IF evictDone THEN "wait" ELSE "evict"
         /\ state = "wait" => state' \in {"c2c", "refill"}
         /\ state = "refill" => state' = IF RefillDone THEN "idle"
              ELSE IF ~cur.we /\ Beat /\ rd.word = cur.word THEN "drain" ELSE "refill"
         /\ state = "drain" => state' = IF RefillDone THEN "idle" ELSE "drain"
         /\ state = "c2c" => state' = IF FillDone THEN "idle" ELSE "c2c"
         /\ state = "ncread" => state' = IF RefillDone THEN "idle" ELSE "ncread"
         /\ state = "ncwrite" => state' = IF evictDone THEN "idle" ELSE "ncwrite"
<1>1. state = "idle" /\ Accept => ~IdleHit
  BY NoIdleHit
<1>2. CASE state = "idle"
  BY <1>1, <1>2 DEF NextState
<1>3. CASE state = "lookup"
  BY <1>3 DEF NextState, Miss
<1>4. CASE state = "peer"
  BY <1>4 DEF NextState
<1>5. CASE state \in {"evict", "wait"}
  BY <1>5 DEF NextState
<1>6. CASE state = "refill"
  BY <1>6 DEF NextState
<1>7. CASE state \in {"drain", "c2c", "ncread", "ncwrite"}
  BY <1>7 DEF NextState
<1> QED BY <1>2, <1>3, <1>4, <1>5, <1>6, <1>7

\* What the controller puts out for the next cycle, and what it remembers.
LEMMA PulsesFollow ==
  ASSUME HartInv, Controller
  PROVE  /\ pulse'.tagUpdate =>
              /\ ~fbusy /\ state \in {"refill", "drain", "c2c"}
              /\ IF state = "c2c" THEN FillDone ELSE RefillDone
         /\ pulse'.dirtySet => /\ ~fbusy
                               /\ \/ state = "lookup" /\ stable /\ look.hit
                                  \/ state = "refill" /\ RefillDone
         /\ pulse'.dirtyClear <=> ~fbusy /\ state = "evict" /\ evictDone
         /\ pulse'.evict # NoEvict =>
              /\ ~fbusy
              /\ \/ state = "idle" /\ Accept /\ IsNc(req) /\ IsStore(req)
                 \/ state = "lookup" /\ Miss /\ cur.we /\ look.dirty
                 \/ state = "peer" /\ OwnAnswer /\ localDirty
         /\ pulse'.deferred => ~fbusy /\ state = "refill" /\ RefillDone /\ cur.we
         /\ state # "idle" => cur' = cur
         /\ cur'.line \in Lines
         /\ ~fbusy /\ state = "lookup" /\ Miss => localDirty' = look.dirty
         /\ state = "peer" => localDirty' = localDirty
<1> USE DEF Emit
<1>0. cur.line \in Lines /\ req.line \in Lines /\ NoLine \in Lines
  BY LinesAreLines DEF HartInv
<1>1. CASE fbusy
  BY <1>0, <1>1 DEF Controller, Datapath, Frozen, Hold, miss, NoPulse
<1>2. CASE Idle /\ ~fbusy
  <2>1. Accept => ~IdleHit
    BY <1>2, NoIdleHit DEF Idle
  <2>2. state = "idle" /\ cur'.line \in Lines
    BY <1>0, <1>2 DEF Idle, NoCur
  <2>3. \/ pulse' = [NoPulse EXCEPT !.write = CurWrite]
        \/ pulse' = NoPulse
        \/ pulse' = [NoPulse EXCEPT !.refill = "nc"]
        \/ Accept /\ IsNc(req) /\ IsStore(req) /\ pulse' = [NoPulse EXCEPT !.evict.nc = TRUE]
    BY <1>2, <2>1 DEF Idle
  <2> QED BY <1>2, <2>2, <2>3 DEF NoPulse
<1>3. CASE Lookup /\ ~fbusy
  BY <1>0, <1>3 DEF Lookup, Hold, miss, NoPulse, Miss
<1>4. CASE LookupHit /\ ~fbusy
  BY <1>0, <1>4 DEF LookupHit, Hold, miss, NoPulse, Miss
<1>5. CASE LookupMiss /\ ~fbusy
  BY <1>0, <1>5 DEF LookupMiss, Hold, miss, NoPulse, Miss
<1>6. CASE PeerSnoop /\ ~fbusy
  BY <1>0, <1>6 DEF PeerSnoop, Hold, miss, NoPulse
<1>7. CASE PeerAsk /\ ~fbusy
  BY <1>0, <1>7 DEF PeerAsk, Hold, miss, NoPulse
<1>8. CASE Evict /\ ~fbusy
  BY <1>0, <1>8 DEF Evict, Hold, miss, NoPulse
<1>9. CASE Wait /\ ~fbusy
  BY <1>0, <1>9 DEF Wait, Hold, miss, NoPulse
<1>10. CASE Refill /\ ~fbusy
  BY <1>0, <1>10 DEF Refill, Hold, miss, NoPulse
<1>11. CASE Drain /\ ~fbusy
  BY <1>0, <1>11 DEF Drain, Hold, miss, NoPulse
<1>12. CASE C2CFill /\ ~fbusy
  BY <1>0, <1>12 DEF C2CFill, Hold, miss, NoPulse
<1>13. CASE NonCacheable /\ ~fbusy
  BY <1>0, <1>13 DEF NonCacheable, Hold, miss, NoPulse
<1> QED BY <1>1, <1>2, <1>3, <1>4, <1>5, <1>6, <1>7, <1>8, <1>9, <1>10, <1>11, <1>12, <1>13 DEF Controller, Datapath, Frozen

-----------------------------------------------------------------------------
(***************************************************************************)
(* The hart.                                                               *)
(***************************************************************************)
LEMMA AnswerEnds ==
  ASSUME HartInv, state' = NextState, ~CpuReq \/ Ready
  PROVE  state' \in {"idle", "drain"}
<1>1. CASE ~CpuReq
  BY <1>1, StatesFollow DEF HartInv, Accept, CpuReqNoSnoop
<1>2. CASE Ready
  <2>1. state # "idle"
    BY <1>2, NoIdleHit
  <2>2. CASE state = "lookup"
    BY <1>2, <2>2, StatesFollow DEF Ready
  <2>3. CASE state = "refill"
    BY <1>2, <2>3, StatesFollow DEF Ready
  <2>4. CASE state \in {"ncread", "ncwrite", "c2c"}
    BY <1>2, <2>4, StatesFollow DEF Ready
  <2> QED BY <1>2, <2>1, <2>2, <2>3, <2>4 DEF Ready
<1> QED BY <1>1, <1>2

LEMMA HartStep ==
  ASSUME "drain" \notin Windows, "snoop" \notin Windows,
         HartInv, FenceInv, Fabric, Controller, Snoop, Hart, Apart
  PROVE  HartInv'
<1>1. req'.line \in Lines /\ cur'.line \in Lines /\ fab'.line \in Lines /\ sreq'.line \in Lines
  <2>1. req'.line \in Lines
    <3>1. CASE req' \in Requests
      <4>1. (\A a \in Loads : a[1] \in Used) /\ (\A a \in Stores : a[1] \in Used)
        BY CacheConstants
      <4> QED BY <3>1, <4>1, LinesAreLines DEF Requests, NoReq, Lines
    <3>2. CASE req' \in {req, NoReq}
      BY <3>2, LinesAreLines DEF HartInv, NoReq
    <3> QED BY <3>1, <3>2 DEF Hart, HartWait, HartEnd, HartFence, HartIdle, HartRequest, hart
  <2>2. cur'.line \in Lines
    BY PulsesFollow
  <2>3. fab'.line \in Lines
    <3>1. CASE FabOwn \/ FabAgent
      BY <3>1, LinesAreLines DEF FabOwn, FabAgent, Ask, HartInv
    <3>2. CASE FabReq
      <4>1. \E s : fab' = [fab EXCEPT !.state = s]
        BY <3>2 DEF FabReq
      <4>2. fab'.line = fab.line \/ fab' = fab
        BY <4>1
      <4> QED BY <4>2 DEF HartInv
    <3>3. CASE FabAnswer
      <4>1. \E d : fab' = [fab EXCEPT !.state = "answer", !.data = d]
        BY <3>3 DEF FabAnswer
      <4> QED BY <4>1 DEF HartInv
    <3>4. CASE FabIdle \/ FabWait \/ FabEnd
      BY <3>4, LinesAreLines DEF FabIdle, FabWait, FabEnd, NoFab, HartInv
    <3> QED BY <3>1, <3>2, <3>3, <3>4 DEF Fabric
  <2>4. sreq'.line \in Lines
    BY LinesAreLines DEF HartInv, Snoop, SnoopIdle, SnoopLookup, SnoopCapture, SnoopEvict, NoSnoop
  <2> QED BY <2>1, <2>2, <2>3, <2>4
<1>2. ~CpuReq \/ Ready => state' \in {"idle", "drain"}
  BY AnswerEnds DEF Controller
<1>3. ncJust' \/ pulse'.deferred => CpuReq /\ Ready
  <2>1. CASE ncJust'
    <3>1. \/ state = "ncwrite" /\ evictDone
          \/ state = "ncread" /\ RefillDone
      BY <2>1 DEF Controller
    <3>2. ~fbusy /\ CpuReq
      BY <3>1 DEF HartInv, FenceInv
    <3> QED BY <3>1, <3>2 DEF Ready
  <2>2. CASE pulse'.deferred
    <3>1. ~fbusy /\ state = "refill" /\ RefillDone /\ cur.we
      BY <2>2, PulsesFollow
    <3> QED BY <3>1 DEF Ready, HartInv
  <2> QED BY <2>1, <2>2
<1>4. CpuReq' => (fence' = {} /\ ~ncJust' /\ ~pulse'.deferred)
  <2>1. CASE HartWait
    BY <1>3, <2>1 DEF HartWait, hart, HartInv, CpuReq
  <2>2. CASE HartEnd \/ HartFence \/ HartIdle
    BY <2>2 DEF HartEnd, HartFence, HartIdle, CpuReq
  <2>3. CASE HartRequest
    BY <1>3, <2>3 DEF HartRequest
  <2> QED BY <2>1, <2>2, <2>3 DEF Hart
<1>5. state' \notin {"idle", "drain"} => CpuReq'
  <2>1. CpuReq /\ ~Ready => req' = req
    BY DEF Hart, HartWait, HartEnd, HartFence, HartIdle, HartRequest, hart
  <2> QED BY <1>2, <2>1 DEF CpuReq
<1>6. fence' # {} => state' = "idle" /\ sstate' = "idle"
  <2> SUFFICES ASSUME fence' # {} PROVE state' = "idle" /\ sstate' = "idle"
    OBVIOUS
  <2>1. ~CpuReq \/ Ready
    BY DEF Hart, HartWait, HartEnd, HartFence, HartIdle, HartRequest, hart, HartInv
  <2> QED BY <1>2, <2>1 DEF Apart
<1>7. prev' # NoCheck => state' # "idle" \/ sstate' # "idle"
  <2> SUFFICES ASSUME prev' # NoCheck PROVE state' # "idle" \/ sstate' # "idle"
    OBVIOUS
  <2>1. IdleHitCheck
    BY DEF Controller
  <2>2. /\ state = "idle" /\ CpuReq /\ fence = {} /\ ~fbusy /\ sstate = "idle" /\ ~spulse.inval
        /\ ~ncJust /\ ~pulse.deferred
    BY <2>1 DEF IdleHitCheck, SnoopBusy, HartInv
  <2>3. CASE SnoopReq
    BY <2>2, <2>3 DEF Snoop, SnoopIdle, SnoopLookup, SnoopCapture, SnoopEvict, SnoopReady, SnoopSafe
  <2>4. CASE ~SnoopReq
    <3>1. Accept
      BY <2>2, <2>4 DEF Accept, CpuReqNoSnoop, SnoopBusy
    <3> QED BY <2>2, <3>1, StatesFollow DEF Controller
  <2> QED BY <2>3, <2>4
<1> QED BY <1>1, <1>4, <1>5, <1>6, <1>7 DEF HartInv, SnoopBusy

-----------------------------------------------------------------------------
(***************************************************************************)
(* The fence unit.  While it is busy, or has something to say, nothing     *)
(* else in the cache moves.                                                *)
(***************************************************************************)
LEMMA FenceStep ==
  ASSUME HartInv, FenceInv, Controller, Flush, Snoop
  PROVE  FenceInv'
<1>1. fbusy' <=> fstate' # "idle"
  <2>1. CASE FlushIdle
    BY <2>1 DEF FlushIdle, FenceInv
  <2>2. CASE FlushScan \/ FlushSettle \/ FlushTagWait \/ FlushEvict
    BY <2>2 DEF FlushScan, FlushSettle, FlushTagWait, FlushEvict, FenceInv
  <2>3. CASE FlushDone
    BY <2>3 DEF FlushDone
  <2> QED BY <2>1, <2>2, <2>3 DEF Flush
<1>2. fbusy' \/ fpulse' # NoFPulse =>
        state' = "idle" /\ Quiet(pulse') /\ sstate' = "idle" /\ spulse' = NoSPulse
  <2> SUFFICES ASSUME fbusy' \/ fpulse' # NoFPulse
               PROVE  state' = "idle" /\ Quiet(pulse') /\ sstate' = "idle" /\ spulse' = NoSPulse
    OBVIOUS
  <2>1. fbusy \/ fence # {}
    <3>1. CASE FlushIdle
      BY <3>1 DEF FlushIdle, FenceInv
    <3>2. CASE FlushScan \/ FlushSettle \/ FlushTagWait \/ FlushEvict \/ FlushDone
      BY <3>2 DEF FlushScan, FlushSettle, FlushTagWait, FlushEvict, FlushDone, FenceInv
    <3> QED BY <3>1, <3>2 DEF Flush
  <2>2. state = "idle" /\ sstate = "idle" /\ ~Accept /\ ~SnoopReady
    BY <2>1 DEF HartInv, FenceInv, Accept, SnoopReady, SnoopSafe
  <2>3. state' = "idle"
    BY <2>2, StatesFollow DEF Controller
  <2>4. Quiet(pulse')
    BY <2>2, PulsesFollow DEF Quiet
  <2>5. sstate' = "idle" /\ spulse' = NoSPulse
    BY <2>2 DEF Snoop, SnoopIdle, SnoopLookup, SnoopCapture, SnoopEvict
  <2> QED BY <2>3, <2>4, <2>5
<1>3. fstate' = "tagwait" => fdata' # NoData
  <2>1. fstate' = "tagwait" => fdata' = Block(ReadAll)
    BY DEF Flush, FlushIdle, FlushScan, FlushSettle, FlushTagWait, FlushEvict, FlushDone
  <2>2. Block(ReadAll) # NoData
    <3>1. DOMAIN Block(ReadAll) = Offsets /\ 0 \in Offsets
      BY CacheConstants DEF Block, Offsets
    <3>2. DOMAIN NoData = {}
      BY DEF NoData
    <3> QED BY <3>1, <3>2
  <2> QED BY <2>1, <2>2
<1> QED BY <1>1, <1>2, <1>3 DEF FenceInv

-----------------------------------------------------------------------------
(***************************************************************************)
(* The states of the lines, and the snoop unit.                            *)
(***************************************************************************)

\* With no pulse, no line changes its state.
LEMMA StatesStand ==
  ASSUME Arrays, fpulse = NoFPulse, Quiet(pulse), ~spulse.shared, ~spulse.inval,
         NEW i \in Indexes
  PROVE  states'[i] = states[i]
<1>1. states'[i] = TagState(i)
  BY DEF Arrays
<1>2. ~fpulse.clear /\ ~fpulse.flushAll /\ ~fpulse.invAll
  BY DEF NoFPulse
<1> QED BY <1>1, <1>2 DEF TagState, DirtyClear, DirtySet, Updated, Quiet

\* A line becomes dirty by the pulse that says so.
LEMMA NotDirtied ==
  ASSUME Arrays, ~pulse.dirtySet, NEW i \in Indexes, states[i] # "M"
  PROVE  states'[i] # "M"
<1>1. states'[i] = TagState(i)
  BY DEF Arrays
<1> QED BY <1>1 DEF TagState, DirtySet

\* While a snoop is answered the controller waits and puts nothing out.
LEMMA SnoopHolds ==
  ASSUME HartInv, FenceInv, SnoopInv, Fabric, Controller,
         (SnoopReq /\ SnoopReady) \/ SnoopBusy
  PROVE  /\ fab'.state = "wait" /\ state' \in {"idle", "peer"}
         /\ Quiet(pulse') /\ pulse'.evict = NoEvict
<1>1. state \in {"idle", "peer"} /\ ~Accept /\ ~OwnAnswer /\ ~fbusy
  BY DEF SnoopInv, FenceInv, SnoopReq, SnoopReady, SnoopSafe, SnoopBusy, Accept, CpuReqNoSnoop,
         OwnAnswer
<1>2. fab'.state = "wait"
  <2>1. CASE SnoopReq /\ SnoopReady
    <3>1. FabReq
      BY <2>1 DEF Fabric, FabIdle, FabOwn, FabAgent, FabWait, FabAnswer, FabEnd, SnoopReq
    <3>2. fab' = [fab EXCEPT !.state = "wait"] /\ fab.state = "req"
      BY <2>1, <3>1 DEF FabReq
    <3> QED BY <2>1, <3>2
  <2>2. CASE SnoopBusy
    <3>1. fab.state = "wait" /\ ~spulse.resp
      BY <2>2 DEF SnoopInv, SnoopBusy
    <3> QED BY <3>1 DEF Fabric, FabIdle, FabOwn, FabAgent, FabReq, FabWait, FabAnswer, FabEnd
  <2> QED BY <2>1, <2>2
<1>3. state' \in {"idle", "peer"}
  BY <1>1, StatesFollow DEF Controller
<1>4. Quiet(pulse') /\ pulse'.evict = NoEvict
  BY <1>1, PulsesFollow DEF Quiet
<1> QED BY <1>2, <1>3, <1>4

LEMMA SnoopStep ==
  ASSUME HartInv, FenceInv, SnoopInv, Fabric, Controller, Arrays, Snoop
  PROVE  SnoopInv'
<1>1. sstate' # "idle" \/ spulse' # NoSPulse =>
        /\ fab'.state = "wait" /\ state' \in {"idle", "peer"}
        /\ Quiet(pulse') /\ pulse'.evict = NoEvict
  <2>1. sstate' # "idle" \/ spulse' # NoSPulse => (SnoopReq /\ SnoopReady) \/ SnoopBusy
    BY DEF Snoop, SnoopIdle, SnoopLookup, SnoopCapture, SnoopEvict, SnoopBusy
  <2> QED BY <2>1, SnoopHolds
<1>2. sstate' # "idle" => ~spulse'.resp /\ ~spulse'.shared /\ ~spulse'.inval
  <2>1. CASE SnoopIdle \/ SnoopLookup
    BY <2>1 DEF SnoopIdle, SnoopLookup, NoSPulse
  <2>2. CASE SnoopCapture
    BY <2>2 DEF SnoopCapture, NoSPulse
  <2>3. CASE SnoopEvict
    BY <2>3 DEF SnoopEvict, NoSPulse
  <2> QED BY <2>1, <2>2, <2>3 DEF Snoop
<1>3. ASSUME SnoopBusy
      PROVE  states'[Index(sreq.line)] = states[Index(sreq.line)] /\ ~fbusy
  <2>1. /\ fpulse = NoFPulse /\ ~fbusy /\ Quiet(pulse)
        /\ ~spulse.shared /\ ~spulse.inval
    BY <1>3 DEF SnoopBusy, SnoopInv, FenceInv
  <2>2. Index(sreq.line) \in Indexes
    BY LinesAreLines DEF HartInv
  <2> QED BY <2>1, <2>2, StatesStand
<1>4. sstate' = "capture" => look'.state = states'[Index(sreq'.line)]
  <2> SUFFICES ASSUME sstate' = "capture" PROVE look'.state = states'[Index(sreq'.line)]
    OBVIOUS
  <2>1. SnoopLookup
    BY DEF Snoop, SnoopIdle, SnoopCapture, SnoopEvict
  <2>2. sstate = "lookup" /\ sreq' = sreq /\ SnoopBusy /\ LookupActive
    BY <2>1 DEF SnoopLookup, SnoopBusy, LookupActive
  <2>3. LookAt = sreq.line
    BY <1>3, <2>2 DEF LookAt
  <2>4. look'.state = states[LookAt[2]]
    BY DEF Arrays
  <2> QED BY <1>3, <2>2, <2>3, <2>4 DEF Index
<1>5. spulse'.shared => states'[Index(sreq'.line)] = "E"
  <2> SUFFICES ASSUME spulse'.shared PROVE states'[Index(sreq'.line)] = "E"
    OBVIOUS
  <2>1. SnoopCapture /\ look.state = "E"
    <3>1. ~SnoopIdle /\ ~SnoopLookup
      BY DEF SnoopIdle, SnoopLookup, NoSPulse
    <3>2. ASSUME SnoopEvict PROVE FALSE
      <4>1. \/ spulse' = NoSPulse
            \/ spulse' = [NoSPulse EXCEPT !.resp = TRUE, !.hit = TRUE, !.inval = TRUE]
        BY <3>2 DEF SnoopEvict
      <4>2. CASE spulse' = NoSPulse
        BY <4>2 DEF NoSPulse
      <4>3. CASE spulse' = [NoSPulse EXCEPT !.resp = TRUE, !.hit = TRUE, !.inval = TRUE]
        BY <4>3 DEF NoSPulse
      <4> QED BY <4>1, <4>2, <4>3
    <3>3. SnoopCapture
      BY <3>1, <3>2 DEF Snoop
    <3> QED BY <3>3 DEF SnoopCapture, NoSPulse
  <2>2. sreq' = sreq /\ SnoopBusy /\ sstate = "capture"
    BY <2>1 DEF SnoopCapture, SnoopBusy
  <2> QED BY <1>3, <2>1, <2>2 DEF SnoopInv
<1> QED BY <1>1, <1>2, <1>3, <1>4, <1>5 DEF SnoopInv

-----------------------------------------------------------------------------
(***************************************************************************)
(* A miss: the line it displaces is clean, or cleaned, before it is        *)
(* replaced.                                                               *)
(***************************************************************************)
LEMMA StatesAreNamed ==
  ASSUME FenceInv, Controller
  PROVE  /\ state \in {"idle", "lookup", "peer", "evict", "wait", "refill", "drain", "c2c",
                       "ncread", "ncwrite"}
         /\ state # "idle" => ~fbusy
<1>1. CASE fbusy
  BY <1>1 DEF FenceInv
<1>2. CASE ~fbusy
  BY <1>2 DEF Controller, Datapath, Frozen, Idle, Lookup, LookupHit, LookupMiss, PeerSnoop,
              PeerAsk, Evict, Wait, Refill, Drain, C2CFill, NonCacheable
<1> QED BY <1>1, <1>2

\* The controller is past the point where the line it displaces may be dirty.
Displaced ==
  \/ state = "lookup" /\ stable /\ ~look.dirty
  \/ state = "peer" /\ ~localDirty
  \/ state \in {"wait", "refill", "drain", "c2c"}

LEMMA DisplacedIsClean ==
  ASSUME HartInv, FenceInv, MissInv, Arrays, Displaced
  PROVE  states'[Index(cur.line)] # "M"
<1>1. Index(cur.line) \in Indexes
  BY LinesAreLines DEF HartInv
<1>2. ~pulse.dirtySet
  BY DEF Displaced, MissInv, Quiet
<1>3. CASE states[Index(cur.line)] # "M"
  BY <1>1, <1>2, <1>3, NotDirtied
<1>4. CASE states[Index(cur.line)] = "M"
  <2>1. state = "wait"
    BY <1>4 DEF Displaced, MissInv
  <2>2. pulse.dirtyClear /\ fpulse = NoFPulse
    BY <2>1 DEF MissInv, FenceInv
  <2>3. DirtyClear(Index(cur.line)) /\ ~fpulse.invAll /\ ~fpulse.flushAll
    BY <2>2 DEF DirtyClear, DirtyIndex, NoFPulse
  <2>4. states'[Index(cur.line)] = TagState(Index(cur.line))
    BY <1>1 DEF Arrays
  <2> QED BY <1>4, <2>3, <2>4 DEF TagState
<1> QED BY <1>3, <1>4

LEMMA MissStep ==
  ASSUME HartInv, FenceInv, SnoopInv, MissInv, Controller, Arrays
  PROVE  MissInv'
<1>1. state' = NextState /\ stable' = (state = "lookup")
  BY DEF Controller
<1>2. state' \notin {"idle", "wait"} => Quiet(pulse')
  <2>1. pulse'.tagUpdate => state' = "idle"
    BY <1>1, PulsesFollow, StatesFollow
  <2>2. pulse'.dirtySet => state' = "idle"
    BY <1>1, PulsesFollow, StatesFollow
  <2>3. pulse'.dirtyClear => state' = "wait"
    BY <1>1, PulsesFollow, StatesFollow
  <2> QED BY <2>1, <2>2, <2>3 DEF Quiet
<1>3. state' = "wait" => state = "evict" /\ evictDone
  <2>1. CASE state = "idle"
    BY <1>1, <2>1, StatesFollow
  <2>2. CASE state = "lookup"
    BY <1>1, <2>2, StatesFollow
  <2>3. CASE state = "peer"
    BY <1>1, <2>3, StatesFollow
  <2>4. CASE state \in {"evict", "wait"}
    BY <1>1, <2>4, StatesFollow
  <2>5. CASE state \in {"refill", "drain", "c2c"}
    BY <1>1, <2>5, StatesFollow
  <2>6. CASE state \in {"ncread", "ncwrite"}
    BY <1>1, <2>6, StatesFollow
  <2> QED BY <2>1, <2>2, <2>3, <2>4, <2>5, <2>6, StatesAreNamed
<1>4. pulse'.dirtyClear <=> state' = "wait"
  BY <1>1, <1>3, PulsesFollow, StatesFollow, StatesAreNamed
<1>5. state' = "wait" => ~pulse'.tagUpdate /\ ~pulse'.dirtySet
  BY <1>3, PulsesFollow
<1>6. state' = "lookup" /\ stable' => (look'.dirty <=> states'[Index(cur'.line)] = "M")
  <2> SUFFICES ASSUME state = "lookup"
               PROVE  look'.dirty <=> states'[Index(cur'.line)] = "M"
    BY <1>1
  <2>1. /\ ~fbusy /\ cur' = cur /\ Index(cur.line) \in Indexes
    BY PulsesFollow, StatesAreNamed, LinesAreLines DEF HartInv
  <2>2. /\ fpulse = NoFPulse /\ Quiet(pulse) /\ sstate = "idle"
        /\ ~spulse.shared /\ ~spulse.inval
    BY DEF FenceInv, MissInv, SnoopInv, NoSPulse
  <2>3. states'[Index(cur.line)] = states[Index(cur.line)]
    BY <2>1, <2>2, StatesStand
  <2>4. LookAt = cur.line
    BY <2>1, <2>2 DEF LookAt, LookupActive, LookupLine, IdleHitCheck
  <2>5. look'.dirty = (states[LookAt[2]] = "M")
    BY DEF Arrays
  <2> QED BY <2>1, <2>3, <2>4, <2>5 DEF Index
<1>7. ASSUME \/ state' = "peer" /\ ~localDirty'
             \/ state' \in {"refill", "drain", "c2c"}
             \/ pulse'.tagUpdate /\ ~pulse'.dirtySet
      PROVE  states'[Index(cur'.line)] # "M"
  <2>1. Displaced
    <3>1. CASE pulse'.tagUpdate
      BY <3>1, PulsesFollow DEF Displaced
    <3>2. CASE state = "idle"
      BY <1>1, <1>7, <3>2, PulsesFollow, StatesFollow
    <3>3. CASE state = "lookup" /\ ~pulse'.tagUpdate
      <4>1. stable /\ ~look.hit /\ ~fbusy
        BY <1>1, <1>7, <3>3, StatesFollow, StatesAreNamed
      <4>2. localDirty' = look.dirty
        BY <3>3, <4>1, PulsesFollow DEF Miss
      <4>3. ~look.dirty
        BY <1>1, <1>7, <3>3, <4>1, <4>2, StatesFollow
      <4> QED BY <3>3, <4>1, <4>3 DEF Displaced
    <3>4. CASE state = "peer" /\ ~pulse'.tagUpdate
      <4>1. localDirty' = localDirty
        BY <3>4, PulsesFollow
      <4>2. ~localDirty
        BY <1>1, <1>7, <3>4, <4>1, StatesFollow
      <4> QED BY <3>4, <4>2 DEF Displaced
    <3>5. CASE state = "evict" /\ ~pulse'.tagUpdate
      BY <1>1, <1>7, <3>5, StatesFollow
    <3>6. CASE state \in {"ncread", "ncwrite"} /\ ~pulse'.tagUpdate
      BY <1>1, <1>7, <3>6, StatesFollow
    <3>7. CASE state \in {"wait", "refill", "drain", "c2c"}
      BY <3>7 DEF Displaced
    <3> QED BY <3>1, <3>2, <3>3, <3>4, <3>5, <3>6, <3>7, StatesAreNamed
  <2>2. cur' = cur
    BY <2>1, PulsesFollow DEF Displaced
  <2> QED BY <2>1, <2>2, DisplacedIsClean
<1> QED BY <1>2, <1>4, <1>5, <1>6, <1>7 DEF MissInv

-----------------------------------------------------------------------------
(***************************************************************************)
(* The bitmap of the fence unit follows the tag array.                     *)
(***************************************************************************)
LEMMA BitmapStep ==
  ASSUME HartInv, FenceInv, SnoopInv, MissInv, BitmapInv, Arrays, Flush
  PROVE  BitmapInv'
<1> DEFINE c == Index(cur.line)
           s == Index(sreq.line)
<1>1. c \in Indexes /\ s \in Indexes
  BY LinesAreLines DEF HartInv
<1>2. bitmap' = Tracked /\ \A i \in Indexes : states'[i] = TagState(i)
  BY DEF Flush, Arrays
<1>3. \A i \in Indexes : i \in bitmap <=> states[i] = "M"
  BY DEF BitmapInv
<1>4. bitmap \subseteq Indexes
  BY DEF BitmapInv
<1> HIDE DEF c, s
<1>5. ASSUME NEW i \in Indexes PROVE i \in Tracked <=> TagState(i) = "M"
  <2>1. CASE fpulse.invAll \/ fpulse.flushAll
    BY <2>1 DEF Tracked, TagState
  <2>2. CASE ~fpulse.invAll /\ ~fpulse.flushAll /\ fpulse.clear
    <3>1. Quiet(pulse) /\ ~spulse.shared /\ ~spulse.inval
      BY <2>2 DEF FenceInv, NoFPulse, NoSPulse
    <3>2. Tracked = bitmap \ {findex}
      BY <2>2, <3>1 DEF Tracked, Quiet, DirtyIndex
    <3>3. TagState(i) = IF i = findex /\ states[i] # "I" THEN "E" ELSE states[i]
      BY <2>2, <3>1 DEF TagState, Quiet, DirtyIndex, DirtyClear, DirtySet, Updated
    <3> QED BY <1>3, <3>2, <3>3
  <2>3. CASE ~fpulse.invAll /\ ~fpulse.flushAll /\ ~fpulse.clear
    <3>1. DirtyIndex = c
      BY <2>3 DEF DirtyIndex, c
    <3>2. ~Quiet(pulse) => ~spulse.shared /\ ~spulse.inval
      BY DEF SnoopInv, NoSPulse
    <3>3. CASE pulse.dirtySet
      <4>1. ~pulse.dirtyClear /\ ~spulse.shared /\ ~spulse.inval
        BY <3>2, <3>3 DEF MissInv, Quiet
      <4>2. Tracked = bitmap \cup {c}
        BY <2>3, <3>1, <3>3, <4>1 DEF Tracked
      <4>3. TagState(i) = IF i = c THEN "M" ELSE states[i]
        BY <2>3, <3>1, <3>3, <4>1 DEF TagState, DirtyClear, DirtySet, Updated, c
      <4> QED BY <1>3, <4>2, <4>3
    <3>4. CASE pulse.dirtyClear
      <4>1. /\ ~pulse.dirtySet /\ ~pulse.tagUpdate /\ ~spulse.shared /\ ~spulse.inval
        BY <3>2, <3>4 DEF MissInv, Quiet
      <4>2. Tracked = bitmap \ {c}
        BY <2>3, <3>1, <3>4, <4>1 DEF Tracked
      <4>3. TagState(i) = IF i = c /\ states[i] # "I" THEN "E" ELSE states[i]
        BY <2>3, <3>1, <3>4, <4>1 DEF TagState, DirtyClear, DirtySet, Updated
      <4> QED BY <1>3, <4>2, <4>3
    <3>5. CASE pulse.tagUpdate /\ ~pulse.dirtySet /\ ~pulse.dirtyClear
      <4>1. states[c] # "M" /\ ~spulse.shared /\ ~spulse.inval
        BY <3>2, <3>5 DEF MissInv, Quiet, c
      <4>2. Tracked = bitmap
        BY <2>3, <3>5, <4>1 DEF Tracked
      <4>3. TagState(i) = IF i = c THEN "E" ELSE states[i]
        BY <2>3, <3>5, <4>1 DEF TagState, DirtyClear, DirtySet, Updated, c
      <4> QED BY <1>3, <4>1, <4>2, <4>3
    <3>6. CASE Quiet(pulse)
      <4>1. Tracked = IF spulse.inval THEN bitmap \ {s} ELSE bitmap
        BY <2>3, <3>6 DEF Tracked, Quiet, s
      <4>2. TagState(i) = IF spulse.shared /\ i = s /\ states[i] # "I" THEN "S"
                          ELSE IF spulse.inval /\ i = s THEN "I" ELSE states[i]
        BY <2>3, <3>6 DEF TagState, Quiet, DirtyClear, DirtySet, Updated, s
      <4>3. spulse.shared => states[s] = "E"
        BY DEF SnoopInv, s
      <4> QED BY <1>3, <4>1, <4>2, <4>3
    <3> QED BY <3>3, <3>4, <3>5, <3>6 DEF Quiet
  <2> QED BY <2>1, <2>2, <2>3
<1>6. Tracked \subseteq Indexes
  <2>1. pulse.dirtySet => DirtyIndex = c
    BY DEF FenceInv, Quiet, NoFPulse, DirtyIndex, c
  <2> QED BY <1>1, <1>4, <2>1 DEF Tracked
<1> QED BY <1>2, <1>5, <1>6 DEF BitmapInv

-----------------------------------------------------------------------------
(***************************************************************************)
(* The write-back engine: it works for one unit, which waits for it.       *)
(***************************************************************************)
LEMMA StartersAre ==
  /\ "fence" \in Starters <=> fpulse.evict # NoEvict
  /\ "snoop" \in Starters <=> spulse.evict # NoEvict
  /\ "controller" \in Starters <=> pulse.evict # NoEvict
  /\ Starters \subseteq {"fence", "snoop", "controller"}
BY DEF Starters

Owned == fstate = "evict" \/ sstate = "evict" \/ state \in {"evict", "ncwrite"}

LEMMA OwnerStays ==
  ASSUME HartInv, FenceInv, SnoopInv, Fabric, Controller, Flush, Snoop, Owned, ~evictDone
  PROVE  Owned' /\ Starters' = {}
<1> SUFFICES Owned' /\ fpulse'.evict = NoEvict /\ spulse'.evict = NoEvict /\ pulse'.evict = NoEvict
  BY DEF Starters
<1>1. CASE fstate = "evict"
  <2>1. state = "idle" /\ sstate = "idle" /\ fbusy /\ ~SnoopReady
    BY <1>1 DEF FenceInv, SnoopReady, SnoopSafe
  <2>2. fstate' = "evict" /\ fpulse'.evict = NoEvict
    <3>1. FlushEvict
      BY <1>1 DEF Flush, FlushIdle, FlushScan, FlushSettle, FlushTagWait, FlushDone
    <3> QED BY <3>1 DEF FlushEvict, NoFPulse
  <2>3. spulse'.evict = NoEvict
    BY <2>1 DEF Snoop, SnoopIdle, SnoopLookup, SnoopCapture, SnoopEvict, NoSPulse
  <2>4. pulse'.evict = NoEvict
    BY <2>1, PulsesFollow
  <2> QED BY <2>2, <2>3, <2>4 DEF Owned
<1>2. CASE fstate # "evict" /\ (sstate = "evict" \/ state \in {"evict", "ncwrite"})
  <2>1. ~fbusy /\ fstate = "idle"
    BY <1>2 DEF FenceInv
  <2>2. fpulse'.evict = NoEvict
    BY <2>1 DEF Flush, FlushIdle, FlushScan, FlushSettle, FlushTagWait, FlushEvict, FlushDone,
                NoFPulse
  <2>3. CASE sstate = "evict"
    <3>1. SnoopEvict
      BY <2>3 DEF Snoop, SnoopIdle, SnoopLookup, SnoopCapture
    <3>2. sstate' = "evict" /\ spulse'.evict = NoEvict
      BY <3>1 DEF SnoopEvict, NoSPulse
    <3>3. pulse'.evict = NoEvict
      BY <2>3, SnoopHolds DEF SnoopBusy
    <3> QED BY <2>2, <3>2, <3>3 DEF Owned
  <2>4. CASE state \in {"evict", "ncwrite"}
    <3>1. sstate = "idle"
      BY <2>4 DEF SnoopInv
    <3>2. spulse'.evict = NoEvict
      BY <3>1 DEF Snoop, SnoopIdle, SnoopLookup, SnoopCapture, SnoopEvict, NoSPulse
    <3>3. pulse'.evict = NoEvict
      BY <2>4, PulsesFollow
    <3>4. state' = state
      BY <2>4, StatesFollow DEF Controller
    <3> QED BY <2>2, <2>4, <3>2, <3>3, <3>4 DEF Owned
  <2> QED BY <1>2, <2>3, <2>4
<1> QED BY <1>1, <1>2 DEF Owned

LEMMA EvictStep ==
  ASSUME HartInv, FenceInv, SnoopInv, EvictInv, Fabric, Controller, Flush, Snoop, Write
  PROVE  EvictInv'
<1>1. fpulse'.evict # NoEvict => fstate' = "evict"
  <2>1. ~FlushTagWait => fpulse'.evict = NoEvict
    <3>1. CASE FlushIdle \/ FlushScan \/ FlushSettle
      BY <3>1 DEF FlushIdle, FlushScan, FlushSettle, NoFPulse
    <3>2. CASE FlushEvict
      BY <3>2 DEF FlushEvict, NoFPulse
    <3>3. CASE FlushDone
      BY <3>3 DEF FlushDone, NoFPulse
    <3> QED BY <3>1, <3>2, <3>3 DEF Flush
  <2> QED BY <2>1 DEF FlushTagWait
<1>2. spulse'.evict # NoEvict => sstate' = "evict"
  <2>1. CASE SnoopIdle \/ SnoopLookup
    BY <2>1 DEF SnoopIdle, SnoopLookup, NoSPulse
  <2>2. CASE SnoopCapture
    BY <2>2 DEF SnoopCapture, NoSPulse
  <2>3. CASE SnoopEvict
    <3>1. \/ spulse' = NoSPulse
          \/ spulse' = [NoSPulse EXCEPT !.resp = TRUE, !.hit = TRUE, !.inval = TRUE]
      BY <2>3 DEF SnoopEvict
    <3>2. CASE spulse' = NoSPulse
      BY <3>2 DEF NoSPulse
    <3>3. CASE spulse' = [NoSPulse EXCEPT !.resp = TRUE, !.hit = TRUE, !.inval = TRUE]
      BY <3>3 DEF NoSPulse
    <3> QED BY <3>1, <3>2, <3>3
  <2> QED BY <2>1, <2>2, <2>3 DEF Snoop
<1>3. pulse'.evict # NoEvict => state' \in {"evict", "ncwrite"}
  <2> SUFFICES ASSUME pulse'.evict # NoEvict PROVE state' \in {"evict", "ncwrite"}
    OBVIOUS
  <2>1. \/ state = "idle" /\ Accept /\ IsNc(req) /\ IsStore(req)
        \/ state = "lookup" /\ Miss /\ cur.we /\ look.dirty
        \/ state = "peer" /\ OwnAnswer /\ localDirty
    BY PulsesFollow
  <2> QED BY <2>1, StatesFollow DEF Controller, Miss
<1>4. ev'.state # "idle" \/ evictDone' => Owned' /\ Starters' = {}
  <2> SUFFICES ASSUME ev'.state # "idle" \/ evictDone' PROVE Owned' /\ Starters' = {}
    OBVIOUS
  <2>1. ev.state # "idle" \/ Starters # {}
    BY DEF Write, EvictIdle, EvictAddress, EvictBeat, EvictStall, EvictReply
  <2>2. ~evictDone /\ Owned
    BY <2>1, StartersAre DEF EvictInv, Owned
  <2> QED BY <2>2, OwnerStays
<1>5. ~(ev'.state # "idle" /\ evictDone')
  BY DEF Write
<1> QED BY <1>1, <1>2, <1>3, <1>4, <1>5 DEF EvictInv, Owned

-----------------------------------------------------------------------------
(***************************************************************************)
(* The invariant, and what follows from it.                                *)
(***************************************************************************)
LEMMA InvSteps ==
  ASSUME "drain" \notin Windows, "snoop" \notin Windows, DCacheInv, [Next]_vars
  PROVE  DCacheInv'
<1>1. CASE Next
  <2> USE <1>1 DEF DCacheInv, Next
  <2>1. HartInv'
    BY HartStep
  <2>2. FenceInv'
    BY FenceStep
  <2>3. SnoopInv'
    BY SnoopStep
  <2>4. MissInv'
    BY MissStep
  <2>5. BitmapInv'
    BY BitmapStep
  <2>6. EvictInv'
    BY EvictStep
  <2> QED BY <2>1, <2>2, <2>3, <2>4, <2>5, <2>6
<1>2. CASE UNCHANGED vars
  <2>1. /\ UNCHANGED hart /\ UNCHANGED ctl /\ UNCHANGED arrays /\ UNCHANGED flush
        /\ UNCHANGED snoop /\ UNCHANGED axi /\ UNCHANGED fab
    BY <1>2 DEF vars
  <2>2. /\ UNCHANGED <<req, fence, state, cur, pulse, stable, prev, ncJust, localDirty>>
        /\ UNCHANGED <<tags, states, look, fstate, fbusy, fdata, bitmap, fpulse>>
        /\ UNCHANGED <<sstate, sreq, spulse, ev, evictDone>>
    BY <2>1 DEF hart, ctl, lookups, miss, arrays, flush, snoop, axi
  <2>3. HartInv'
    BY <2>1, <2>2 DEF DCacheInv, HartInv, CpuReq, SnoopBusy
  <2>4. FenceInv' /\ MissInv' /\ BitmapInv'
    BY <2>2 DEF DCacheInv, FenceInv, MissInv, BitmapInv, Quiet
  <2>5. SnoopInv'
    BY <2>1, <2>2 DEF DCacheInv, SnoopInv, Quiet
  <2>6. EvictInv'
    BY <2>2 DEF DCacheInv, EvictInv, Starters
  <2> QED BY <2>3, <2>4, <2>5, <2>6 DEF DCacheInv
<1> QED BY <1>1, <1>2

\* The units of the cache keep apart: where each of them stands, what it
\* knows of the line it is about to change, and whom the engine works for.
THEOREM UnitsKeepApart ==
  ASSUME "drain" \notin Windows, "snoop" \notin Windows
  PROVE  Spec => []DCacheInv
<1>1. Init => DCacheInv
  BY InvStarts
<1>2. DCacheInv /\ [Next]_vars => DCacheInv'
  BY InvSteps
<1> QED BY <1>1, <1>2, PTL DEF Spec

\* dcache_axi_interface.v takes a start only when it is idle, and one of
\* three; the fence unit, the snoop unit and the controller never offer two
\* at a time, nor one that it does not take.
THEOREM StartsAreHeard ==
  ASSUME "drain" \notin Windows, "snoop" \notin Windows
  PROVE  Spec => []NoStartIsLost
<1>1. DCacheInv => NoStartIsLost
  <2> SUFFICES ASSUME DCacheInv, Starters # {}
               PROVE  Cardinality(Starters) = 1 /\ ev.state = "idle"
    BY DEF NoStartIsLost
  <2>1. ev.state = "idle"
    BY DEF DCacheInv, EvictInv
  <2>2. fpulse.evict # NoEvict => spulse.evict = NoEvict /\ pulse.evict = NoEvict
    BY DEF DCacheInv, EvictInv, FenceInv, NoFPulse, NoSPulse
  <2>3. spulse.evict # NoEvict => pulse.evict = NoEvict
    BY DEF DCacheInv, EvictInv, SnoopInv, NoSPulse
  <2>4. PICK u : Starters = {u}
    BY <2>2, <2>3, StartersAre
  <2> QED BY <2>1, <2>4, FS_Singleton
<1> QED BY <1>1, UnitsKeepApart, PTL

\* The bitmap by which dcache_flush_ctrl.v finds the lines to write back
\* names the dirty lines, whatever stores, snoops and fences came before: a
\* fence passes none over.
THEOREM DirtyLinesAreTracked ==
  ASSUME "drain" \notin Windows, "snoop" \notin Windows
  PROVE  Spec => []DirtyLinesTracked
<1>1. DCacheInv => DirtyLinesTracked
  BY DEF DCacheInv, BitmapInv, DirtyLinesTracked
<1> QED BY <1>1, UnitsKeepApart, PTL
=============================================================================
