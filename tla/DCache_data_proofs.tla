-------------------------- MODULE DCache_data_proofs --------------------------
(***************************************************************************)
(* Proofs about the data of DCache, for every set of lines, indexes and    *)
(* words, every program and every choice of other agents: what a load, an  *)
(* agent and memory are given is the last value stored.  The argument      *)
(* looks at the arrays as the pulses under way leave them, says of every   *)
(* copy in flight (a line being filled, forwarded, written back, answered) *)
(* that it is current and whose it is, and shows that no store can come    *)
(* between.  It stands on UnitsKeepApart; all four windows are excluded.   *)
(***************************************************************************)
EXTENDS DCache_proofs, WellFoundedInduction

\* The arrays as the pulses under way leave them.
TagAt(i) == IF Updated(i) /\ ~fpulse.invAll /\ ~fpulse.flushAll THEN cur.line[1] ELSE tags[i]
WordAt(i, w) == IF pulse.deferred /\ i = Index(cur.line) /\ w = cur.word THEN cur.item
                ELSE DataWord(i, w)
Filling  == state \in {"refill", "drain", "c2c"}
Here(l)  == states[Index(l)] # "I" /\ tags[Index(l)] = l[1]
Held(l)  == TagState(Index(l)) # "I" /\ TagAt(Index(l)) = l[1]
Dirty(l) == TagState(Index(l)) = "M" /\ TagAt(Index(l)) = l[1]
Versions(l, w) == {<<l, w, 0>>, <<l, w, 1>>}
Current(b, l)  == \A w \in Offsets : b[w] = latest[l][w]

HistoryInv ==
  \A l \in Used : /\ mem[l] = [w \in Offsets |-> mem[l][w]]
                  /\ latest[l] = [w \in Offsets |-> latest[l][w]]
                  /\ \A w \in Offsets : mem[l][w] \in Versions(l, w) /\ latest[l][w] \in Versions(l, w)

RequestInv ==
  /\ CpuReq => req.kind \in {"load", "store", "ncload", "ncstore"}
  /\ req.kind \in {"load", "store"} => req.line \in Used /\ req.word \in Offsets
  /\ req.kind = "store" => req.item \in Versions(req.line, req.word)
  /\ state \notin {"idle", "drain"} =>
       /\ cur.line = req.line /\ cur.word = req.word /\ cur.item = req.item
       /\ cur.we <=> IsStore(req)
       /\ IsNc(req) <=> state \in {"ncread", "ncwrite"}
  /\ state \in {"peer", "drain", "c2c"} \/ fwd # NoData => ~cur.we
  /\ state = "drain" \/ pulse.tagUpdate \/ pulse.dirtySet => cur.line \in Used
  /\ pulse.dirtySet => pulse.tagUpdate \/ Here(cur.line)
  /\ pulse.deferred =>
       /\ state = "idle" /\ ~fbusy /\ pulse.tagUpdate /\ pulse.dirtySet
       /\ cur.word \in Offsets /\ cur.item \in Versions(cur.line, cur.word)

ReadInv ==
  /\ rd \in [state : {"idle", "latch", "AR", "R"}, nc : BOOLEAN, word : Offsets]
  /\ rd.state # "R" => rd.word = 0
  /\ pulse.refill = "line" => state = "refill" /\ rd.state = "idle"
  /\ pulse.refill = "nc" => state = "ncread" /\ rd.state = "idle"
  /\ pulse.refill \in {"no", "line", "nc"}
  /\ rd.state # "idle" => IF rd.nc THEN state = "ncread" ELSE state \in {"refill", "drain"}

FillInv ==
  /\ state \in {"refill", "drain"} =>
       \A w \in Offsets : w < rd.word => DataWord(Index(cur.line), w) = latest[cur.line][w]
  /\ state = "c2c" =>
       /\ fwd # NoData /\ fillWord \in Offsets
       /\ \A w \in Offsets : w < fillWord => DataWord(Index(cur.line), w) = latest[cur.line][w]
  /\ fwd # NoData =>
       /\ state \in {"evict", "wait", "c2c"} /\ Current(fwd, cur.line)
       /\ state # "c2c" => fillWord = 0

LookInv ==
  /\ state = "lookup" /\ stable => /\ look.hit <=> Here(cur.line)
                                   /\ look.tag = tags[Index(cur.line)]
  /\ state = "peer" => /\ ~Here(cur.line)
                       /\ localDirty => states[Index(cur.line)] = "M"
  /\ OwnAnswer => look.tag = tags[Index(cur.line)]
  /\ sstate = "capture" => /\ look.hit <=> Here(sreq.line)
                           /\ look.dirty <=> states[Index(sreq.line)] = "M"
  /\ fstate = "tagwait" => look.tag = tags[findex]

FabInv ==
  /\ fab.src \in {"read", "inval"} => fab.line \in Used
  /\ fab = [state |-> fab.state, src |-> fab.src, line |-> fab.line, data |-> fab.data]
  /\ fab.state \in {"idle", "req", "wait", "answer"}
  /\ fab.src \in IF fab.state = "idle" THEN {"none"} ELSE {"own", "read", "inval"}
  /\ fab.src = "own" => state = "peer" /\ fab.line = cur.line
  /\ pulse.missReq => state = "peer"
  /\ fab.src = "inval" /\ req.kind = "load" =>
       fab.line = req.line \/ Index(fab.line) # Index(req.line)
  /\ fab.state = "answer" /\ fab.src = "inval" =>
       /\ ~Held(fab.line) /\ state \notin {"evict", "wait", "refill", "drain", "c2c"}
  /\ OwnAnswer => fab.data = NoData \/ Current(fab.data, fab.line)

AnswerInv ==
  /\ sstate # "idle" \/ spulse # NoSPulse =>
       sreq.line = fab.line /\ sreq.line \in Used /\ (sreq.read <=> fab.src = "read")
  /\ sstate = "evict" => ~sreq.read /\ Current(sline, sreq.line)
  /\ spulse.inval => spulse.resp /\ spulse.hit /\ ~sreq.read
  /\ spulse.hit => spulse.resp /\ Here(sreq.line) /\ Current(sline, sreq.line)
  /\ sstate = "evict" \/ spulse.hit => sline = [w \in Offsets |-> sline[w]]
  /\ spulse.shared => sreq.read
  /\ spulse.resp /\ ~spulse.hit => ~Here(sreq.line)
  /\ spulse.resp /\ spulse.hit /\ ~sreq.read => spulse.inval

Writing == fstate = "evict" \/ sstate = "evict" \/ state = "evict"
Leaving == IF fstate = "evict" THEN <<tags[findex], findex>>
           ELSE IF sstate = "evict" THEN sreq.line ELSE <<tags[Index(cur.line)], Index(cur.line)>>
Copy(e, l) == e.line = l /\ ~e.nc /\ Current(e.data, l)
Sent(n)    == \A w \in Offsets : w < n => mem[Leaving][w] = latest[Leaving][w]

TransferInv ==
  /\ ev = [state |-> ev.state, beat |-> ev.beat, evict |-> ev.evict]
  /\ ev.state \in {"idle", "AW", "W", "B"} /\ ev.beat \in Offsets
  /\ ev.state # "W" => ev.beat = 0
  /\ Writing =>
       /\ Here(Leaving) /\ Leaving \in Used
       /\ Starters # {} => Copy(Start, Leaving)
       /\ ev.state \in {"AW", "W"} => Copy(ev.evict, Leaving)
       /\ ev.state = "W" => Sent(ev.beat)
       /\ ev.state = "B" \/ evictDone => Sent(Words)
  /\ ~Writing =>
       /\ Starters # {} => Start.nc
       /\ ev.state \in {"AW", "W"} => ev.evict.nc

FlushInv ==
  /\ findex \in Indexes
  /\ fstate \in {"settle", "tagwait", "evict"} => states[findex] # "I"
  /\ fstate = "tagwait" => Current(fdata, <<tags[findex], findex>>)
  /\ fence = {"inval"} => ~pulse.dirtySet /\ bitmap = {}
  /\ fstate = "done" \/ fpulse.invAll \/ fpulse.flushAll => bitmap = {}
  /\ fpulse.invAll => fstate = "idle"
  /\ fence \in Fences \cup {{}}

NameInv == state \in {"idle", "lookup", "peer", "evict", "wait", "refill", "drain", "c2c",
                      "ncread", "ncwrite"}

ArrayInv ==
  /\ tags \in [Indexes -> Tags] /\ states \in [Indexes -> {"I", "S", "E", "M"}]
  /\ \A i \in Indexes : /\ states[i] # "I" => <<tags[i], i>> \in Used
                        /\ data[i] = [w \in Offsets |-> data[i][w]]

CoherentInv ==
  \A l \in Used : \A w \in Offsets :
    /\ Held(l) /\ ~(Filling /\ Index(l) = Index(cur.line)) => WordAt(Index(l), w) = latest[l][w]
    /\ ~Dirty(l) => mem[l][w] = latest[l][w]

DataInv == /\ HistoryInv /\ RequestInv /\ ReadInv /\ FillInv /\ LookInv /\ FabInv
           /\ AnswerInv /\ TransferInv /\ FlushInv /\ ArrayInv /\ CoherentInv /\ NameInv

\* One cycle of the clock between states in which the units keep apart.
Cycle == DCacheInv /\ DCacheInv' /\ Next

LEMMA CycleIs ==
  ASSUME Cycle
  PROVE  /\ HartInv /\ FenceInv /\ SnoopInv /\ MissInv /\ BitmapInv /\ EvictInv
         /\ HartInv' /\ FenceInv' /\ SnoopInv' /\ MissInv' /\ BitmapInv' /\ EvictInv'
         /\ Fabric /\ Controller /\ Arrays /\ Flush /\ Snoop /\ Read /\ Write /\ Memory /\ Hart
         /\ Apart
BY DEF Cycle, DCacheInv, Next

LEMMA UsedLines ==
  /\ NoLine \notin Used /\ Used \subseteq Lines
  /\ \A l \in Used : l = <<l[1], Index(l)>> /\ Index(l) \in Indexes /\ l[1] \in Tags /\ l[1] # NoTag
<1>1. \A l \in Used : l \in (Nat \ {NoTag}) \X Indexes
  BY CacheConstants
<1>2. \A l \in Used : l = <<l[1], l[2]>> /\ l[2] \in Indexes /\ l[1] # NoTag
  BY <1>1
<1>3. NoLine[1] = NoTag
  BY DEF NoLine
<1> QED BY <1>2, <1>3 DEF Lines, Index, Tags

\* The controller takes the action of its state.
LEMMA ControllerIs ==
  ASSUME Cycle
  PROVE  /\ fbusy => Frozen /\ state = "idle"
         /\ state = "idle" /\ ~fbusy => Idle
         /\ state = "lookup" => Lookup \/ LookupHit \/ LookupMiss
         /\ state = "peer" => PeerSnoop \/ PeerAsk
         /\ state = "evict" => Evict
         /\ state = "wait" => Wait
         /\ state = "refill" => Refill
         /\ state = "drain" => Drain
         /\ state = "c2c" => C2CFill
         /\ state \in {"ncread", "ncwrite"} => NonCacheable
<1>1. Controller /\ FenceInv
  BY CycleIs
<1>2. fbusy => state = "idle"
  BY <1>1 DEF FenceInv
<1>3. ~fbusy => ( \/ Idle \/ Lookup \/ LookupHit \/ LookupMiss \/ PeerSnoop \/ PeerAsk
                  \/ Evict \/ Wait \/ Refill \/ Drain \/ C2CFill \/ NonCacheable )
  BY <1>1 DEF Controller, Datapath, Frozen
<1>4. fbusy => Frozen
  BY <1>1 DEF Controller, Datapath
<1> QED BY <1>2, <1>3, <1>4 DEF Idle, Lookup, LookupHit, LookupMiss, PeerSnoop, PeerAsk, Evict, Wait,
             Refill, Drain, C2CFill, NonCacheable

\* What the controller writes into the data array.
LEMMA WritesFollow ==
  ASSUME Cycle, RequestInv
  PROVE  /\ state = "idle" => pulse'.write = IF pulse.deferred THEN CurWrite ELSE NoWrite
         /\ state = "lookup" =>
              pulse'.write = IF stable /\ look.hit /\ cur.we THEN CurWrite ELSE NoWrite
         /\ state = "lookup" /\ stable /\ look.hit /\ cur.we => pulse'.dirtySet
         /\ state \in {"refill", "drain"} =>
              pulse'.write = BeatWrite /\ (pulse'.tagUpdate <=> RefillDone)
         /\ state = "refill" => /\ pulse'.dirtySet <=> RefillDone /\ cur.we
                                /\ pulse'.deferred <=> RefillDone /\ cur.we
         /\ state = "c2c" =>
              /\ pulse'.write = WriteOf(Index(cur.line), fillWord, fwd[fillWord])
              /\ pulse'.tagUpdate <=> FillDone
         /\ state \in {"peer", "evict", "wait", "ncread", "ncwrite"} => pulse'.write = NoWrite
         /\ pulse'.dirtySet => cur.we /\ state # "idle" /\ cur' = cur /\ cur.line \in Used
         /\ pulse'.deferred => pulse'.tagUpdate /\ pulse'.dirtySet
         /\ pulse'.tagUpdate => state # "idle" /\ cur' = cur /\ cur.line \in Used
<1> USE DEF Emit
<1>0. HartInv /\ Controller /\ FenceInv
  BY CycleIs
<1>1. /\ pulse.deferred => ~fbusy /\ state = "idle"
      /\ state \in {"lookup", "peer", "evict", "wait", "refill", "drain", "c2c"} => cur.line \in Used
      /\ CpuReq => ~pulse.deferred
  BY <1>0 DEF RequestInv, HartInv, IsNc
<1>2. CASE fbusy
  <2>1. state = "idle" /\ ~pulse.deferred /\ pulse' = NoPulse
    BY <1>1, <1>2, ControllerIs DEF Frozen
  <2> QED BY <2>1 DEF NoPulse
<1>3. CASE state = "idle" /\ ~fbusy
  <2>1. Idle /\ (Accept => ~IdleHit)
    BY <1>0, <1>3, ControllerIs, NoIdleHit
  <2>2. CASE pulse.deferred
    <3>1. pulse' = [NoPulse EXCEPT !.write = CurWrite]
      BY <2>1, <2>2 DEF Idle
    <3> QED BY <1>3, <2>2, <3>1 DEF NoPulse
  <2>3. CASE ~pulse.deferred
    <3>1. \/ pulse' = NoPulse
          \/ pulse' = [NoPulse EXCEPT !.refill = "nc"]
          \/ pulse' = [NoPulse EXCEPT !.evict.nc = TRUE]
      BY <2>1, <2>3 DEF Idle
    <3> QED BY <1>3, <2>3, <3>1 DEF NoPulse
  <2> QED BY <2>2, <2>3
<1>4. CASE state = "lookup"
  <2>1. CASE Lookup
    BY <1>1, <1>4, <2>1 DEF Lookup, NoPulse
  <2>2. CASE LookupHit
    BY <1>1, <1>4, <2>2 DEF LookupHit, Hold, NoPulse
  <2>3. CASE LookupMiss
    BY <1>1, <1>4, <2>3 DEF LookupMiss, Miss, NoPulse
  <2> QED BY <1>4, <2>1, <2>2, <2>3, ControllerIs
<1>5. CASE state = "peer"
  BY <1>1, <1>5, ControllerIs DEF PeerSnoop, PeerAsk, NoPulse
<1>6. CASE state = "evict"
  BY <1>1, <1>6, ControllerIs DEF Evict, Hold, NoPulse
<1>7. CASE state = "wait"
  BY <1>1, <1>7, ControllerIs DEF Wait, Hold, NoPulse
<1>8. CASE state = "refill"
  BY <1>1, <1>8, ControllerIs DEF Refill, Hold, NoPulse
<1>9. CASE state = "drain"
  BY <1>1, <1>9, ControllerIs DEF Drain, Hold, NoPulse
<1>10. CASE state = "c2c"
  BY <1>1, <1>10, ControllerIs DEF C2CFill, NoPulse
<1>11. CASE state \in {"ncread", "ncwrite"}
  BY <1>1, <1>11, ControllerIs DEF NonCacheable, Hold, NoPulse
<1> QED BY <1>0, <1>2, <1>3, <1>4, <1>5, <1>6, <1>7, <1>8, <1>9, <1>10, <1>11, StatesAreNamed

\* What it asks of the memory, the engine and the peer, and what it remembers
\* of a miss.
LEMMA AsksFollow ==
  ASSUME Cycle
  PROVE  /\ pulse'.refill \in {"no", "line", "nc"}
         /\ pulse'.refill = "line" =>
              \/ state = "lookup" /\ Miss /\ cur.we /\ ~look.dirty
              \/ state = "peer" /\ OwnAnswer /\ ~localDirty /\ ~OwnHit
              \/ state = "wait" /\ fwd = NoData
         /\ pulse'.refill = "nc" => state = "idle" /\ Accept /\ IsNc(req) /\ ~IsStore(req)
         /\ pulse'.evict # NoEvict =>
              \/ state = "idle" /\ Accept /\ IsNc(req) /\ IsStore(req) /\ pulse'.evict.nc
              \/ /\ pulse'.evict = Victim
                 /\ \/ state = "lookup" /\ Miss /\ cur.we /\ look.dirty
                    \/ state = "peer" /\ OwnAnswer /\ localDirty
         /\ pulse'.missReq => state = "peer" /\ ~OwnAnswer
         /\ state = "peer" /\ OwnAnswer =>
              /\ fwd' = IF OwnHit THEN fab.data ELSE fwd
              /\ fillWord' = IF OwnHit THEN 0 ELSE fillWord
         /\ state = "c2c" => /\ fwd' = IF FillDone THEN NoData ELSE fwd
                             /\ fillWord' = IF FillDone THEN 0 ELSE fillWord + 1
         /\ state # "c2c" /\ ~(state = "peer" /\ OwnAnswer) => fwd' = fwd /\ fillWord' = fillWord
         /\ state = "lookup" /\ Miss => localDirty' = look.dirty
         /\ state \notin {"idle", "lookup"} => localDirty' = localDirty
<1> USE DEF Emit
<1>0. HartInv /\ Controller /\ FenceInv
  BY CycleIs
<1>2. CASE fbusy
  BY <1>2, ControllerIs DEF Frozen, Hold, miss, NoPulse
<1>3. CASE state = "idle" /\ ~fbusy
  <2>1. Idle /\ (Accept => ~IdleHit)
    BY <1>0, <1>3, ControllerIs, NoIdleHit
  <2>2. \/ pulse' = [NoPulse EXCEPT !.write = CurWrite]
        \/ pulse' = NoPulse
        \/ Accept /\ IsNc(req) /\ ~IsStore(req) /\ pulse' = [NoPulse EXCEPT !.refill = "nc"]
        \/ Accept /\ IsNc(req) /\ IsStore(req) /\ pulse' = [NoPulse EXCEPT !.evict.nc = TRUE]
    BY <2>1 DEF Idle
  <2>3. fwd' = fwd /\ fillWord' = fillWord
    BY <2>1 DEF Idle
  <2>4. CASE pulse' = [NoPulse EXCEPT !.write = CurWrite] \/ pulse' = NoPulse
    BY <1>3, <2>3, <2>4 DEF NoPulse
  <2>5. CASE Accept /\ IsNc(req) /\ ~IsStore(req) /\ pulse' = [NoPulse EXCEPT !.refill = "nc"]
    BY <1>3, <2>3, <2>5 DEF NoPulse
  <2>6. CASE Accept /\ IsNc(req) /\ IsStore(req) /\ pulse' = [NoPulse EXCEPT !.evict.nc = TRUE]
    BY <1>3, <2>3, <2>6 DEF NoPulse, NoEvict
  <2> QED BY <2>2, <2>4, <2>5, <2>6
<1>4. CASE state = "lookup"
  <2>1. CASE Lookup
    BY <1>4, <2>1 DEF Lookup, Hold, miss, NoPulse, Miss
  <2>2. CASE LookupHit
    BY <1>4, <2>2 DEF LookupHit, Hold, miss, NoPulse, Miss
  <2>3. CASE LookupMiss
    BY <1>4, <2>3 DEF LookupMiss, Miss, NoPulse
  <2> QED BY <1>4, <2>1, <2>2, <2>3, ControllerIs
<1>5. CASE state = "peer"
  <2>1. CASE PeerSnoop
    BY <1>5, <2>1 DEF PeerSnoop, NoPulse
  <2>2. CASE PeerAsk
    BY <1>5, <2>2 DEF PeerAsk, NoPulse
  <2> QED BY <1>5, <2>1, <2>2, ControllerIs
<1>6. CASE state = "evict"
  BY <1>6, ControllerIs DEF Evict, Hold, miss, NoPulse
<1>7. CASE state = "wait"
  BY <1>7, ControllerIs DEF Wait, Hold, miss, NoPulse
<1>8. CASE state = "refill"
  <2>1. Refill
    BY <1>8, ControllerIs
  <2>2. pulse'.refill = "no" /\ pulse'.evict = NoEvict /\ pulse'.missReq = FALSE
    BY <2>1 DEF Refill, NoPulse
  <2> QED BY <1>8, <2>1, <2>2 DEF Refill, Hold, miss
<1>9. CASE state = "drain"
  <2>1. Drain
    BY <1>9, ControllerIs
  <2>2. pulse'.refill = "no" /\ pulse'.evict = NoEvict /\ pulse'.missReq = FALSE
    BY <2>1 DEF Drain, NoPulse
  <2> QED BY <1>9, <2>1, <2>2 DEF Drain, Hold, miss
<1>10. CASE state = "c2c"
  <2>1. C2CFill
    BY <1>10, ControllerIs
  <2>2. pulse'.refill = "no" /\ pulse'.evict = NoEvict /\ pulse'.missReq = FALSE
    BY <2>1 DEF C2CFill, NoPulse
  <2> QED BY <1>10, <2>1, <2>2 DEF C2CFill
<1>11. CASE state \in {"ncread", "ncwrite"}
  BY <1>11, ControllerIs DEF NonCacheable, Hold, miss, NoPulse
<1> QED BY <1>0, <1>2, <1>3, <1>4, <1>5, <1>6, <1>7, <1>8, <1>9, <1>10, <1>11, StatesAreNamed

-----------------------------------------------------------------------------
(***************************************************************************)
(* Memory and the history of stores.                                       *)
(***************************************************************************)
AgentTakes(l) == fab.state = "answer" /\ fab.src = "inval" /\ l = fab.line
HartStores(l) == Ready /\ req.kind = "store" /\ req.line = l

LEMMA MemoryFollows ==
  ASSUME Memory, NEW l \in Used
  PROVE  /\ mem'[l] = [w \in Offsets |-> mem'[l][w]]
         /\ latest'[l] = [w \in Offsets |-> latest'[l][w]]
         /\ \A w \in Offsets :
              \/ AgentTakes(l) /\ mem'[l][w] = Older(latest[l][w])
                               /\ latest'[l][w] = Older(latest[l][w])
              \/ /\ mem'[l][w] = IF BeatWritten(l, w) THEN ev.evict.data[w] ELSE mem[l][w]
                 /\ latest'[l][w] = IF HartStores(l) /\ req.word = w THEN req.item
                                    ELSE latest[l][w]
<1> DEFINE agent(W, k, w) == w \in W /\ k = fab.line
           stores(k, w) == Ready /\ req.kind = "store" /\ req.line = k /\ req.word = w
<1>1. PICK W \in SUBSET AgentWrites :
        /\ mem' = [k \in Used |-> [w \in Offsets |->
                     IF agent(W, k, w) THEN Older(latest[k][w])
                     ELSE IF BeatWritten(k, w) THEN ev.evict.data[w] ELSE mem[k][w]]]
        /\ latest' = [k \in Used |-> [w \in Offsets |->
                     IF agent(W, k, w) THEN Older(latest[k][w])
                     ELSE IF stores(k, w) THEN req.item ELSE latest[k][w]]]
  BY DEF Memory
<1>2. \A w \in W : fab.state = "answer" /\ fab.src = "inval"
  BY DEF AgentWrites
<1>3. /\ mem'[l] = [w \in Offsets |->
                     IF agent(W, l, w) THEN Older(latest[l][w])
                     ELSE IF BeatWritten(l, w) THEN ev.evict.data[w] ELSE mem[l][w]]
      /\ latest'[l] = [w \in Offsets |->
                     IF agent(W, l, w) THEN Older(latest[l][w])
                     ELSE IF stores(l, w) THEN req.item ELSE latest[l][w]]
  BY <1>1
<1>4. ASSUME NEW w \in Offsets
      PROVE  /\ mem'[l][w] = IF agent(W, l, w) THEN Older(latest[l][w])
                             ELSE IF BeatWritten(l, w) THEN ev.evict.data[w] ELSE mem[l][w]
             /\ latest'[l][w] = IF agent(W, l, w) THEN Older(latest[l][w])
                             ELSE IF stores(l, w) THEN req.item ELSE latest[l][w]
  BY <1>3
<1>5. /\ mem'[l] = [w \in Offsets |-> mem'[l][w]]
      /\ latest'[l] = [w \in Offsets |-> latest'[l][w]]
  BY <1>3
<1>6. \A w \in Offsets : agent(W, l, w) => AgentTakes(l)
  BY <1>2 DEF AgentTakes
<1> QED BY <1>4, <1>5, <1>6 DEF HartStores

\* A store of the hart ends in a lookup that hits or with a line that was
\* fetched for it.
LEMMA HartStoresHit ==
  ASSUME Cycle, RequestInv, Ready, req.kind = "store"
  PROVE  /\ \/ state = "lookup" /\ stable /\ look.hit
            \/ state = "refill" /\ RefillDone
         /\ cur.we /\ req.line = cur.line /\ req.word = cur.word /\ req.item = cur.item
         /\ pulse'.dirtySet /\ state' = "idle"
<1>1. state # "idle" /\ HartInv
  BY CycleIs, NoIdleHit
<1>2. ~IsNc(req) /\ IsStore(req) /\ (state = "drain" => ~Ready)
  BY DEF IsNc, IsStore, Ready
<1>3. state \in {"lookup", "refill"} /\ cur.we
  BY <1>1, <1>2 DEF Ready, RequestInv
<1>4. cur.line = req.line /\ cur.word = req.word /\ cur.item = req.item
  BY <1>3 DEF RequestInv
<1>5. CASE state = "lookup"
  <2>1. stable /\ look.hit
    BY <1>5 DEF Ready
  <2>2. pulse'.dirtySet
    BY <1>3, <1>5, <2>1, WritesFollow
  <2>3. state' = "idle"
    BY <1>1, <1>5, <2>1, StatesFollow, CycleIs DEF Controller
  <2> QED BY <1>3, <1>4, <1>5, <2>1, <2>2, <2>3
<1>6. CASE state = "refill"
  <2>1. RefillDone
    BY <1>3, <1>6 DEF Ready
  <2>2. pulse'.dirtySet
    BY <1>3, <1>6, <2>1, WritesFollow
  <2>3. state' = "idle"
    BY <1>1, <1>6, <2>1, StatesFollow, CycleIs DEF Controller
  <2> QED BY <1>3, <1>4, <1>6, <2>1, <2>2, <2>3
<1> QED BY <1>3, <1>5, <1>6

\* No store touches a line that no agent takes and the hart does not store in.
LEMMA LatestKept ==
  ASSUME Cycle, NEW l \in Used, ~AgentTakes(l), ~HartStores(l), NEW w \in Offsets
  PROVE  latest'[l][w] = latest[l][w]
BY CycleIs, MemoryFollows

\* An agent takes a line that the cache does not hold, while the controller
\* has no line on its way.
LEMMA AgentsKeepOff ==
  ASSUME FabInv, NEW l, AgentTakes(l)
  PROVE  ~Held(l) /\ ~Filling /\ state \notin {"evict", "wait"}
BY DEF FabInv, AgentTakes, Filling

LEMMA HistoryStep ==
  ASSUME Cycle, HistoryInv, RequestInv, CoherentInv, TransferInv
  PROVE  HistoryInv'
<1> SUFFICES ASSUME NEW l \in Used
             PROVE  /\ mem'[l] = [w \in Offsets |-> mem'[l][w]]
                    /\ latest'[l] = [w \in Offsets |-> latest'[l][w]]
                    /\ \A w \in Offsets : mem'[l][w] \in Versions(l, w) /\ latest'[l][w] \in Versions(l, w)
  BY DEF HistoryInv
<1>1. ASSUME NEW w \in Offsets
      PROVE  mem'[l][w] \in Versions(l, w) /\ latest'[l][w] \in Versions(l, w)
  <2>1. mem[l][w] \in Versions(l, w) /\ latest[l][w] \in Versions(l, w)
    BY DEF HistoryInv
  <2>2. Older(latest[l][w]) \in Versions(l, w)
    BY <2>1 DEF Older, Versions
  <2>3. HartStores(l) /\ req.word = w => req.item \in Versions(l, w)
    BY DEF HartStores, RequestInv
  <2>4. BeatWritten(l, w) => ev.evict.data[w] = latest[l][w]
    BY DEF BeatWritten, TransferInv, Copy, Current
  <2> QED BY <2>1, <2>2, <2>3, <2>4, CycleIs, MemoryFollows
<1> QED BY <1>1, CycleIs, MemoryFollows

-----------------------------------------------------------------------------
(***************************************************************************)
(* The arrays.                                                             *)
(***************************************************************************)
LEMMA ArraysFollow ==
  ASSUME Arrays, NEW i \in Indexes
  PROVE  /\ states'[i] = TagState(i) /\ tags'[i] = TagAt(i)
         /\ data'[i] = [w \in Offsets |-> data'[i][w]]
         /\ \A w \in Offsets : data'[i][w] = DataWord(i, w)
BY DEF Arrays, TagAt, Block

\* With no pulse the arrays are as they will be.
LEMMA QuietArrays ==
  ASSUME fpulse = NoFPulse, Quiet(pulse), ~spulse.shared, ~spulse.inval, NEW i
  PROVE  TagState(i) = states[i] /\ TagAt(i) = tags[i]
BY DEF TagState, TagAt, DirtyClear, DirtySet, Updated, Quiet, NoFPulse

LEMMA QuietArraysNext ==
  ASSUME fpulse' = NoFPulse, Quiet(pulse'), ~spulse'.shared, ~spulse'.inval, NEW i
  PROVE  TagState(i)' = states'[i] /\ TagAt(i)' = tags'[i]
BY DEF TagState, TagAt, DirtyClear, DirtySet, Updated, Quiet, NoFPulse

\* The units are quiet while a miss is under way, and while a snoop is looked up.
LEMMA MissIsQuiet ==
  ASSUME DCacheInv, state \notin {"idle", "wait"}
  PROVE  fpulse = NoFPulse /\ Quiet(pulse) /\ ~fbusy /\ fence = {}
BY DEF DCacheInv, FenceInv, MissInv, HartInv

LEMMA MissIsAlone ==
  ASSUME DCacheInv, state \notin {"idle", "wait", "peer"}
  PROVE  /\ fpulse = NoFPulse /\ Quiet(pulse) /\ spulse = NoSPulse /\ sstate = "idle"
         /\ ~spulse.shared /\ ~spulse.inval
BY MissIsQuiet DEF DCacheInv, SnoopInv, NoSPulse

LEMMA SnoopIsQuiet ==
  ASSUME DCacheInv, SnoopBusy
  PROVE  /\ fpulse = NoFPulse /\ Quiet(pulse) /\ ~fbusy /\ ~spulse.shared /\ ~spulse.inval
         /\ state \in {"idle", "peer"} /\ fab.state = "wait" /\ ~Ready
<1>1. HartInv /\ SnoopInv /\ FenceInv /\ SnoopInv
  BY DEF DCacheInv
<1>2. state \in {"idle", "peer"} => ~Ready
  BY <1>1, NoIdleHit DEF Ready
<1> QED BY <1>1, <1>2 DEF SnoopInv, FenceInv, SnoopBusy

\* A line stays where it is found while its set is not written.
LEMMA HereStays ==
  ASSUME Cycle, NEW l, Index(l) \in Indexes, fpulse = NoFPulse, Quiet(pulse), ~spulse.shared, ~spulse.inval
  PROVE  Here(l)' <=> Here(l)
<1>1. states'[Index(l)] = states[Index(l)] /\ tags'[Index(l)] = tags[Index(l)]
  BY CycleIs, ArraysFollow, QuietArrays
<1> QED BY <1>1 DEF Here

\* Only a line filled or stored in is held that was not held before.
LEMMA HeldBefore ==
  ASSUME Cycle, NEW l \in Used, Held(l)',
         ~(pulse'.tagUpdate /\ Index(l) = Index(cur'.line)),
         ~(pulse'.dirtySet /\ Index(l) = Index(cur'.line))
  PROVE  Held(l)
<1> DEFINE i == Index(l)
<1>1. i \in Indexes
  BY UsedLines
<1>2. states'[i] = TagState(i) /\ tags'[i] = TagAt(i)
  BY <1>1, CycleIs, ArraysFollow
<1>3. TagState(i)' # "I" /\ TagAt(i)' = l[1]
  BY DEF Held
<1>4. TagAt(i)' = tags'[i]
  BY DEF TagAt, Updated
<1>5. fpulse'.clear => Quiet(pulse')
  BY CycleIs DEF FenceInv, NoFPulse
<1>6. ~DirtySet(i)' /\ ~Updated(i)'
  BY <1>5 DEF DirtySet, Updated, DirtyIndex, Quiet
<1>7. states'[i] # "I"
  BY <1>3, <1>6 DEF TagState
<1> QED BY <1>2, <1>3, <1>4, <1>7 DEF Held

-----------------------------------------------------------------------------
(***************************************************************************)
(* The access under way.                                                   *)
(***************************************************************************)
LEMMA RequestKept ==
  ASSUME Cycle, CpuReq, ~Ready
  PROVE  req' = req
BY CycleIs DEF Hart, HartWait, HartEnd, HartFence, HartIdle, HartRequest, hart

LEMMA RequestIs ==
  ASSUME Cycle, HistoryInv, RequestInv
  PROVE  /\ CpuReq' => req'.kind \in {"load", "store", "ncload", "ncstore"}
         /\ req'.kind \in {"load", "store"} => req'.line \in Used /\ req'.word \in Offsets
         /\ req'.kind = "store" => req'.item \in Versions(req'.line, req'.word)
<1>1. CASE req' = req
  BY <1>1 DEF RequestInv, CpuReq
<1>2. CASE req' = NoReq
  BY <1>2 DEF NoReq, CpuReq
<1>3. CASE req' \in Requests
  <2>1. CASE \E x \in Loads : req' = [kind |-> "load", line |-> x[1], word |-> x[2], item |-> NoData]
    BY <2>1, CacheConstants
  <2>2. CASE \E x \in Stores : req' = [kind |-> "store", line |-> x[1], word |-> x[2],
                                       item |-> Older(latest[x[1]][x[2]])]
    <3>1. PICK x \in Stores : req' = [kind |-> "store", line |-> x[1], word |-> x[2],
                                      item |-> Older(latest[x[1]][x[2]])]
      BY <2>2
    <3>2. x[1] \in Used /\ x[2] \in Offsets
      BY CacheConstants
    <3>3. latest[x[1]][x[2]] \in Versions(x[1], x[2])
      BY <3>2 DEF HistoryInv
    <3>4. Older(latest[x[1]][x[2]]) \in Versions(x[1], x[2])
      BY <3>3 DEF Older, Versions
    <3> QED BY <3>1, <3>2, <3>4
  <2>3. CASE \E k \in {"ncload", "ncstore"} : req' = [NoReq EXCEPT !.kind = k]
    BY <2>3 DEF NoReq
  <2> QED BY <1>3, <2>1, <2>2, <2>3 DEF Requests
<1> QED BY <1>1, <1>2, <1>3, CycleIs DEF Hart, HartWait, HartEnd, HartFence, HartIdle, HartRequest, hart

LEMMA AccessStep ==
  ASSUME Cycle, RequestInv, state' \notin {"idle", "drain"}
  PROVE  /\ cur'.line = req'.line /\ cur'.word = req'.word /\ cur'.item = req'.item
         /\ cur'.we <=> IsStore(req')
         /\ IsNc(req') <=> state' \in {"ncread", "ncwrite"}
<1>0. HartInv /\ FenceInv /\ Controller /\ state' = NextState
  BY CycleIs DEF Controller
<1>1. CASE state = "idle"
  <2>1. Accept /\ state' \in {"lookup", "ncread", "ncwrite"}
    BY <1>0, <1>1, StatesFollow
  <2>2. req' = req /\ ~fbusy /\ Idle
    BY <1>0, <1>1, <2>1, NoIdleHit, RequestKept, ControllerIs DEF Accept, CpuReqNoSnoop
  <2>3. cur' = [line |-> req.line, word |-> req.word, item |-> req.item, we |-> IsStore(req)]
    BY <2>1, <2>2 DEF Idle
  <2>4. IsNc(req) <=> state' \in {"ncread", "ncwrite"}
    BY <1>0, <1>1, <2>1, StatesFollow
  <2> QED BY <2>2, <2>3, <2>4
<1>2. CASE state # "idle"
  <2>1. CpuReq /\ ~Ready
    BY <1>0, AnswerEnds DEF HartInv
  <2>2. req' = req /\ cur' = cur
    BY <1>0, <1>2, <2>1, RequestKept, PulsesFollow
  <2>3. state # "drain"
    BY <1>0, StatesFollow
  <2>4. state' \in {"ncread", "ncwrite"} <=> state \in {"ncread", "ncwrite"}
    <3>1. CASE state \in {"lookup", "peer"}
      BY <1>0, <3>1, StatesFollow
    <3>2. CASE state \in {"evict", "wait"}
      BY <1>0, <3>2, StatesFollow
    <3>3. CASE state \in {"refill", "c2c"}
      BY <1>0, <3>3, StatesFollow
    <3>4. CASE state = "ncread"
      BY <1>0, <3>4, StatesFollow
    <3>5. CASE state = "ncwrite"
      BY <1>0, <3>5, StatesFollow
    <3> QED BY <1>0, <1>2, <2>3, <3>1, <3>2, <3>3, <3>4, <3>5, StatesAreNamed
  <2> QED BY <1>2, <2>2, <2>3, <2>4 DEF RequestInv
<1> QED BY <1>1, <1>2

LEMMA RequestStep ==
  ASSUME Cycle, HistoryInv, RequestInv, FillInv, LookInv
  PROVE  RequestInv'
<1>0. HartInv /\ FenceInv /\ Controller /\ state' = NextState
  BY CycleIs DEF Controller
<1>1. fwd' # NoData => ~cur'.we
  <2>1. CASE state = "peer" /\ OwnAnswer
    BY <1>0, <2>1, PulsesFollow DEF RequestInv
  <2>2. CASE fwd' # NoData /\ ~(state = "peer" /\ OwnAnswer)
    <3>1. fwd # NoData
      BY <2>2, AsksFollow
    <3> QED BY <1>0, <3>1, PulsesFollow DEF RequestInv, FillInv
  <2> QED BY <2>1, <2>2
<1>2. state' \in {"peer", "drain", "c2c"} => /\ ~cur'.we /\ state # "idle"
                                             /\ state' = "drain" => state \in {"refill", "drain"}
  <2>1. CASE state = "idle"
    BY <1>0, <2>1, StatesFollow
  <2>2. CASE state \in {"lookup", "peer"}
    BY <1>0, <2>2, PulsesFollow, StatesFollow DEF RequestInv
  <2>3. CASE state = "wait"
    <3>1. state' = "c2c" => fwd # NoData
      BY <1>0, <2>3 DEF NextState
    <3> QED BY <1>0, <2>3, <3>1, PulsesFollow, StatesFollow DEF RequestInv
  <2>4. CASE state \in {"refill", "drain", "c2c"}
    BY <1>0, <2>4, PulsesFollow, StatesFollow DEF RequestInv
  <2>5. CASE state \in {"evict", "ncread", "ncwrite"}
    BY <1>0, <2>5, StatesFollow
  <2> QED BY <1>0, <2>1, <2>2, <2>3, <2>4, <2>5, StatesAreNamed
<1>3. state' = "drain" \/ pulse'.tagUpdate \/ pulse'.dirtySet => cur'.line \in Used
  <2>1. state \in {"refill", "drain"} => cur.line \in Used
    BY <1>0 DEF RequestInv, HartInv, IsNc
  <2> QED BY <1>0, <1>2, <2>1, WritesFollow, PulsesFollow
<1>4. pulse'.dirtySet => pulse'.tagUpdate \/ Here(cur.line)'
  <2> SUFFICES ASSUME pulse'.dirtySet, ~pulse'.tagUpdate PROVE Here(cur.line)'
    OBVIOUS
  <2>1. state = "lookup" /\ stable /\ look.hit /\ cur' = cur /\ cur.line \in Used
    BY <1>0, PulsesFollow, WritesFollow
  <2>2. Here(cur.line) /\ Index(cur.line) \in Indexes
    BY <2>1, UsedLines DEF LookInv
  <2>3. states'[Index(cur.line)] = states[Index(cur.line)] /\ tags'[Index(cur.line)] = tags[Index(cur.line)]
    BY <2>1, <2>2, CycleIs, MissIsAlone, ArraysFollow, QuietArrays DEF Cycle
  <2> QED BY <2>1, <2>2, <2>3 DEF Here
<1>5. pulse'.deferred =>
        /\ state' = "idle" /\ ~fbusy' /\ pulse'.tagUpdate /\ pulse'.dirtySet
        /\ cur'.word \in Offsets /\ cur'.item \in Versions(cur'.line, cur'.word)
  <2> SUFFICES ASSUME pulse'.deferred
               PROVE  /\ state' = "idle" /\ ~fbusy' /\ pulse'.tagUpdate /\ pulse'.dirtySet
                      /\ cur'.word \in Offsets /\ cur'.item \in Versions(cur'.line, cur'.word)
    OBVIOUS
  <2>1. state = "refill" /\ RefillDone /\ cur.we /\ cur' = cur
    BY <1>0, PulsesFollow
  <2>2. state' = "idle" /\ pulse'.tagUpdate /\ pulse'.dirtySet
    BY <1>0, <2>1, StatesFollow, WritesFollow
  <2>3. ~fbusy'
    BY <2>2, CycleIs DEF FenceInv, Quiet
  <2>4. req.kind = "store" /\ cur.line = req.line /\ cur.word = req.word /\ cur.item = req.item
    BY <2>1 DEF RequestInv, IsStore, IsNc
  <2> QED BY <2>1, <2>2, <2>3, <2>4 DEF RequestInv
<1> QED BY <1>1, <1>2, <1>3, <1>4, <1>5, RequestIs, AccessStep DEF RequestInv

-----------------------------------------------------------------------------
(***************************************************************************)
(* A line that is filled.                                                  *)
(***************************************************************************)
LEMMA ReadStep ==
  ASSUME Cycle, ReadInv
  PROVE  /\ ReadInv'
         /\ state \in {"refill", "drain"} /\ state' # "idle" =>
              rd'.word = IF Beat THEN rd.word + 1 ELSE rd.word
         /\ state \notin {"refill", "drain"} /\ state' \in {"refill", "drain"} => rd'.word = 0
<1>0. /\ HartInv /\ FenceInv /\ Controller /\ state' = NextState
      /\ Words \in Nat /\ 0 \in Offsets /\ Offsets = 0 .. Words - 1
  BY CycleIs, CacheConstants DEF Controller, Offsets
<1>1. rd \in [state : {"idle", "latch", "AR", "R"}, nc : BOOLEAN, word : Offsets]
  BY DEF ReadInv
<1>2. CASE rd.state = "idle"
  <2>1. rd.word = 0 /\ ~Beat /\ ~RefillDone /\ ReadIdle
    BY <1>2, CycleIs DEF ReadInv, Beat, RefillDone, Read, ReadLatch, ReadAddress, ReadData
  <2>2. CASE pulse.refill = "no"
    <3>1. rd' = rd
      BY <2>1, <2>2 DEF ReadIdle
    <3>2. pulse'.refill = "line" => state' = "refill"
      <4>1. CASE state = "wait" /\ fwd = NoData
        BY <1>0, <4>1 DEF NextState
      <4> QED BY <1>0, <4>1, AsksFollow, StatesFollow DEF Miss
    <3>3. pulse'.refill = "nc" => state' = "ncread"
      BY <1>0, AsksFollow, StatesFollow
    <3> QED BY <1>2, <2>1, <3>1, <3>2, <3>3, AsksFollow DEF ReadInv
  <2>3. CASE pulse.refill \in {"line", "nc"}
    <3>1. state = IF pulse.refill = "line" THEN "refill" ELSE "ncread"
      BY <2>3 DEF ReadInv
    <3>2. state' = state
      <4>1. state \in {"refill", "ncread"}
        BY <3>1
      <4>2. CASE state = "refill"
        BY <1>0, <2>1, <4>2, StatesFollow
      <4>3. CASE state = "ncread"
        BY <1>0, <2>1, <4>3, StatesFollow
      <4> QED BY <4>1, <4>2, <4>3
    <3>3. rd' = [state |-> "latch", nc |-> pulse.refill = "nc", word |-> 0]
      BY <2>1, <2>3 DEF ReadIdle
    <3>4. pulse'.refill = "no"
      BY <3>1, AsksFollow
    <3> QED BY <1>0, <2>1, <2>3, <3>1, <3>2, <3>3, <3>4 DEF ReadInv
  <2> QED BY <2>2, <2>3 DEF ReadInv
<1>3. CASE rd.state # "idle"
  <2>1. state \in {"refill", "drain", "ncread"} /\ (rd.nc <=> state = "ncread")
    BY <1>1, <1>3 DEF ReadInv
  <2>2. pulse'.refill = "no"
    BY <2>1, AsksFollow
  <2>3. state' = "idle" <=> RefillDone
    BY <1>0, <2>1, StatesFollow
  <2>4. ~RefillDone => \/ state = "ncread" /\ state' = "ncread"
                       \/ state # "ncread" /\ state' \in {"refill", "drain"}
    BY <1>0, <2>1, StatesFollow
  <2>5. CASE ReadLatch \/ ReadAddress
    <3>1. ~Beat /\ ~RefillDone /\ rd.word = 0
      BY <2>5 DEF ReadLatch, ReadAddress, Beat, RefillDone, ReadInv
    <3>2. PICK s \in {"AR", "R"} : rd' = [rd EXCEPT !.state = s]
      BY <2>5 DEF ReadLatch, ReadAddress
    <3>3. rd'.state = s /\ rd'.nc = rd.nc /\ rd'.word = rd.word /\
          rd' \in [state : {"idle", "latch", "AR", "R"}, nc : BOOLEAN, word : Offsets]
      BY <1>1, <3>2
    <3> QED BY <2>1, <2>2, <2>4, <3>1, <3>3 DEF ReadInv
  <2>6. CASE ReadData /\ RefillDone
    <3>1. rd' = [state |-> "idle", nc |-> FALSE, word |-> 0]
      BY <2>6 DEF ReadData
    <3> QED BY <1>0, <2>1, <2>2, <2>3, <2>6, <3>1 DEF ReadInv
  <2>7. CASE ReadData /\ ~RefillDone /\ Beat
    <3>1. rd' = [rd EXCEPT !.word = @ + 1] /\ rd.state = "R" /\ rd.word # Words - 1
      BY <2>7 DEF ReadData, RefillDone, LastBeat
    <3>2. rd'.state = "R" /\ rd'.nc = rd.nc /\ rd'.word = rd.word + 1 /\ rd.word + 1 \in Offsets
      BY <1>0, <1>1, <3>1
    <3>3. rd' \in [state : {"idle", "latch", "AR", "R"}, nc : BOOLEAN, word : Offsets]
      BY <1>1, <3>1, <3>2
    <3> QED BY <2>1, <2>2, <2>4, <2>7, <3>2, <3>3 DEF ReadInv
  <2>8. CASE ReadData /\ ~RefillDone /\ ~Beat
    <3>1. rd' = rd
      BY <2>8 DEF ReadData
    <3> QED BY <1>1, <2>1, <2>2, <2>4, <2>8, <3>1 DEF ReadInv
  <2> QED BY <1>3, <2>5, <2>6, <2>7, <2>8, CycleIs DEF Read, ReadIdle
<1> QED BY <1>2, <1>3

\* What the data array holds after a cycle.
LEMMA DataFollows ==
  ASSUME Cycle, NEW i \in Indexes, NEW w \in Offsets
  PROVE  DataWord(i, w)' = IF pulse'.write # NoWrite /\ pulse'.write.index = i /\ pulse'.write.word = w
                           THEN pulse'.write.item ELSE DataWord(i, w)
BY CycleIs, ArraysFollow DEF DataWord

LEMMA DataIsWritten ==
  ASSUME Cycle, NEW i \in Indexes, NEW w \in Offsets, NEW l, NEW v, NEW x \in Versions(l, v),
         pulse'.write = WriteOf(i, w, x)
  PROVE  \A j \in Indexes, u \in Offsets :
           DataWord(j, u)' = IF j = i /\ u = w THEN x ELSE DataWord(j, u)
<1>1. x # NoData
  BY DEF Versions, NoData
<1>2. WriteOf(i, w, x) # NoWrite
  BY <1>1 DEF WriteOf, NoWrite
<1>3. pulse'.write.index = i /\ pulse'.write.word = w /\ pulse'.write.item = x
  BY DEF WriteOf
<1> QED BY <1>2, <1>3, DataFollows

\* A line that is filled is not dirty in the cache: memory has it.
LEMMA FillsFromMemory ==
  ASSUME DCacheInv, RequestInv, CoherentInv, state \in {"refill", "drain", "c2c"}
  PROVE  /\ cur.line \in Used
         /\ \A w \in Offsets : mem[cur.line][w] = latest[cur.line][w]
<1>1. cur.line \in Used
  BY DEF RequestInv, DCacheInv, HartInv, IsNc
<1>2. states[Index(cur.line)] # "M"
  BY DEF DCacheInv, MissInv
<1>3. TagState(Index(cur.line)) # "M"
  BY <1>2, MissIsAlone, QuietArrays
<1> QED BY <1>1, <1>3 DEF CoherentInv, Dirty

\* No store comes between while a miss is past its snoop.
LEMMA FillKept ==
  ASSUME Cycle, RequestInv, FabInv, state \in {"evict", "wait", "refill", "drain", "c2c"},
         state' # "idle", NEW l \in Used, NEW w \in Offsets
  PROVE  latest'[l][w] = latest[l][w]
<1>1. ~AgentTakes(l)
  BY AgentsKeepOff DEF Filling
<1>2. ~HartStores(l)
  BY HartStoresHit DEF HartStores
<1> QED BY <1>1, <1>2, LatestKept

LEMMA FillStep ==
  ASSUME Cycle, HistoryInv, RequestInv, ReadInv, FillInv, FabInv, CoherentInv
  PROVE  FillInv'
<1>0. HartInv /\ FenceInv /\ Controller /\ state' = NextState
  BY CycleIs DEF Controller
<1>1. ASSUME state' \in {"refill", "drain"}, NEW w \in Offsets, w < rd'.word
      PROVE  DataWord(Index(cur.line), w)' = latest'[cur'.line][w]
  <2>1. state \in {"refill", "drain"}
    BY <1>1, ReadStep, CacheConstants DEF Offsets
  <2>2. /\ cur' = cur /\ cur.line \in Used /\ Index(cur.line) \in Indexes
        /\ latest'[cur.line][w] = latest[cur.line][w]
    BY <1>0, <1>1, <2>1, PulsesFollow, FillsFromMemory, UsedLines, FillKept DEF Cycle
  <2>3. rd'.word = IF Beat THEN rd.word + 1 ELSE rd.word
    BY <1>1, <2>1, ReadStep
  <2>4. rd.word \in Offsets /\ rd.word \in Int /\ w \in Int
    BY DEF ReadInv, Offsets
  <2>5. CASE Beat
    <3>1. pulse'.write = WriteOf(Index(cur.line), rd.word, BeatItem)
      BY <2>1, <2>5, WritesFollow DEF BeatWrite
    <3>2. BeatItem = mem[cur.line][rd.word] /\ BeatItem \in Versions(cur.line, rd.word)
      BY <2>2, <2>4 DEF BeatItem, HistoryInv
    <3>3. DataWord(Index(cur.line), w)' =
            IF w = rd.word THEN BeatItem ELSE DataWord(Index(cur.line), w)
      <4>1. \A j \in Indexes, u \in Offsets :
              DataWord(j, u)' = IF j = Index(cur.line) /\ u = rd.word THEN BeatItem
                                ELSE DataWord(j, u)
        BY <2>2, <2>4, <3>1, <3>2, DataIsWritten
      <4> QED BY <2>2, <4>1 DEF DataWord
    <3>4. CASE w = rd.word
      BY <2>1, <2>2, <3>2, <3>3, <3>4, FillsFromMemory DEF Cycle
    <3>5. CASE w # rd.word
      <4>1. w < rd.word
        BY <1>1, <2>3, <2>4, <2>5, <3>5
      <4> QED BY <2>1, <2>2, <3>3, <3>5, <4>1 DEF FillInv
    <3> QED BY <3>4, <3>5
  <2>6. CASE ~Beat
    <3>1. pulse'.write = NoWrite
      BY <2>1, <2>6, WritesFollow DEF BeatWrite
    <3>2. DataWord(Index(cur.line), w)' = DataWord(Index(cur.line), w)
      BY <2>2, <3>1, DataFollows DEF DataWord
    <3> QED BY <1>1, <2>1, <2>2, <2>3, <2>6, <3>2 DEF FillInv
  <2> QED BY <2>5, <2>6
<1>2. ASSUME state' = "c2c"
      PROVE  /\ fwd' # NoData /\ fillWord' \in Offsets
             /\ \A w \in Offsets : w < fillWord' =>
                  DataWord(Index(cur.line), w)' = latest'[cur'.line][w]
  <2>1. \/ state = "peer" /\ OwnAnswer /\ OwnHit
        \/ state = "wait" /\ fwd # NoData
        \/ state = "c2c" /\ ~FillDone
    BY <1>2, <1>0, StatesAreNamed DEF NextState
  <2>2. 0 \in Offsets /\ \A w \in Offsets : ~(w < 0)
    BY CacheConstants DEF Offsets
  <2>3. CASE state = "peer" /\ OwnAnswer /\ OwnHit
    BY <2>2, <2>3, AsksFollow DEF OwnHit
  <2>4. CASE state = "wait" /\ fwd # NoData
    BY <2>2, <2>4, AsksFollow DEF FillInv
  <2>5. CASE state = "c2c" /\ ~FillDone
    <3>1. /\ cur' = cur /\ cur.line \in Used /\ Index(cur.line) \in Indexes
          /\ \A w \in Offsets : latest'[cur.line][w] = latest[cur.line][w]
      BY <1>0, <1>2, <2>5, PulsesFollow, FillsFromMemory, UsedLines, FillKept DEF Cycle
    <3>2. /\ fwd' = fwd /\ fwd # NoData /\ fillWord' = fillWord + 1 /\ fillWord \in Offsets
          /\ Current(fwd, cur.line)
      BY <2>5, AsksFollow DEF FillInv
    <3>3. fillWord' \in Offsets
      BY <2>5, <3>2, CacheConstants DEF FillDone, Offsets
    <3>4. pulse'.write = WriteOf(Index(cur.line), fillWord, fwd[fillWord])
      BY <2>5, WritesFollow
    <3>5. fwd[fillWord] = latest[cur.line][fillWord] /\ fwd[fillWord] \in Versions(cur.line, fillWord)
      BY <3>1, <3>2 DEF Current, HistoryInv
    <3>6. ASSUME NEW w \in Offsets, w < fillWord'
          PROVE  DataWord(Index(cur.line), w)' = latest'[cur'.line][w]
      <4>1. DataWord(Index(cur.line), w)' =
              IF w = fillWord THEN fwd[fillWord] ELSE DataWord(Index(cur.line), w)
        BY <3>1, <3>2, <3>4, <3>5, DataIsWritten DEF DataWord
      <4>2. w # fillWord => w < fillWord
        BY <3>2, <3>6 DEF Offsets
      <4> QED BY <2>5, <3>1, <3>5, <4>1, <4>2 DEF FillInv
    <3> QED BY <3>2, <3>3, <3>6
  <2> QED BY <2>1, <2>3, <2>4, <2>5
<1>3. ASSUME fwd' # NoData
      PROVE  /\ state' \in {"evict", "wait", "c2c"}
             /\ \A w \in Offsets : fwd'[w] = latest'[cur'.line][w]
             /\ state' # "c2c" => fillWord' = 0
  <2>1. CASE state = "peer" /\ OwnAnswer
    <3>1. OwnHit
      BY <1>3, <2>1, AsksFollow DEF FillInv
    <3>2. fwd' = fab.data /\ fillWord' = 0 /\ cur' = cur /\ state' \in {"evict", "c2c"}
      BY <1>0, <2>1, <3>1, AsksFollow, PulsesFollow, StatesFollow
    <3>3. Current(fab.data, cur.line) /\ cur.line \in Used
      BY <2>1, <3>1, <1>0 DEF FabInv, OwnAnswer, OwnHit, RequestInv, HartInv, IsNc
    <3>4. ~AgentTakes(cur.line) /\ ~HartStores(cur.line)
      BY <2>1, HartStoresHit DEF AgentTakes, HartStores, OwnAnswer
    <3> QED BY <3>2, <3>3, <3>4, LatestKept DEF Current
  <2>2. CASE ~(state = "peer" /\ OwnAnswer)
    <3>1. fwd # NoData /\ fwd' = fwd
      BY <1>3, <2>2, AsksFollow
    <3>2. state \in {"evict", "wait", "c2c"} /\ Current(fwd, cur.line) /\ (state # "c2c" => fillWord = 0)
      BY <3>1 DEF FillInv
    <3>3. state = "c2c" => ~FillDone
      BY <1>3, AsksFollow
    <3>4. state' \in {"evict", "wait", "c2c"}
      BY <1>0, <3>1, <3>2, <3>3 DEF NextState
    <3>5. state' # "c2c" => state # "c2c"
      BY <1>0, <3>2, <3>3 DEF NextState
    <3>6. cur' = cur /\ cur.line \in Used
      BY <1>0, <3>2, PulsesFollow DEF RequestInv, HartInv, IsNc
    <3>7. \A w \in Offsets : latest'[cur.line][w] = latest[cur.line][w]
      BY <3>2, <3>4, <3>6, FillKept
    <3>8. state # "c2c" => fillWord' = fillWord
      BY <3>2, AsksFollow
    <3> QED BY <3>1, <3>2, <3>4, <3>5, <3>6, <3>7, <3>8 DEF Current
  <2> QED BY <2>1, <2>2
<1> QED BY <1>1, <1>2, <1>3 DEF FillInv, Current

-----------------------------------------------------------------------------
(***************************************************************************)
(* What the lookup of the tag array is about.                              *)
(***************************************************************************)

\* A snoop takes away no line that a read miss is about to write back: the
\* fabric asks for no other line of its set, and the line of the miss is not
\* in the cache.
LEMMA SnoopSparesVictim ==
  ASSUME DCacheInv, RequestInv, FabInv, AnswerInv, state = "peer", ~Here(cur.line), spulse.inval
  PROVE  Index(cur.line) # Index(sreq.line)
<1>1. spulse # NoSPulse
  BY DEF NoSPulse
<1>2. /\ Here(sreq.line) /\ ~sreq.read /\ sreq.line = fab.line /\ (sreq.read <=> fab.src = "read")
  BY <1>1 DEF AnswerInv
<1>3. fab.state = "wait"
  BY <1>1 DEF DCacheInv, SnoopInv
<1>4. fab.src = "inval"
  BY <1>2, <1>3 DEF FabInv
<1>5. req.kind = "load" /\ cur.line = req.line
  BY DEF DCacheInv, HartInv, RequestInv, IsStore, IsNc
<1> QED BY <1>2, <1>4, <1>5 DEF FabInv

LEMMA LookupStep ==
  ASSUME Cycle, RequestInv, LookInv, FabInv, AnswerInv
  PROVE  /\ state' = "lookup" /\ stable' =>
              /\ look'.hit <=> Here(cur.line)'
              /\ look'.tag = tags'[Index(cur'.line)]
         /\ state' = "peer" => /\ ~Here(cur.line)'
                               /\ localDirty' => states'[Index(cur'.line)] = "M"
<1>0. HartInv /\ FenceInv /\ SnoopInv /\ MissInv /\ Controller /\ state' = NextState /\ DCacheInv
  BY CycleIs DEF Controller, Cycle
<1>1. ASSUME state = "lookup"
      PROVE  /\ cur' = cur /\ cur.line \in Used /\ Index(cur.line) \in Indexes
             /\ states'[Index(cur.line)] = states[Index(cur.line)]
             /\ tags'[Index(cur.line)] = tags[Index(cur.line)]
             /\ LookAt = cur.line
  <2>1. cur' = cur /\ cur.line \in Used /\ Index(cur.line) \in Indexes
    BY <1>0, <1>1, PulsesFollow, UsedLines DEF RequestInv, HartInv, IsNc
  <2>2. ~fbusy /\ sstate = "idle"
    BY <1>0, <1>1, MissIsAlone, MissIsQuiet
  <2>3. LookAt = cur.line
    BY <1>1, <2>2 DEF LookAt, LookupActive, LookupLine, IdleHitCheck
  <2> QED BY <1>0, <1>1, <2>1, <2>3, MissIsAlone, QuietArrays, CycleIs, ArraysFollow
<1>2. ASSUME state' = "lookup", stable'
      PROVE  /\ look'.hit <=> Here(cur.line)'
             /\ look'.tag = tags'[Index(cur'.line)]
  <2>1. state = "lookup"
    BY <1>0, <1>2 DEF Controller
  <2>2. /\ look'.hit = (states[LookAt[2]] # "I" /\ tags[LookAt[2]] = LookAt[1])
        /\ look'.tag = tags[LookAt[2]]
    BY CycleIs DEF Arrays
  <2> QED BY <1>1, <2>1, <2>2 DEF Here, Index
<1>3. ASSUME state' = "peer"
      PROVE  /\ ~Here(cur.line)'
             /\ localDirty' => states'[Index(cur'.line)] = "M"
  <2>1. (state = "lookup" /\ Miss) \/ state = "peer"
    BY <1>0, <1>3, StatesAreNamed DEF NextState
  <2>2. CASE state = "lookup" /\ Miss
    <3>1. ~Here(cur.line)
      BY <2>2 DEF LookInv, Miss
    <3>2. localDirty' => states[Index(cur.line)] = "M"
      BY <1>0, <2>2, AsksFollow DEF MissInv, Miss
    <3> QED BY <1>1, <2>2, <3>1, <3>2 DEF Here
  <2>3. CASE state = "peer"
    <3> DEFINE c == Index(cur.line)
    <3>1. cur' = cur /\ cur.line \in Used /\ c \in Indexes
      BY <1>0, <2>3, PulsesFollow, UsedLines DEF RequestInv, HartInv, IsNc
    <3>2. fpulse = NoFPulse /\ Quiet(pulse)
      BY <1>0, <2>3, MissIsQuiet
    <3>3. states'[c] = TagState(c) /\ tags'[c] = TagAt(c)
      BY <3>1, CycleIs, ArraysFollow
    <3>4. /\ TagAt(c) = tags[c]
          /\ TagState(c) = IF spulse.shared /\ c = Index(sreq.line) /\ states[c] # "I" THEN "S"
                           ELSE IF spulse.inval /\ c = Index(sreq.line) THEN "I" ELSE states[c]
      BY <3>2 DEF TagAt, TagState, DirtyClear, DirtySet, Updated, Quiet, NoFPulse
    <3>5. ~Here(cur.line) /\ (localDirty => states[c] = "M")
      BY <2>3 DEF LookInv
    <3>6. ~Here(cur.line)'
      BY <3>1, <3>3, <3>4, <3>5 DEF Here
    <3>7. localDirty' = localDirty
      BY <2>3, AsksFollow
    <3>8. spulse.shared /\ c = Index(sreq.line) => states[c] = "E"
      BY <1>0 DEF SnoopInv
    <3>9. spulse.inval => c # Index(sreq.line)
      BY <1>0, <2>3, <3>5, SnoopSparesVictim
    <3> HIDE DEF c
    <3>10. localDirty => states'[c] = "M"
      BY <3>3, <3>4, <3>5, <3>8, <3>9
    <3> QED BY <3>1, <3>6, <3>7, <3>10 DEF c
  <2> QED BY <2>1, <2>2, <2>3
<1> QED BY <1>2, <1>3

\* The answer to the cache's own snoop comes while the controller waits for it.
LEMMA AnswerComes ==
  ASSUME Cycle, FabInv, fab'.state = "answer"
  PROVE  /\ fab.state = "wait" /\ spulse.resp /\ sstate = "idle"
         /\ fab'.src = fab.src /\ fab'.line = fab.line
         /\ state \in {"idle", "peer"} /\ ~Ready /\ ~OwnAnswer
         /\ fpulse = NoFPulse /\ ~fbusy
         /\ fab'.data \in IF spulse.hit THEN {sline}
                          ELSE IF fab.src = "own" THEN {NoData, mem[fab.line]} ELSE {NoData}
<1>0. HartInv /\ SnoopInv /\ FenceInv /\ Fabric
  BY CycleIs
<1>1. FabAnswer
  <2>1. ~FabReq
    <3>1. FabReq => \E s \in {"wait", "req"} : fab' = [fab EXCEPT !.state = s]
      BY DEF FabReq
    <3>2. FabReq => fab'.state \in {"wait", "req"}
      BY <3>1 DEF FabInv
    <3> QED BY <3>2
  <2>2. ~FabIdle /\ ~FabWait /\ ~FabEnd
    BY DEF FabIdle, FabWait, FabEnd, NoFab
  <2>3. ~FabOwn /\ ~FabAgent
    BY DEF FabOwn, FabAgent, Ask
  <2> QED BY <1>0, <2>1, <2>2, <2>3 DEF Fabric
<1>2. PICK d \in IF spulse.hit THEN {sline}
                 ELSE IF fab.src = "own" THEN {NoData, mem[fab.line]} ELSE {NoData} :
        fab' = [fab EXCEPT !.state = "answer", !.data = d]
  BY <1>1 DEF FabAnswer
<1>3. fab'.src = fab.src /\ fab'.line = fab.line /\ fab'.data = d
  BY <1>2 DEF FabInv
<1>4. fab.state = "wait" /\ spulse.resp /\ spulse # NoSPulse
  BY <1>1 DEF FabAnswer, NoSPulse
<1>5. state \in {"idle", "peer"} /\ sstate = "idle" /\ fpulse = NoFPulse /\ ~fbusy
  BY <1>0, <1>4 DEF SnoopInv, FenceInv
<1>6. ~Ready
  BY <1>0, <1>5, NoIdleHit DEF Ready
<1> QED BY <1>2, <1>3, <1>4, <1>5, <1>6 DEF OwnAnswer

LEMMA LookStep ==
  ASSUME Cycle, RequestInv, LookInv, FabInv, AnswerInv, FlushInv
  PROVE  LookInv'
<1>0. HartInv /\ FenceInv /\ SnoopInv /\ MissInv /\ DCacheInv
  BY CycleIs DEF Cycle
<1>1. LookAt[2] \in Indexes =>
        /\ look'.hit = (states[LookAt[2]] # "I" /\ tags[LookAt[2]] = LookAt[1])
        /\ look'.dirty = (states[LookAt[2]] = "M")
        /\ look'.tag = tags[LookAt[2]]
  BY CycleIs DEF Arrays
<1>2. ASSUME OwnAnswer' PROVE look'.tag = tags'[Index(cur'.line)]
  <2>1. fab'.state = "answer" /\ fab'.src = "own"
    BY <1>2 DEF OwnAnswer
  <2>2. fab.src = "own" /\ sstate = "idle"
    BY <2>1, AnswerComes
  <2>3. state = "peer"
    BY <2>2 DEF FabInv
  <2>4. cur' = cur /\ Index(cur.line) \in Indexes /\ fpulse = NoFPulse /\ Quiet(pulse) /\ ~fbusy
    BY <1>0, <2>3, CycleIs, PulsesFollow, MissIsQuiet, UsedLines DEF RequestInv, HartInv, IsNc
  <2>5. LookAt = cur.line
    BY <2>2, <2>3, <2>4 DEF LookAt, LookupActive, LookupLine, IdleHitCheck
  <2>6. tags'[Index(cur.line)] = tags[Index(cur.line)]
    BY <2>4, CycleIs, ArraysFollow DEF TagAt, Updated, Quiet
  <2> QED BY <1>1, <2>4, <2>5, <2>6 DEF Index
<1>3. ASSUME sstate' = "capture"
      PROVE  /\ look'.hit <=> Here(sreq.line)'
             /\ look'.dirty <=> states'[Index(sreq'.line)] = "M"
  <2>1. sstate = "lookup" /\ sreq' = sreq
    BY <1>3, CycleIs DEF Snoop, SnoopIdle, SnoopLookup, SnoopCapture, SnoopEvict
  <2>2. SnoopBusy /\ LookupActive
    BY <2>1 DEF SnoopBusy, LookupActive
  <2>3. Index(sreq.line) \in Indexes
    BY <1>0, LinesAreLines DEF HartInv
  <2>4. LookAt = sreq.line
    BY <1>0, <2>2, SnoopIsQuiet DEF LookAt
  <2>5. states'[Index(sreq.line)] = states[Index(sreq.line)] /\ tags'[Index(sreq.line)] = tags[Index(sreq.line)]
    BY <1>0, <2>2, <2>3, SnoopIsQuiet, QuietArrays, CycleIs, ArraysFollow
  <2> QED BY <1>1, <2>1, <2>3, <2>4, <2>5 DEF Index, Here
<1>4. ASSUME fstate' = "tagwait" PROVE look'.tag = tags'[findex']
  <2>1. fstate = "settle" /\ findex' = findex
    BY <1>4, CycleIs DEF Flush, FlushIdle, FlushScan, FlushSettle, FlushTagWait, FlushEvict, FlushDone
  <2>2. fbusy /\ Quiet(pulse) /\ findex \in Indexes
    BY <1>0, <2>1 DEF FenceInv, FlushInv
  <2>3. LookAt = <<NoTag, findex>>
    BY <2>2 DEF LookAt
  <2>4. tags'[findex] = tags[findex]
    BY <2>2, CycleIs, ArraysFollow DEF TagAt, Updated, Quiet
  <2> QED BY <1>1, <2>1, <2>2, <2>3, <2>4
<1> QED BY <1>2, <1>3, <1>4, LookupStep DEF LookInv

-----------------------------------------------------------------------------
(***************************************************************************)
(* The fabric, and what the cache answers.                                 *)
(***************************************************************************)
LEMMA FabShape ==
  ASSUME Cycle, FabInv, RequestInv
  PROVE  /\ fab' = [state |-> fab'.state, src |-> fab'.src, line |-> fab'.line, data |-> fab'.data]
         /\ fab'.state \in {"idle", "req", "wait", "answer"}
         /\ fab'.src \in IF fab'.state = "idle" THEN {"none"} ELSE {"own", "read", "inval"}
         /\ fab.state \in {"req", "wait"} =>
              fab'.src = fab.src /\ fab'.line = fab.line /\ fab'.state # "idle"
         /\ fab.state = "idle" =>
              \/ fab'.state = "idle"
              \/ fab'.src = "own" /\ pulse.missReq /\ fab'.line = cur.line
              \/ fab'.src \in {"read", "inval"} /\ fab'.line \in Snooped
         /\ fab.state = "answer" => fab'.state = "idle"
<1>1. /\ fab = [state |-> fab.state, src |-> fab.src, line |-> fab.line, data |-> fab.data]
      /\ fab.state \in {"idle", "req", "wait", "answer"}
      /\ fab.src \in IF fab.state = "idle" THEN {"none"} ELSE {"own", "read", "inval"}
  BY DEF FabInv
<1>2. CASE FabIdle
  <2>1. fab' = fab /\ fab.state = "idle"
    BY <1>2 DEF FabIdle
  <2> QED BY <1>1, <2>1
<1>3. CASE FabOwn
  BY <1>3 DEF FabOwn, Ask
<1>4. CASE FabAgent
  <2>1. PICK src \in {"read", "inval"}, l \in Snooped : Ask(src, l)
    BY <1>4 DEF FabAgent
  <2> QED BY <1>4, <2>1 DEF FabAgent, Ask
<1>5. CASE FabReq
  <2>1. PICK s \in {"wait", "req"} : fab' = [fab EXCEPT !.state = s]
    BY <1>5 DEF FabReq
  <2>2. fab' = [state |-> s, src |-> fab.src, line |-> fab.line, data |-> fab.data]
    BY <1>1, <2>1
  <2> QED BY <1>1, <1>5, <2>2 DEF FabReq
<1>6. CASE FabWait
  <2>1. fab' = fab /\ fab.state = "wait"
    BY <1>6 DEF FabWait
  <2> QED BY <1>1, <2>1
<1>7. CASE FabAnswer
  <2>1. PICK d : fab' = [fab EXCEPT !.state = "answer", !.data = d]
    BY <1>7 DEF FabAnswer
  <2>2. fab' = [state |-> "answer", src |-> fab.src, line |-> fab.line, data |-> d]
    BY <1>1, <2>1
  <2> QED BY <1>1, <1>7, <2>2 DEF FabAnswer
<1>8. CASE FabEnd
  BY <1>8 DEF FabEnd, NoFab
<1> QED BY <1>2, <1>3, <1>4, <1>5, <1>6, <1>7, <1>8, CycleIs DEF Fabric

\* What has been taken away, or was not there, is not held when the answer is given.
LEMMA TakenAway ==
  ASSUME Cycle, FabInv, RequestInv, AnswerInv, fab'.state = "answer", fab'.src = "inval"
  PROVE  ~Held(fab.line)'
<1>0. HartInv /\ SnoopInv /\ FenceInv /\ Controller
  BY CycleIs
<1>1. /\ fab.state = "wait" /\ spulse.resp /\ fab.src = "inval" /\ fab'.line = fab.line
      /\ state \in {"idle", "peer"} /\ fpulse = NoFPulse
  BY AnswerComes
<1>2. spulse # NoSPulse
  BY <1>1 DEF NoSPulse
<1>3. PICK l \in Used : l = fab.line
  BY <1>1 DEF FabInv
<1>4. SUFFICES ASSUME Held(l)' PROVE FALSE
  BY <1>1, <1>3 DEF Held
<1>5. ~pulse'.tagUpdate /\ ~pulse'.dirtySet
  BY <1>0, <1>1, PulsesFollow
<1>6. Held(l) /\ Quiet(pulse)
  BY <1>0, <1>2, <1>4, <1>5, HeldBefore DEF SnoopInv
<1>7. sreq.line = l /\ ~sreq.read /\ ~spulse.shared
  BY <1>1, <1>2, <1>3 DEF AnswerInv
<1>8. /\ TagAt(Index(l)) = tags[Index(l)]
      /\ TagState(Index(l)) = IF spulse.inval THEN "I" ELSE states[Index(l)]
  BY <1>1, <1>6, <1>7 DEF TagAt, TagState, DirtyClear, DirtySet, Updated, Quiet, NoFPulse
<1>9. ~spulse.inval => ~Here(l)
  BY <1>1, <1>7 DEF AnswerInv
<1> QED BY <1>6, <1>8, <1>9 DEF Held, Here

LEMMA FabStep ==
  ASSUME Cycle, "victim" \notin Windows, RequestInv, FabInv, AnswerInv, LookInv, CoherentInv
  PROVE  FabInv'
<1>0. HartInv /\ SnoopInv /\ FenceInv /\ Controller /\ state' = NextState /\ DCacheInv
  BY CycleIs DEF Controller, Cycle
<1>1. fab'.src \in {"read", "inval"} => fab'.line \in Used
  <2>1. Snooped \subseteq Used
    BY CacheConstants
  <2> QED BY <2>1, FabShape DEF FabInv
<1>2. state = "peer" /\ ~OwnAnswer => state' = "peer" /\ cur' = cur
  BY <1>0, StatesFollow, PulsesFollow
<1>3. fab'.src = "own" => state' = "peer" /\ fab'.line = cur'.line
  <2> SUFFICES ASSUME fab'.src = "own" PROVE state' = "peer" /\ fab'.line = cur'.line
    OBVIOUS
  <2>1. fab.state # "answer" /\ fab'.state # "idle"
    BY FabShape
  <2>2. state = "peer" /\ fab'.line = cur.line
    <3>1. CASE fab.state = "idle"
      BY <2>1, <3>1, FabShape DEF FabInv
    <3>2. CASE fab.state \in {"req", "wait"}
      BY <3>2, FabShape DEF FabInv
    <3> QED BY <2>1, <3>1, <3>2 DEF FabInv
  <2> QED BY <1>2, <2>1, <2>2 DEF OwnAnswer
<1>4. pulse'.missReq => state' = "peer"
  BY <1>2, AsksFollow
<1>5. fab'.src = "inval" /\ req'.kind = "load" =>
        fab'.line = req'.line \/ Index(fab'.line) # Index(req'.line)
  BY CycleIs DEF Apart
<1>6. ASSUME fab'.state = "answer", fab'.src = "inval"
      PROVE  /\ ~Held(fab.line)'
             /\ state' \notin {"evict", "wait", "refill", "drain", "c2c"}
  <2>1. state \in {"idle", "peer"} /\ ~OwnAnswer
    BY <1>6, AnswerComes
  <2>2. state' \notin {"evict", "wait", "refill", "drain", "c2c"}
    BY <1>0, <2>1, StatesFollow
  <2> QED BY <1>6, <2>2, TakenAway
<1>7. ASSUME OwnAnswer' PROVE fab'.data = NoData \/ Current(fab.data, fab.line)'
  <2>1. fab'.state = "answer" /\ fab'.src = "own"
    BY <1>7 DEF OwnAnswer
  <2>2. /\ fab.state = "wait" /\ spulse.resp /\ fab.src = "own" /\ fab'.line = fab.line /\ ~Ready
        /\ fab'.data \in IF spulse.hit THEN {sline} ELSE {NoData, mem[fab.line]}
    BY <2>1, AnswerComes
  <2>3. state = "peer" /\ fab.line = cur.line /\ spulse # NoSPulse /\ cur.line \in Used
    BY <1>0, <2>2 DEF FabInv, NoSPulse, RequestInv, HartInv, IsNc
  <2>4. spulse.hit => Current(sline, fab.line)
    BY <2>3 DEF AnswerInv
  <2>5. Current(mem[cur.line], cur.line)
    <3>1. fpulse = NoFPulse /\ Quiet(pulse)
      BY <1>0, <2>3, MissIsQuiet
    <3>2. TagState(Index(cur.line)) = "M" => states[Index(cur.line)] = "M"
      BY <3>1 DEF TagState, DirtyClear, DirtySet, Updated, Quiet, NoFPulse
    <3>3. TagAt(Index(cur.line)) = tags[Index(cur.line)]
      BY <3>1 DEF TagAt, Updated, Quiet
    <3>4. ~Dirty(cur.line)
      BY <2>3, <3>2, <3>3 DEF Dirty, Here, LookInv
    <3> QED BY <2>3, <3>4 DEF Current, CoherentInv
  <2>6. \A w \in Offsets : latest'[cur.line][w] = latest[cur.line][w]
    BY <2>2, <2>3, LatestKept DEF AgentTakes, HartStores
  <2> QED BY <2>2, <2>3, <2>4, <2>5, <2>6 DEF Current
<1> QED BY <1>1, <1>3, <1>4, <1>5, <1>6, <1>7, FabShape DEF FabInv

\* The block that the snoop unit reads is current when the line is here.
LEMMA SnoopReads ==
  ASSUME DCacheInv, RequestInv, CoherentInv, ArrayInv, sstate = "capture", sreq.line \in Used,
         Here(sreq.line)
  PROVE  Block(ReadAll) = [w \in Offsets |-> latest[sreq.line][w]]
<1>1. SnoopBusy /\ LookupActive
  BY DEF SnoopBusy, LookupActive
<1>2. /\ fpulse = NoFPulse /\ Quiet(pulse) /\ ~fbusy /\ ~spulse.shared /\ ~spulse.inval
      /\ state \in {"idle", "peer"}
  BY <1>1, SnoopIsQuiet
<1>3. Held(sreq.line) /\ ~Filling /\ ~pulse.deferred
  BY <1>2, QuietArrays DEF Held, Here, Filling, RequestInv, Quiet
<1>4. \A w \in Offsets : DataWord(Index(sreq.line), w) = latest[sreq.line][w]
  BY <1>3 DEF CoherentInv, WordAt
<1>5. ReadAll = Index(sreq.line)
  BY <1>1, <1>2 DEF ReadAll
<1> QED BY <1>4, <1>5 DEF Block

LEMMA AnswerStep ==
  ASSUME Cycle, RequestInv, FabInv, AnswerInv, LookInv, CoherentInv, ArrayInv, TransferInv
  PROVE  AnswerInv'
<1>0. HartInv /\ SnoopInv /\ FenceInv /\ Snoop /\ DCacheInv
  BY CycleIs DEF Cycle
<1>1. CASE ~SnoopBusy /\ ~(SnoopReq /\ SnoopReady)
  <2>1. sstate' = "idle" /\ spulse' = NoSPulse
    BY <1>0, <1>1 DEF Snoop, SnoopIdle, SnoopLookup, SnoopCapture, SnoopEvict, SnoopBusy
  <2> QED BY <2>1 DEF AnswerInv, NoSPulse
<1>2. CASE SnoopReq /\ SnoopReady
  <2>1. /\ sstate' = "lookup" /\ spulse' = NoSPulse
        /\ sreq' = [line |-> fab.line, read |-> fab.src = "read"]
    BY <1>0, <1>2 DEF Snoop, SnoopIdle, SnoopLookup, SnoopCapture, SnoopEvict, SnoopReady
  <2>2. fab.state = "req" /\ fab'.line = fab.line /\ fab'.src = fab.src
    BY <1>2, FabShape DEF SnoopReq
  <2>3. fab.line \in Used
    BY <1>0, <2>2 DEF FabInv, RequestInv, HartInv, IsNc
  <2> QED BY <2>1, <2>2, <2>3 DEF AnswerInv, NoSPulse
<1>3. CASE SnoopBusy
  <2> DEFINE l == sreq.line
  <2>1. /\ fpulse = NoFPulse /\ Quiet(pulse) /\ ~fbusy /\ ~spulse.shared /\ ~spulse.inval
        /\ state \in {"idle", "peer"} /\ fab.state = "wait" /\ ~Ready
    BY <1>0, <1>3, SnoopIsQuiet
  <2>2. fab'.line = fab.line /\ fab'.src = fab.src
    BY <2>1, FabShape
  <2>3. l = fab.line /\ l \in Used /\ (sreq.read <=> fab.src = "read")
    BY <1>3 DEF SnoopBusy, AnswerInv
  <2>4. sreq' = sreq
    BY <1>0, <1>3 DEF Snoop, SnoopIdle, SnoopLookup, SnoopCapture, SnoopEvict, SnoopBusy
  <2>5. \A w \in Offsets : latest'[l][w] = latest[l][w]
    BY <2>1, <2>3, LatestKept DEF AgentTakes, HartStores
  <2>6. states'[Index(l)] = states[Index(l)] /\ tags'[Index(l)] = tags[Index(l)]
    BY <2>1, <2>3, UsedLines, CycleIs, ArraysFollow, QuietArrays
  <2>7. Here(sreq.line)' <=> Here(sreq.line)
    BY <2>4, <2>6 DEF Here
  <2>8. CASE SnoopLookup
    <3>1. sstate' = "capture" /\ spulse' = NoSPulse
      BY <2>8 DEF SnoopLookup
    <3> QED BY <2>2, <2>3, <2>4, <3>1 DEF AnswerInv, NoSPulse
  <2>9. CASE SnoopCapture
    <3>1. sstate = "capture" /\ sline' = Block(ReadAll)
      BY <2>9 DEF SnoopCapture
    <3>2. look.hit <=> Here(l)
      BY <3>1 DEF LookInv
    <3>3. look.hit => Current(sline, sreq.line)'
      BY <1>0, <2>3, <2>4, <2>5, <3>1, <3>2, SnoopReads DEF Current
    <3>6. sline' = [w \in Offsets |-> sline'[w]]
      BY <3>1 DEF Block
    <3>4. CASE look.hit /\ look.dirty /\ ~sreq.read
      <4>1. sstate' = "evict" /\ spulse' = [NoSPulse EXCEPT
                 !.evict = [line |-> sreq.line, data |-> Block(ReadAll), nc |-> FALSE]]
        BY <2>9, <3>4 DEF SnoopCapture
      <4>2. ~spulse'.resp /\ ~spulse'.hit /\ ~spulse'.inval /\ ~spulse'.shared
        BY <4>1 DEF NoSPulse
      <4> QED BY <2>2, <2>3, <2>4, <3>3, <3>4, <3>6, <4>1, <4>2 DEF AnswerInv
    <3>5. CASE ~(look.hit /\ look.dirty /\ ~sreq.read)
      <4>1. sstate' = "idle" /\ spulse' = [NoSPulse EXCEPT !.resp = TRUE, !.hit = look.hit,
                          !.shared = look.hit /\ sreq.read /\ look.state = "E",
                          !.inval = look.hit /\ ~sreq.read]
        BY <2>9, <3>5 DEF SnoopCapture
      <4>2. /\ spulse'.resp = TRUE /\ spulse'.hit = look.hit
            /\ spulse'.shared = (look.hit /\ sreq.read /\ look.state = "E")
            /\ spulse'.inval = (look.hit /\ ~sreq.read)
        BY <4>1 DEF NoSPulse
      <4> QED BY <2>2, <2>3, <2>4, <2>7, <3>2, <3>3, <3>6, <4>1, <4>2 DEF AnswerInv
    <3> QED BY <3>4, <3>5
  <2>10. CASE SnoopEvict
    <3>1. sstate = "evict" /\ sline' = sline /\ ~sreq.read
      BY <2>10 DEF SnoopEvict, AnswerInv
    <3>2. Current(sline, sreq.line)'
      BY <2>4, <2>5, <3>1 DEF AnswerInv, Current
    <3>3. Here(l)
      BY <1>0, <2>1, <3>1 DEF TransferInv, Writing, Leaving, FenceInv
    <3>4. CASE evictDone
      <4>1. sstate' = "idle" /\ spulse' = [NoSPulse EXCEPT !.resp = TRUE, !.hit = TRUE, !.inval = TRUE]
        BY <2>10, <3>4 DEF SnoopEvict
      <4>2. spulse'.resp = TRUE /\ spulse'.hit = TRUE /\ spulse'.inval = TRUE /\ spulse'.shared = FALSE
        BY <4>1 DEF NoSPulse
      <4> QED BY <2>2, <2>3, <2>4, <2>7, <3>1, <3>2, <3>3, <4>1, <4>2 DEF AnswerInv
    <3>5. CASE ~evictDone
      <4>1. sstate' = "evict" /\ spulse' = NoSPulse
        BY <2>10, <3>5 DEF SnoopEvict
      <4> QED BY <2>2, <2>3, <2>4, <3>1, <3>2, <4>1 DEF AnswerInv, NoSPulse
    <3> QED BY <3>4, <3>5
  <2> QED BY <1>0, <1>3, <2>8, <2>9, <2>10 DEF Snoop, SnoopIdle, SnoopBusy
<1> QED BY <1>1, <1>2, <1>3

-----------------------------------------------------------------------------
(***************************************************************************)
(* The fence unit.                                                         *)
(***************************************************************************)
LEMMA LowestIsLeast ==
  ASSUME NEW S \in SUBSET Nat, S # {}
  PROVE  Lowest(S) \in S
<1> DEFINE R == {p \in Nat \X Nat : p[1] < p[2]}
<1>1. IsWellFoundedOn(R, Nat)
  BY NatLessThanWellFounded DEF OpToRel
<1> HIDE DEF R
<1>2. PICK x \in S : \A y \in S : <<y, x>> \notin R
  BY <1>1, WFMin
<1>3. \A y \in S : ~(y < x)
  BY <1>2 DEF R
<1>4. x \in S /\ \A y \in S : x <= y
  BY <1>3
<1> QED BY <1>4 DEF Lowest

\* A line that is held is not stored in while the hart gets no answer.
LEMMA HeldKept ==
  ASSUME Cycle, FabInv, NEW l \in Used, Held(l), ~HartStores(l), NEW w \in Offsets
  PROVE  latest'[l][w] = latest[l][w] /\ ~AgentTakes(l)
BY LatestKept, AgentsKeepOff

\* A line that is here is held, and its words are current, while a fence or a
\* miss before its refill is at work on it.
LEMMA HereIsHeld ==
  ASSUME DCacheInv, RequestInv, CoherentInv, ArrayInv, FlushInv, NEW i \in Indexes,
         states[i] # "I", Quiet(pulse), ~spulse.inval, fstate # "idle" \/ fpulse = NoFPulse, ~Filling
  PROVE  /\ <<tags[i], i>> \in Used /\ Held(<<tags[i], i>>)
         /\ \A w \in Offsets : DataWord(i, w) = latest[<<tags[i], i>>][w]
<1>1. ~fpulse.invAll /\ ~pulse.deferred
  BY DEF FlushInv, NoFPulse, RequestInv, Quiet
<1>2. TagState(i) # "I" /\ TagAt(i) = tags[i]
  BY <1>1 DEF TagState, TagAt, DirtySet, Updated, Quiet
<1>3. <<tags[i], i>> \in Used /\ Index(<<tags[i], i>>) = i /\ <<tags[i], i>>[1] = tags[i]
  BY DEF ArrayInv, Index
<1>4. Held(<<tags[i], i>>)
  BY <1>2, <1>3 DEF Held
<1> QED BY <1>1, <1>3, <1>4 DEF CoherentInv, WordAt

LEMMA FlushStep ==
  ASSUME Cycle, "dirty" \notin Windows, RequestInv, CoherentInv, ArrayInv, FlushInv, FabInv
  PROVE  FlushInv'
<1>0. /\ HartInv /\ FenceInv /\ BitmapInv /\ BitmapInv' /\ Flush /\ DCacheInv
      /\ bitmap' = Tracked /\ findex \in Indexes
  BY CycleIs DEF Flush, Cycle, FlushInv
<1>1. fence' \in Fences \cup {{}}
  BY CycleIs DEF Hart, HartWait, HartEnd, HartFence, HartIdle, HartRequest, hart, FlushInv
<1>2. fence' = {"inval"} => ~pulse'.dirtySet /\ bitmap' = {}
  BY <1>0, CycleIs DEF Apart, BitmapInv
<1>3. bitmap = {} /\ ~pulse.dirtySet => bitmap' = {}
  BY <1>0 DEF Tracked
<1>4. fbusy => Quiet(pulse) /\ ~pulse.dirtySet /\ spulse = NoSPulse /\ state = "idle" /\ ~Ready
  BY <1>0 DEF FenceInv, Quiet, Ready
<1>5. ASSUME NEW i \in Indexes, fbusy, fstate # "idle", states[i] # "I"
      PROVE  states'[i] # "I" /\ tags'[i] = tags[i]
  <2>1. ~fpulse.invAll
    BY <1>5 DEF FlushInv
  <2>2. states'[i] = TagState(i) /\ tags'[i] = TagAt(i)
    BY CycleIs, ArraysFollow
  <2>3. Quiet(pulse) /\ ~spulse.inval
    BY <1>4, <1>5 DEF NoSPulse
  <2> QED BY <1>5, <2>1, <2>2, <2>3 DEF TagState, TagAt, DirtySet, Updated, Quiet
<1>6. CASE FlushIdle
  <2>1. fpulse' = NoFPulse /\ findex' = findex /\ fstate' \in {"idle", "scan", "done"}
    BY <1>6 DEF FlushIdle
  <2>2. fstate' = "done" => fence = {"inval"}
    <3>1. fence \subseteq {"flush", "inval"}
      BY CacheConstants DEF FlushInv
    <3>2. fstate' = "done" => fence # {} /\ "flush" \notin fence
      BY <1>6 DEF FlushIdle
    <3> QED BY <3>1, <3>2
  <2>3. fstate' = "done" => bitmap' = {}
    BY <1>3, <2>2 DEF FlushInv
  <2> QED BY <1>0, <1>1, <1>2, <2>1, <2>3 DEF FlushInv, NoFPulse
<1>7. CASE FlushScan
  <2>1. fpulse' = NoFPulse /\ fstate = "scan" /\ fbusy
    BY <1>0, <1>7 DEF FlushScan, FenceInv
  <2>2. CASE bitmap = {}
    <3>1. fstate' = "done" /\ findex' = findex /\ bitmap' = {}
      BY <1>3, <1>4, <1>7, <2>1, <2>2 DEF FlushScan
    <3> QED BY <1>0, <1>1, <1>2, <2>1, <3>1 DEF FlushInv, NoFPulse
  <2>3. CASE bitmap # {}
    <3>1. fstate' = "settle" /\ findex' = Lowest(bitmap)
      BY <1>7, <2>3 DEF FlushScan
    <3>2. bitmap \subseteq Indexes /\ Indexes \subseteq Nat
      BY <1>0, CacheConstants DEF BitmapInv
    <3>3. findex' \in bitmap
      BY <2>3, <3>1, <3>2, LowestIsLeast
    <3>4. findex' \in Indexes /\ states[findex'] # "I"
      BY <1>0, <3>3 DEF BitmapInv
    <3>5. states'[findex'] # "I"
      BY <1>5, <2>1, <3>4
    <3> QED BY <1>0, <1>1, <1>2, <2>1, <3>1, <3>4, <3>5 DEF FlushInv, NoFPulse
  <2> QED BY <2>2, <2>3
<1>8. CASE FlushSettle
  <2>1. /\ fstate = "settle" /\ fstate' = "tagwait" /\ fdata' = Block(ReadAll) /\ findex' = findex
        /\ fpulse' = NoFPulse
    BY <1>8 DEF FlushSettle
  <2>2. fbusy /\ states[findex] # "I" /\ ReadAll = findex
    BY <1>0, <2>1 DEF FenceInv, FlushInv, ReadAll
  <2>3. states'[findex] # "I" /\ tags'[findex] = tags[findex]
    BY <1>0, <1>5, <2>1, <2>2
  <2> DEFINE l == <<tags[findex], findex>>
  <2>4. /\ l \in Used /\ Held(l)
        /\ \A w \in Offsets : DataWord(findex, w) = latest[l][w]
    BY <1>0, <1>4, <2>1, <2>2, HereIsHeld DEF NoSPulse, Filling
  <2>5. \A w \in Offsets : latest'[l][w] = latest[l][w]
    BY <1>4, <2>2, <2>4, HeldKept DEF HartStores
  <2>6. Current(fdata, <<tags[findex], findex>>)'
    BY <2>1, <2>2, <2>3, <2>4, <2>5 DEF Current, Block
  <2> QED BY <1>0, <1>1, <1>2, <2>1, <2>3, <2>6 DEF FlushInv, NoFPulse
<1>9. CASE FlushTagWait
  <2>1. fstate = "tagwait" /\ fstate' = "evict" /\ findex' = findex
    BY <1>9 DEF FlushTagWait
  <2>2. fpulse'.invAll = FALSE /\ fpulse'.flushAll = FALSE
    BY <1>9 DEF FlushTagWait, NoFPulse
  <2>3. states'[findex] # "I"
    BY <1>0, <1>5, <2>1 DEF FlushInv, FenceInv
  <2> QED BY <1>0, <1>1, <1>2, <2>1, <2>2, <2>3 DEF FlushInv
<1>10. CASE FlushEvict
  <2>1. fstate = "evict" /\ fstate' \in {"evict", "scan"} /\ findex' = findex
    BY <1>10 DEF FlushEvict
  <2>2. fpulse'.invAll = FALSE /\ fpulse'.flushAll = FALSE
    BY <1>10 DEF FlushEvict, NoFPulse
  <2>3. states'[findex] # "I"
    BY <1>0, <1>5, <2>1 DEF FlushInv, FenceInv
  <2> QED BY <1>0, <1>1, <1>2, <2>1, <2>2, <2>3 DEF FlushInv
<1>11. CASE FlushDone
  <2>1. fstate = "done" /\ fstate' = "idle" /\ findex' = 0
    BY <1>11 DEF FlushDone
  <2>2. bitmap' = {}
    BY <1>0, <1>3, <1>4, <2>1 DEF FlushInv, FenceInv
  <2> QED BY <1>1, <1>2, <2>1, <2>2, CacheConstants DEF FlushInv
<1> QED BY <1>0, <1>6, <1>7, <1>8, <1>9, <1>10, <1>11 DEF Flush

LEMMA ArrayStep ==
  ASSUME Cycle, RequestInv, ArrayInv
  PROVE  ArrayInv'
<1>0. HartInv /\ FenceInv /\ Arrays
  BY CycleIs
<1>1. ASSUME NEW i \in Indexes
      PROVE  /\ tags'[i] \in Tags /\ states'[i] \in {"I", "S", "E", "M"}
             /\ states'[i] # "I" => <<tags'[i], i>> \in Used
             /\ data'[i] = [w \in Offsets |-> data'[i][w]]
  <2>1. /\ states'[i] = TagState(i) /\ tags'[i] = TagAt(i)
        /\ data'[i] = [w \in Offsets |-> data'[i][w]]
    BY <1>0, ArraysFollow
  <2>2. tags[i] \in Tags /\ states[i] \in {"I", "S", "E", "M"} /\ (states[i] # "I" => <<tags[i], i>> \in Used)
    BY DEF ArrayInv
  <2>3. TagState(i) \in {"I", "S", "E", "M"}
    BY <2>2 DEF TagState
  <2>4. CASE Updated(i)
    <3>1. fpulse = NoFPulse /\ i = Index(cur.line) /\ cur.line \in Used
      BY <1>0, <2>4 DEF Updated, FenceInv, Quiet, RequestInv
    <3>2. TagAt(i) = cur.line[1] /\ <<cur.line[1], i>> = cur.line /\ cur.line[1] \in Tags
      BY <2>4, <3>1, UsedLines DEF TagAt, NoFPulse
    <3> QED BY <2>1, <2>3, <3>1, <3>2
  <2>5. CASE ~Updated(i)
    <3>1. TagAt(i) = tags[i]
      BY <2>5 DEF TagAt
    <3>2. DirtySet(i) => states[i] # "I"
      <4> SUFFICES ASSUME DirtySet(i) PROVE states[i] # "I"
        OBVIOUS
      <4>1. pulse.dirtySet /\ fpulse = NoFPulse /\ i = Index(cur.line)
        BY <1>0 DEF DirtySet, FenceInv, Quiet, DirtyIndex, NoFPulse
      <4> QED BY <2>5, <4>1 DEF RequestInv, Updated, Here
    <3>3. TagState(i) # "I" => states[i] # "I"
      BY <2>5, <3>2 DEF TagState
    <3> QED BY <2>1, <2>2, <2>3, <3>1, <3>3
  <2> QED BY <2>4, <2>5
<1>2. tags' = [i \in Indexes |-> tags'[i]] /\ states' = [i \in Indexes |-> states'[i]]
  BY <1>0 DEF Arrays
<1> QED BY <1>1, <1>2 DEF ArrayInv

-----------------------------------------------------------------------------
(***************************************************************************)
(* A line that is written back.                                            *)
(***************************************************************************)

\* The line stays in its set and its words stay the latest until the engine is done.
LEMMA LeavingStays ==
  ASSUME Cycle, RequestInv, LookInv, FabInv, AnswerInv, TransferInv, FlushInv, ArrayInv, CoherentInv,
         Writing, ~evictDone
  PROVE  /\ Writing' /\ Leaving' = Leaving /\ Here(Leaving)' /\ Starters' = {} /\ Held(Leaving)
         /\ ~AgentTakes(Leaving)
         /\ \A w \in Offsets : latest'[Leaving][w] = latest[Leaving][w]
<1>0. HartInv /\ FenceInv /\ SnoopInv /\ MissInv /\ Controller /\ state' = NextState /\ DCacheInv
      /\ FenceInv' /\ SnoopInv' /\ Flush /\ Snoop
  BY CycleIs DEF Controller, Cycle
<1>1. Starters' = {}
  BY CycleIs, OwnerStays DEF Owned, Writing
<1>2. PICK l \in Used : l = Leaving /\ Here(l)
  BY DEF TransferInv
<1>3. Index(l) \in Indexes
  BY UsedLines
<1>4. CASE fstate = "evict"
  <2>1. fbusy /\ Quiet(pulse) /\ spulse = NoSPulse /\ state = "idle" /\ ~Ready
    BY <1>0, <1>4 DEF FenceInv, Ready
  <2>2. fstate' = "evict" /\ findex' = findex
    BY <1>0, <1>4 DEF Flush, FlushIdle, FlushScan, FlushSettle, FlushTagWait, FlushEvict, FlushDone
  <2>3. l = <<tags[findex], findex>> /\ findex \in Indexes /\ states[findex] # "I"
    BY <1>2, <1>4 DEF Leaving, FlushInv
  <2>4. states'[findex] # "I" /\ tags'[findex] = tags[findex]
    <3>1. ~fpulse.invAll
      BY <1>4 DEF FlushInv
    <3>2. states'[findex] = TagState(findex) /\ tags'[findex] = TagAt(findex)
      BY <2>3, CycleIs, ArraysFollow
    <3> QED BY <2>1, <2>3, <3>1, <3>2 DEF TagState, TagAt, DirtySet, Updated, Quiet, NoSPulse
  <2>5. Held(l)
    BY <1>0, <1>4, <2>1, <2>3, HereIsHeld DEF NoSPulse, Filling
  <2>6. \A w \in Offsets : latest'[l][w] = latest[l][w]
    BY <2>1, <2>5, HeldKept DEF HartStores
  <2>7. Leaving' = l /\ Writing'
    BY <2>2, <2>3, <2>4 DEF Leaving, Writing
  <2>8. Here(l)'
    BY <2>3, <2>4 DEF Here, Index
  <2> QED BY <1>1, <1>2, <2>5, <2>6, <2>7, <2>8, AgentsKeepOff DEF Here
<1>5. CASE fstate # "evict" /\ sstate = "evict"
  <2>1. SnoopBusy
    BY <1>5 DEF SnoopBusy
  <2>2. /\ fpulse = NoFPulse /\ Quiet(pulse) /\ ~fbusy /\ ~spulse.shared /\ ~spulse.inval
        /\ fab.state = "wait" /\ ~Ready
    BY <1>0, <2>1, SnoopIsQuiet
  <2>3. sstate' = "evict" /\ sreq' = sreq /\ l = sreq.line
    BY <1>0, <1>2, <1>5 DEF Snoop, SnoopIdle, SnoopLookup, SnoopCapture, SnoopEvict, Leaving
  <2>4. fstate' # "evict"
    BY <1>0, <2>3 DEF FenceInv
  <2>5. Leaving' = l /\ Writing'
    BY <2>3, <2>4 DEF Leaving, Writing
  <2>6. states'[Index(l)] = states[Index(l)] /\ tags'[Index(l)] = tags[Index(l)]
    BY <1>3, <2>2, CycleIs, ArraysFollow, QuietArrays
  <2>7. Here(l)' /\ Held(l)
    BY <1>2, <1>3, <2>2, <2>6, QuietArrays DEF Here, Held
  <2>8. \A w \in Offsets : latest'[l][w] = latest[l][w]
    BY <2>2, <2>7, HeldKept DEF HartStores
  <2> QED BY <1>1, <1>2, <2>5, <2>7, <2>8, AgentsKeepOff DEF Here
<1>6. CASE fstate # "evict" /\ sstate # "evict" /\ state = "evict"
  <2>1. fpulse = NoFPulse /\ Quiet(pulse) /\ ~spulse.shared /\ ~spulse.inval
    BY <1>0, <1>6, MissIsAlone
  <2>2. state' = "evict" /\ cur' = cur
    BY <1>0, <1>6, PulsesFollow, StatesFollow
  <2>3. fstate' # "evict" /\ sstate' # "evict"
    BY <1>0, <2>2 DEF FenceInv, SnoopInv
  <2>4. l = <<tags[Index(cur.line)], Index(cur.line)>> /\ Index(l) = Index(cur.line)
    BY <1>2, <1>6 DEF Leaving, Index
  <2>5. states'[Index(l)] = states[Index(l)] /\ tags'[Index(l)] = tags[Index(l)]
    BY <1>3, <2>1, CycleIs, ArraysFollow, QuietArrays
  <2>6. Leaving' = l /\ Writing'
    BY <2>2, <2>3, <2>4, <2>5 DEF Leaving, Writing
  <2>7. Here(l)' /\ Held(l)
    BY <1>2, <1>3, <2>1, <2>5, QuietArrays DEF Here, Held
  <2>8. ~HartStores(l)
    BY <1>6 DEF HartStores, Ready
  <2> QED BY <1>1, <1>2, <2>6, <2>7, <2>8, HeldKept, AgentsKeepOff DEF Here
<1> QED BY <1>4, <1>5, <1>6 DEF Writing

\* A beat brings memory nearer to the line, and takes nothing back.
LEMMA BeatsArrive ==
  ASSUME Cycle, RequestInv, LookInv, FabInv, AnswerInv, TransferInv, FlushInv, ArrayInv, CoherentInv,
         Writing, ~evictDone, NEW w \in Offsets,
         \/ mem[Leaving][w] = latest[Leaving][w]
         \/ ev.state = "W" /\ ev.beat = w /\ ev' # ev
  PROVE  mem'[Leaving][w] = latest'[Leaving][w]
<1>1. PICK l \in Used : l = Leaving
  BY DEF TransferInv
<1>2. ~AgentTakes(l) /\ latest'[l][w] = latest[l][w]
  BY <1>1, LeavingStays
<1>3. mem'[l][w] = IF BeatWritten(l, w) THEN ev.evict.data[w] ELSE mem[l][w]
  BY <1>2, CycleIs, MemoryFollows
<1>4. ev.state = "W" => Copy(ev.evict, l)
  BY <1>1 DEF TransferInv
<1>5. BeatWritten(l, w) => ev.evict.data[w] = latest[l][w]
  BY <1>4 DEF BeatWritten, Copy, Current
<1>6. ev.state = "W" /\ ev.beat = w /\ ev' # ev => BeatWritten(l, w)
  BY <1>4 DEF BeatWritten, Copy
<1> QED BY <1>1, <1>2, <1>3, <1>5, <1>6

LEMMA WritingStep ==
  ASSUME Cycle, RequestInv, LookInv, FabInv, AnswerInv, TransferInv, FlushInv, ArrayInv, CoherentInv,
         Writing, ~evictDone
  PROVE  TransferInv'
<1> DEFINE l == Leaving
<1>0. /\ Writing' /\ Leaving' = l /\ Here(Leaving)' /\ Starters' = {} /\ l \in Used
      /\ \A w \in Offsets : latest'[l][w] = latest[l][w]
  BY LeavingStays DEF TransferInv
<1>1. /\ ev = [state |-> ev.state, beat |-> ev.beat, evict |-> ev.evict]
      /\ ev.state \in {"idle", "AW", "W", "B"} /\ ev.beat \in Offsets
      /\ ev.state # "W" => ev.beat = 0
      /\ Starters # {} => Copy(Start, l)
      /\ ev.state \in {"AW", "W"} => Copy(ev.evict, l)
      /\ ev.state = "W" => Sent(ev.beat)
      /\ ev.state = "B" => Sent(Words)
  BY DEF TransferInv
<1>2. 0 \in Offsets /\ Words \in Nat /\ Offsets = 0 .. Words - 1
  BY CacheConstants DEF Offsets
<1>3. \A e : Copy(e, l) => e.line = l /\ ~e.nc /\ \A w \in Offsets : e.data[w] = latest'[l][w]
  BY <1>0 DEF Copy, Current
<1>4. ASSUME NEW n \in Int, Sent(n)
      PROVE  \A w \in Offsets : w < n => mem'[l][w] = latest'[l][w]
  BY <1>4, BeatsArrive DEF Sent
<1>5. SUFFICES /\ ev' = [state |-> ev'.state, beat |-> ev'.beat, evict |-> ev'.evict]
               /\ ev'.state \in {"idle", "AW", "W", "B"} /\ ev'.beat \in Offsets
               /\ ev'.state # "W" => ev'.beat = 0
               /\ ev'.state \in {"AW", "W"} => Copy(ev'.evict, l)
               /\ ev'.state = "W" => \A w \in Offsets : w < ev'.beat => mem'[l][w] = latest'[l][w]
               /\ ev'.state = "B" \/ evictDone' => \A w \in Offsets : mem'[l][w] = latest'[l][w]
  BY <1>0, <1>2, <1>3 DEF TransferInv, Copy, Current, Sent
<1>6. evictDone' <=> ev.state = "B" /\ ev'.state = "idle"
  BY CycleIs DEF Write
<1> HIDE DEF l
<1>7. CASE EvictIdle
  <2>1. ev.state = "idle"
    BY <1>7 DEF EvictIdle
  <2>2. CASE Starters = {}
    BY <1>1, <1>6, <1>7, <2>1, <2>2 DEF EvictIdle
  <2>3. CASE Starters # {}
    <3>1. ev' = [state |-> "AW", beat |-> 0, evict |-> Start]
      BY <1>7, <2>3 DEF EvictIdle
    <3> QED BY <1>1, <1>2, <1>6, <2>1, <2>3, <3>1
  <2> QED BY <2>2, <2>3
<1>8. CASE EvictAddress
  <2>1. PICK s \in {"AW", "W"} : ev' = [ev EXCEPT !.state = s] /\ ev.state = "AW"
    BY <1>8 DEF EvictAddress
  <2>2. ev' = [state |-> s, beat |-> 0, evict |-> ev.evict]
    BY <1>1, <2>1
  <2> QED BY <1>1, <1>2, <1>6, <2>1, <2>2
<1>9. CASE EvictBeat
  <2>1. ev.state = "W" /\ ~ev.evict.nc
    BY <1>1, <1>9 DEF EvictBeat, Copy
  <2>2. CASE ev.beat = Words - 1
    <3>1. ev' = [state |-> "B", beat |-> 0, evict |-> NoEvict]
      BY <1>9, <2>2 DEF EvictBeat, EvIdle
    <3>2. \A w \in Offsets : w < ev.beat \/ w = ev.beat
      BY <1>2, <2>2
    <3>3. ev' # ev
      BY <2>1, <3>1
    <3>4. \A w \in Offsets : mem'[l][w] = latest'[l][w]
      BY <1>1, <1>4, <2>1, <3>2, <3>3, BeatsArrive DEF l, Sent
    <3> QED BY <1>2, <1>6, <2>1, <3>1, <3>4
  <2>3. CASE ev.beat # Words - 1
    <3>1. ev' = [ev EXCEPT !.beat = @ + 1]
      BY <1>9, <2>1, <2>3 DEF EvictBeat
    <3>2. ev' = [state |-> "W", beat |-> ev.beat + 1, evict |-> ev.evict]
      BY <1>1, <2>1, <3>1
    <3>3. ev.beat + 1 \in Offsets /\ ev' # ev
      BY <1>1, <1>2, <2>3, <3>2
    <3>4. \A w \in Offsets : w < ev.beat + 1 => w < ev.beat \/ w = ev.beat
      BY <1>1, <1>2
    <3>5. \A w \in Offsets : w < ev.beat + 1 => mem'[l][w] = latest'[l][w]
      BY <1>1, <1>4, <2>1, <3>3, <3>4, BeatsArrive DEF l, Sent
    <3> QED BY <1>1, <1>6, <2>1, <3>2, <3>3, <3>5
  <2> QED BY <2>2, <2>3
<1>10. CASE EvictStall
  <2>1. ev' = ev /\ ev.state = "W"
    BY <1>10 DEF EvictStall
  <2>2. ev.beat \in Int
    BY <1>1, <1>2
  <2> QED BY <1>1, <1>4, <1>6, <2>1, <2>2
<1>11. CASE EvictReply
  <2>1. PICK s \in {"B", "idle"} : ev' = [EvIdle EXCEPT !.state = s] /\ ev.state = "B"
    BY <1>11 DEF EvictReply
  <2>2. ev' = [state |-> s, beat |-> 0, evict |-> NoEvict]
    BY <2>1 DEF EvIdle
  <2>3. \A w \in Offsets : w < Words
    BY <1>2
  <2>4. \A w \in Offsets : mem'[l][w] = latest'[l][w]
    BY <1>1, <1>2, <1>4, <2>1, <2>3
  <2>5. ev'.state = s /\ ev'.beat = 0 /\ ev'.evict = NoEvict
    BY <2>2
  <2> QED BY <1>2, <2>2, <2>4, <2>5
<1> QED BY <1>7, <1>8, <1>9, <1>10, <1>11, CycleIs DEF Write

\* The engine is free when a unit turns to it.
LEMMA EngineIsFree ==
  ASSUME Cycle, TransferInv, ~Writing \/ evictDone, Writing'
  PROVE  ev.state = "idle" /\ Starters = {} /\ ev' = ev /\ ~evictDone'
<1>0. HartInv /\ FenceInv /\ SnoopInv /\ EvictInv /\ Controller /\ state' = NextState
      /\ FenceInv' /\ SnoopInv' /\ Write
  BY CycleIs DEF Controller
<1>1. ev.state = "idle" /\ Starters = {}
  <2>1. CASE evictDone
    BY <1>0, <2>1 DEF EvictInv
  <2>2. CASE ~evictDone /\ ~(ev.state = "idle" /\ Starters = {})
    <3>1. ~Writing
      BY <2>2
    <3>2. state = "ncwrite"
      BY <1>0, <2>2, <3>1, StartersAre DEF EvictInv, Writing
    <3>3. state' = "ncwrite"
      BY <1>0, <2>2, <3>2, StatesFollow
    <3>4. fstate' # "evict" /\ sstate' # "evict"
      BY <1>0, <3>3 DEF FenceInv, SnoopInv
    <3> QED BY <3>3, <3>4 DEF Writing
  <2> QED BY <2>1, <2>2
<1> QED BY <1>0, <1>1 DEF Write, EvictIdle, EvictAddress, EvictBeat, EvictStall, EvictReply

\* What a unit hands to the engine is the line it says, and current.
Handed == /\ Here(Leaving)' /\ Leaving' \in Used
          /\ Starters' # {} => Copy(Start, Leaving)'

LEMMA FenceHands ==
  ASSUME Cycle, RequestInv, LookInv, FabInv, FlushInv, ArrayInv, CoherentInv,
         fstate = "tagwait"
  PROVE  Handed
<1>0. FenceInv /\ FenceInv' /\ Flush /\ DCacheInv
  BY CycleIs DEF Cycle
<1>1. fbusy /\ Quiet(pulse) /\ spulse = NoSPulse /\ state = "idle" /\ ~Ready /\ fdata # NoData
  BY <1>0 DEF FenceInv, Ready
<1>2. /\ fstate' = "evict" /\ findex' = findex
      /\ fpulse' = [NoFPulse EXCEPT
                     !.evict = [line |-> <<look.tag, findex>>, data |-> fdata, nc |-> FALSE]]
  BY <1>0 DEF Flush, FlushIdle, FlushScan, FlushSettle, FlushTagWait, FlushEvict, FlushDone
<1>3. /\ findex \in Indexes /\ states[findex] # "I" /\ look.tag = tags[findex] /\ ~fpulse.invAll
      /\ Current(fdata, <<tags[findex], findex>>)
  BY DEF FlushInv, LookInv
<1>4. states'[findex] # "I" /\ tags'[findex] = tags[findex]
  <2>1. states'[findex] = TagState(findex) /\ tags'[findex] = TagAt(findex)
    BY <1>3, CycleIs, ArraysFollow
  <2> QED BY <1>1, <1>3, <2>1 DEF TagState, TagAt, DirtySet, Updated, Quiet, NoSPulse
<1> DEFINE l == <<tags[findex], findex>>
<1>5. l \in Used /\ Held(l)
  BY <1>0, <1>1, <1>3, HereIsHeld DEF NoSPulse, Filling
<1>6. \A w \in Offsets : latest'[l][w] = latest[l][w]
  BY <1>1, <1>5, HeldKept DEF HartStores
<1>7. Leaving' = l
  BY <1>2, <1>4 DEF Leaving
<1>8. fpulse'.evict = [line |-> l, data |-> fdata, nc |-> FALSE]
  BY <1>2, <1>3 DEF NoFPulse
<1>9. fpulse'.evict # NoEvict
  BY <1>5, <1>8, UsedLines DEF NoEvict
<1>10. Copy(Start, Leaving)'
  BY <1>3, <1>6, <1>7, <1>8, <1>9 DEF Start, Copy, Current
<1>11. Here(Leaving)'
  BY <1>4, <1>7 DEF Here, Index
<1> QED BY <1>5, <1>7, <1>10, <1>11 DEF Handed

LEMMA SnoopHands ==
  ASSUME Cycle, RequestInv, LookInv, FabInv, AnswerInv, ArrayInv, CoherentInv,
         sstate = "capture", sstate' = "evict"
  PROVE  Handed
<1>0. FenceInv' /\ Snoop /\ DCacheInv
  BY CycleIs DEF Cycle
<1>1. /\ fpulse = NoFPulse /\ Quiet(pulse) /\ ~fbusy /\ ~spulse.shared /\ ~spulse.inval
      /\ fab.state = "wait" /\ ~Ready
  BY <1>0, SnoopIsQuiet DEF SnoopBusy
<1>2. SnoopCapture /\ sreq' = sreq
  BY <1>0 DEF Snoop, SnoopIdle, SnoopLookup, SnoopCapture, SnoopEvict
<1>3. /\ look.hit
      /\ spulse' = [NoSPulse EXCEPT
                     !.evict = [line |-> sreq.line, data |-> Block(ReadAll), nc |-> FALSE]]
  BY <1>2 DEF SnoopCapture
<1> DEFINE l == sreq.line
<1>4. l \in Used /\ Here(l)
  BY <1>3 DEF AnswerInv, LookInv
<1>5. Held(l)
  BY <1>1, <1>4, QuietArrays DEF Held, Here
<1>6. \A w \in Offsets : latest'[l][w] = latest[l][w]
  BY <1>1, <1>4, <1>5, HeldKept DEF HartStores
<1>7. Block(ReadAll) = [w \in Offsets |-> latest[l][w]]
  BY <1>0, <1>4, SnoopReads
<1>8. fpulse' = NoFPulse /\ fstate' # "evict"
  BY <1>0 DEF FenceInv
<1>9. Leaving' = l
  BY <1>2, <1>8 DEF Leaving
<1>10. spulse'.evict = [line |-> l, data |-> Block(ReadAll), nc |-> FALSE]
  BY <1>3 DEF NoSPulse
<1>11. fpulse'.evict = NoEvict /\ spulse'.evict # NoEvict
  BY <1>4, <1>8, <1>10, UsedLines DEF NoEvict, NoFPulse
<1>12. Copy(Start, Leaving)'
  BY <1>6, <1>7, <1>9, <1>10, <1>11 DEF Start, Copy, Current
<1>13. states'[Index(l)] = states[Index(l)] /\ tags'[Index(l)] = tags[Index(l)]
  BY <1>1, <1>4, UsedLines, CycleIs, ArraysFollow, QuietArrays
<1>14. Here(Leaving)'
  BY <1>4, <1>9, <1>13 DEF Here
<1> QED BY <1>4, <1>9, <1>12, <1>14 DEF Handed

LEMMA MissHands ==
  ASSUME Cycle, RequestInv, LookInv, FabInv, FlushInv, ArrayInv, CoherentInv,
         \/ state = "lookup" /\ Miss /\ look.dirty
         \/ state = "peer" /\ OwnAnswer /\ localDirty,
         state' = "evict"
  PROVE  Handed
<1>0. HartInv /\ FenceInv /\ SnoopInv /\ MissInv /\ DCacheInv /\ FenceInv' /\ SnoopInv' /\ EvictInv' /\ Controller
  BY CycleIs DEF Cycle
<1> DEFINE c == Index(cur.line)
           l == <<tags[c], c>>
<1>1. /\ fpulse = NoFPulse /\ Quiet(pulse) /\ ~fbusy /\ spulse = NoSPulse /\ sstate = "idle" /\ ~HartStores(l)
  <2>1. fpulse = NoFPulse /\ Quiet(pulse) /\ ~fbusy
    BY <1>0, MissIsQuiet
  <2>2. spulse = NoSPulse /\ sstate = "idle"
    BY <1>0 DEF SnoopInv, OwnAnswer
  <2>3. ~Ready
    BY DEF Ready, Miss
  <2> QED BY <2>1, <2>2, <2>3 DEF HartStores
<1>2. cur' = cur /\ c \in Indexes
  BY <1>0, PulsesFollow, LinesAreLines DEF HartInv
<1>3. states[c] = "M" /\ look.tag = tags[c]
  BY <1>0 DEF MissInv, LookInv, Miss
<1>4. ~spulse.shared /\ ~spulse.inval
  BY <1>1 DEF NoSPulse
<1>5. /\ l \in Used /\ Held(l)
      /\ \A w \in Offsets : DataWord(c, w) = latest[l][w]
  BY <1>0, <1>1, <1>2, <1>3, <1>4, HereIsHeld DEF Filling
<1>6. \A w \in Offsets : latest'[l][w] = latest[l][w]
  BY <1>1, <1>5, HeldKept
<1>7. states'[c] = states[c] /\ tags'[c] = tags[c]
  BY <1>1, <1>2, <1>4, CycleIs, ArraysFollow, QuietArrays
<1>8. fstate' # "evict" /\ sstate' # "evict" /\ fpulse'.evict = NoEvict /\ spulse'.evict = NoEvict
  BY <1>0 DEF FenceInv, SnoopInv, EvictInv
<1>9. Leaving' = l
  BY <1>2, <1>7, <1>8 DEF Leaving
<1>10. Here(Leaving)'
  BY <1>3, <1>7, <1>9 DEF Here, Index
<1>11. Starters' # {} => pulse'.evict # NoEvict
  BY <1>8 DEF Starters
<1>12. pulse'.evict # NoEvict => pulse'.evict = Victim
  BY AsksFollow
<1>13. ReadAll = c
  BY <1>1 DEF ReadAll, LookupActive
<1>14. /\ Victim.line = l /\ ~Victim.nc
       /\ \A w \in Offsets : Victim.data[w] = latest[l][w]
  BY <1>3, <1>5, <1>13 DEF Victim, Block
<1>15. Starters' # {} => Start' = Victim
  BY <1>8, <1>11, <1>12 DEF Start
<1>16. Starters' # {} => Copy(Start, Leaving)'
  BY <1>6, <1>9, <1>14, <1>15 DEF Copy, Current
<1> QED BY <1>5, <1>9, <1>10, <1>16 DEF Handed

LEMMA TurnStep ==
  ASSUME Cycle, RequestInv, LookInv, FabInv, AnswerInv, TransferInv, FlushInv, ArrayInv, CoherentInv,
         ~Writing \/ evictDone
  PROVE  TransferInv'
<1>0. /\ HartInv /\ FenceInv /\ SnoopInv /\ EvictInv /\ Controller /\ state' = NextState
      /\ EvictInv' /\ Write /\ Flush /\ Snoop
      /\ ev = [state |-> ev.state, beat |-> ev.beat, evict |-> ev.evict]
      /\ ev.state \in {"idle", "AW", "W", "B"} /\ ev.beat \in Offsets /\ (ev.state # "W" => ev.beat = 0)
  BY CycleIs DEF Controller, TransferInv
<1>1. CASE Writing'
  <2>1. ev' = ev /\ ev.state = "idle" /\ ~evictDone'
    BY <1>1, EngineIsFree
  <2>2. Handed
    <3>1. CASE fstate' = "evict"
      <4>1. fstate = "tagwait"
        BY <1>0, <3>1 DEF Flush, FlushIdle, FlushScan, FlushSettle, FlushTagWait, FlushEvict, FlushDone, Writing
      <4> QED BY <4>1, FenceHands
    <3>2. CASE sstate' = "evict"
      <4>1. sstate = "capture"
        BY <1>0, <3>2 DEF Snoop, SnoopIdle, SnoopLookup, SnoopCapture, SnoopEvict, Writing
      <4> QED BY <3>2, <4>1, SnoopHands
    <3>3. CASE state' = "evict"
      <4>1. \/ state = "lookup" /\ Miss /\ look.dirty
            \/ state = "peer" /\ OwnAnswer /\ localDirty
        BY <1>0, <3>3, StatesAreNamed DEF NextState, Writing
      <4> QED BY <3>3, <4>1, MissHands
    <3> QED BY <1>1, <3>1, <3>2, <3>3 DEF Writing
  <2> QED BY <1>0, <1>1, <2>1, <2>2 DEF Handed, TransferInv
<1>2. CASE ~Writing'
  <2>1. Starters' # {} => Start'.nc
    <3> SUFFICES ASSUME Starters' # {} PROVE Start'.nc
      OBVIOUS
    <3>1. fpulse'.evict = NoEvict /\ spulse'.evict = NoEvict
      BY <1>0, <1>2 DEF EvictInv, Writing
    <3>2. Start' = pulse'.evict /\ pulse'.evict # NoEvict
      BY <3>1 DEF Start, Starters
    <3>3. state' # "evict"
      BY <1>2 DEF Writing
    <3>4. ~(state = "lookup" /\ Miss /\ cur.we /\ look.dirty) /\ ~(state = "peer" /\ OwnAnswer /\ localDirty)
      BY <1>0, <3>3, StatesFollow DEF Miss
    <3> QED BY <3>2, <3>4, AsksFollow
  <2>2. Writing => ev.state = "idle" /\ Starters = {}
    BY <1>0 DEF EvictInv
  <2>3. (Starters # {} => Start.nc) /\ (ev.state \in {"AW", "W"} => ev.evict.nc)
    BY <2>2 DEF TransferInv
  <2>4. 0 \in Offsets
    BY CacheConstants DEF Offsets
  <2>5. /\ ev' = [state |-> ev'.state, beat |-> ev'.beat, evict |-> ev'.evict]
        /\ ev'.state \in {"idle", "AW", "W", "B"} /\ ev'.beat \in Offsets /\ (ev'.state # "W" => ev'.beat = 0)
        /\ ev'.state \in {"AW", "W"} => ev'.evict.nc
    <3>1. CASE EvictIdle
      <4>1. ev' = ev \/ (Starters # {} /\ ev' = [state |-> "AW", beat |-> 0, evict |-> Start])
        BY <3>1 DEF EvictIdle
      <4>2. CASE ev' = ev
        BY <1>0, <2>3, <4>2
      <4>3. CASE Starters # {} /\ ev' = [state |-> "AW", beat |-> 0, evict |-> Start]
        BY <2>3, <2>4, <4>3
      <4> QED BY <4>1, <4>2, <4>3
    <3>2. CASE EvictAddress
      <4>1. PICK s \in {"AW", "W"} : ev' = [ev EXCEPT !.state = s] /\ ev.state = "AW"
        BY <3>2 DEF EvictAddress
      <4>2. ev' = [state |-> s, beat |-> 0, evict |-> ev.evict]
        BY <1>0, <4>1
      <4>3. ev'.state = s /\ ev'.beat = 0 /\ ev'.evict = ev.evict /\ ev.evict.nc
        BY <2>3, <4>1, <4>2
      <4> QED BY <2>4, <4>2, <4>3
    <3>3. CASE EvictBeat
      <4>1. ev' = [state |-> "B", beat |-> 0, evict |-> NoEvict]
        BY <2>3, <3>3 DEF EvictBeat, EvIdle
      <4> QED BY <2>4, <4>1
    <3>4. CASE EvictStall
      BY <1>0, <2>3, <3>4 DEF EvictStall
    <3>5. CASE EvictReply
      <4>1. PICK s \in {"B", "idle"} : ev' = [EvIdle EXCEPT !.state = s]
        BY <3>5 DEF EvictReply
      <4>2. ev' = [state |-> s, beat |-> 0, evict |-> NoEvict]
        BY <4>1 DEF EvIdle
      <4> QED BY <2>4, <4>2
    <3> QED BY <1>0, <3>1, <3>2, <3>3, <3>4, <3>5 DEF Write
  <2> QED BY <1>2, <2>1, <2>5 DEF TransferInv
<1> QED BY <1>1, <1>2

LEMMA TransferStep ==
  ASSUME Cycle, RequestInv, LookInv, FabInv, AnswerInv, TransferInv, FlushInv, ArrayInv, CoherentInv
  PROVE  TransferInv'
BY WritingStep, TurnStep

-----------------------------------------------------------------------------
(***************************************************************************)
(* A line that is held is current, and memory has what is not dirty.       *)
(***************************************************************************)

\* With the last word of a line its every word is the latest of before.
LEMMA FilledWord ==
  ASSUME Cycle, HistoryInv, RequestInv, ReadInv, FillInv, CoherentInv, pulse'.tagUpdate,
         NEW w \in Offsets
  PROVE  DataWord(Index(cur.line), w)' = latest[cur.line][w]
<1>0. /\ HartInv /\ Controller /\ cur' = cur /\ cur.line \in Used /\ Index(cur.line) \in Indexes
      /\ state \in {"refill", "drain", "c2c"}
      /\ Offsets = 0 .. Words - 1 /\ Words \in Nat /\ w \in Int
  BY CycleIs, WritesFollow, PulsesFollow, UsedLines, CacheConstants DEF Offsets
<1>1. CASE state = "c2c"
  <2>1. fillWord = Words - 1 /\ fillWord \in Offsets /\ Current(fwd, cur.line)
    BY <1>1, WritesFollow DEF FillDone, FillInv
  <2>2. pulse'.write = WriteOf(Index(cur.line), fillWord, fwd[fillWord])
    BY <1>1, WritesFollow
  <2>3. fwd[fillWord] = latest[cur.line][fillWord] /\ fwd[fillWord] \in Versions(cur.line, fillWord)
    BY <1>0, <2>1 DEF Current, HistoryInv
  <2>4. \A j \in Indexes, u \in Offsets :
          DataWord(j, u)' = IF j = Index(cur.line) /\ u = fillWord THEN fwd[fillWord] ELSE DataWord(j, u)
    BY <1>0, <2>1, <2>2, <2>3, DataIsWritten
  <2>5. DataWord(Index(cur.line), w)' =
          IF w = fillWord THEN fwd[fillWord] ELSE DataWord(Index(cur.line), w)
    BY <1>0, <2>4 DEF DataWord
  <2>6. w = fillWord \/ w < fillWord
    BY <1>0, <2>1
  <2> QED BY <1>1, <2>3, <2>5, <2>6 DEF FillInv
<1>2. CASE state \in {"refill", "drain"}
  <2>1. RefillDone /\ Beat /\ rd.word = Words - 1 /\ rd.word \in Offsets
    BY <1>2, WritesFollow DEF RefillDone, LastBeat, Beat, ReadInv
  <2>2. pulse'.write = WriteOf(Index(cur.line), rd.word, BeatItem)
    BY <1>2, <2>1, WritesFollow DEF BeatWrite
  <2>3. BeatItem = latest[cur.line][rd.word] /\ BeatItem \in Versions(cur.line, rd.word)
    BY <1>0, <1>2, <2>1, FillsFromMemory DEF BeatItem, HistoryInv, Cycle
  <2>4. \A j \in Indexes, u \in Offsets :
          DataWord(j, u)' = IF j = Index(cur.line) /\ u = rd.word THEN BeatItem ELSE DataWord(j, u)
    BY <1>0, <2>1, <2>2, <2>3, DataIsWritten
  <2>5. DataWord(Index(cur.line), w)' =
          IF w = rd.word THEN BeatItem ELSE DataWord(Index(cur.line), w)
    BY <1>0, <2>4 DEF DataWord
  <2>6. w = rd.word \/ w < rd.word
    BY <1>0, <2>1
  <2> QED BY <1>2, <2>3, <2>5, <2>6 DEF FillInv
<1> QED BY <1>0, <1>1, <1>2

\* What a finished access leaves in the history of its line.
LEMMA StoredWord ==
  ASSUME Cycle, RequestInv, FabInv, cur.line \in Used, ~AgentTakes(cur.line), NEW w \in Offsets,
         \/ state = "lookup" /\ stable /\ look.hit /\ cur.we
         \/ state \in {"refill", "drain", "c2c"} /\ pulse'.tagUpdate
  PROVE  latest'[cur.line][w] =
           IF (state = "lookup" \/ pulse'.deferred) /\ w = cur.word THEN cur.item
           ELSE latest[cur.line][w]
<1>0. HartInv /\ FenceInv /\ Controller
  BY CycleIs
<1>1. latest'[cur.line][w] = IF HartStores(cur.line) /\ req.word = w THEN req.item
                             ELSE latest[cur.line][w]
  BY CycleIs, MemoryFollows
<1>2. CASE state = "lookup" \/ pulse'.deferred
  <2>1. \/ state = "lookup" /\ stable /\ look.hit
        \/ state = "refill" /\ RefillDone
    BY <1>0, <1>2, PulsesFollow
  <2>2. cur.we /\ ~fbusy
    BY <1>0, <1>2, PulsesFollow, StatesAreNamed
  <2>3. Ready
    BY <2>1, <2>2 DEF Ready
  <2>4. req.kind = "store" /\ cur.line = req.line /\ cur.word = req.word /\ cur.item = req.item
    BY <2>1, <2>2 DEF RequestInv, IsStore, IsNc
  <2> QED BY <1>1, <1>2, <2>3, <2>4 DEF HartStores
<1>3. CASE ~(state = "lookup" \/ pulse'.deferred)
  <2>1. ~HartStores(cur.line)
    BY <1>3, HartStoresHit, WritesFollow DEF HartStores
  <2> QED BY <1>1, <1>3, <2>1
<1> QED BY <1>2, <1>3

\* A line that is held after the cycle is current then.
LEMMA HeldStep ==
  ASSUME Cycle, HistoryInv, RequestInv, ReadInv, FillInv, LookInv, FabInv, CoherentInv,
         NEW l \in Used, NEW w \in Offsets, Held(l)', ~(Filling' /\ Index(l) = Index(cur'.line))
  PROVE  WordAt(Index(l), w)' = latest'[l][w]
<1> DEFINE i == Index(l)
<1>0. HartInv /\ FenceInv /\ FenceInv' /\ Controller /\ state' = NextState /\ DCacheInv
  BY CycleIs DEF Controller, Cycle
<1>1. i \in Indexes /\ l = <<l[1], i>>
  BY UsedLines
<1>2. tags'[i] = TagAt(i) /\ TagAt(i)' = l[1]
  BY <1>1, CycleIs, ArraysFollow DEF Held
<1>3. pulse'.deferred => pulse'.tagUpdate
  BY WritesFollow
<1>4. CASE pulse'.tagUpdate /\ i = Index(cur'.line)
  <2>1. cur' = cur /\ cur.line \in Used /\ state \in {"refill", "drain", "c2c"}
    BY <1>0, <1>4, WritesFollow, PulsesFollow
  <2>2. fpulse' = NoFPulse
    BY <1>0, <1>4 DEF FenceInv, Quiet
  <2>3. l[1] = cur.line[1]
    BY <1>2, <1>4, <2>1, <2>2 DEF TagAt, Updated, NoFPulse
  <2>4. l = cur.line
    BY <1>1, <1>4, <2>1, <2>3, UsedLines
  <2>5. ~AgentTakes(l)
    BY <2>1, AgentsKeepOff DEF Filling
  <2>6. latest'[l][w] = IF pulse'.deferred /\ w = cur.word THEN cur.item ELSE latest[l][w]
    BY <1>4, <2>1, <2>4, <2>5, StoredWord
  <2>7. DataWord(i, w)' = latest[l][w]
    BY <1>4, <2>1, <2>4, FilledWord DEF DataWord
  <2> QED BY <1>4, <2>1, <2>4, <2>6, <2>7 DEF WordAt
<1>5. CASE pulse'.dirtySet /\ ~pulse'.tagUpdate /\ i = Index(cur'.line)
  <2>1. state = "lookup" /\ stable /\ look.hit /\ cur.we /\ cur' = cur /\ cur.line \in Used
    BY <1>0, <1>5, WritesFollow, PulsesFollow
  <2>2. Quiet(pulse) /\ fpulse = NoFPulse /\ ~spulse.shared /\ ~spulse.inval
    BY <1>0, <2>1, MissIsAlone
  <2>3. TagAt(i)' = tags'[i] /\ TagAt(i) = tags[i]
    BY <1>5, <2>2 DEF TagAt, Updated, Quiet
  <2>4. Here(cur.line)
    BY <2>1 DEF LookInv
  <2>5. l = cur.line
    BY <1>1, <1>2, <1>5, <2>1, <2>3, <2>4, UsedLines DEF Here
  <2>6. Held(l) /\ ~Filling /\ ~pulse.deferred
    BY <2>1, <2>2, <2>4, <2>5, QuietArrays DEF Held, Here, Filling, RequestInv
  <2>7. ~AgentTakes(l)
    BY <2>6, AgentsKeepOff
  <2>8. latest'[l][w] = IF w = cur.word THEN cur.item ELSE latest[l][w]
    BY <2>1, <2>5, <2>7, StoredWord
  <2>9. cur.word \in Offsets /\ cur.item \in Versions(l, cur.word)
    BY <2>1, <2>5 DEF RequestInv, IsStore, IsNc
  <2>10. pulse'.write = WriteOf(i, cur.word, cur.item)
    BY <1>5, <2>1, WritesFollow DEF CurWrite
  <2>11. DataWord(i, w)' = IF w = cur.word THEN cur.item ELSE DataWord(i, w)
    BY <1>1, <2>9, <2>10, DataIsWritten
  <2>12. DataWord(i, w) = latest[l][w]
    BY <2>6 DEF CoherentInv, WordAt
  <2> QED BY <1>3, <1>5, <2>8, <2>11, <2>12 DEF WordAt
<1>6. CASE ~(pulse'.tagUpdate /\ i = Index(cur'.line)) /\ ~(pulse'.dirtySet /\ i = Index(cur'.line))
  <2>1. Held(l)
    BY <1>6, HeldBefore
  <2>2. ~HartStores(l)
    BY <1>6, HartStoresHit, WritesFollow DEF HartStores
  <2>3. latest'[l][w] = latest[l][w]
    BY <2>1, <2>2, HeldKept
  <2>4. WordAt(i, w)' = DataWord(i, w)'
    BY <1>3, <1>6 DEF WordAt
  <2>5. ~(Filling /\ i = Index(cur.line))
    <3> SUFFICES ASSUME Filling, i = Index(cur.line) PROVE FALSE
      OBVIOUS
    <3>1. cur' = cur
      BY <1>0, PulsesFollow DEF Filling
    <3>2. ~Filling'
      BY <3>1
    <3>3. CASE state \in {"refill", "drain"}
      <4>1. ~RefillDone
        BY <1>6, <3>1, <3>3, WritesFollow
      <4> QED BY <1>0, <3>2, <3>3, <4>1, StatesFollow DEF Filling
    <3>4. CASE state = "c2c"
      <4>1. ~FillDone
        BY <1>6, <3>1, <3>4, WritesFollow
      <4> QED BY <1>0, <3>2, <3>4, <4>1, StatesFollow DEF Filling
    <3> QED BY <3>3, <3>4 DEF Filling
  <2>6. WordAt(i, w) = latest[l][w]
    BY <2>1, <2>5 DEF CoherentInv
  <2>7. CASE pulse.deferred
    <3>1. /\ state = "idle" /\ cur.word \in Offsets /\ cur.item \in Versions(cur.line, cur.word)
          /\ cur.line \in Used /\ Index(cur.line) \in Indexes
      BY <2>7, UsedLines DEF RequestInv
    <3>2. pulse'.write = WriteOf(Index(cur.line), cur.word, cur.item)
      BY <2>7, <3>1, WritesFollow DEF CurWrite
    <3>3. DataWord(i, w)' = IF i = Index(cur.line) /\ w = cur.word THEN cur.item ELSE DataWord(i, w)
      BY <1>1, <3>1, <3>2, DataIsWritten
    <3> QED BY <2>3, <2>4, <2>6, <2>7, <3>3 DEF WordAt
  <2>8. CASE ~pulse.deferred
    <3>1. pulse'.write = NoWrite \/ pulse'.write.index # i
      <4>1. CASE state \in {"refill", "drain"}
        BY <2>5, <4>1, WritesFollow DEF BeatWrite, WriteOf, Filling
      <4>2. CASE state = "c2c"
        BY <2>5, <4>2, WritesFollow DEF WriteOf, Filling
      <4>3. CASE state = "lookup"
        BY <1>6, <4>3, WritesFollow DEF CurWrite, WriteOf
      <4>4. CASE state \in {"idle", "peer", "evict", "wait", "ncread", "ncwrite"}
        BY <2>8, <4>4, WritesFollow
      <4> QED BY <1>0, <4>1, <4>2, <4>3, <4>4, StatesAreNamed
    <3>2. DataWord(i, w)' = DataWord(i, w)
      BY <1>1, <3>1, DataFollows
    <3> QED BY <2>3, <2>4, <2>6, <2>8, <3>2 DEF WordAt
  <2> QED BY <2>7, <2>8
<1> QED BY <1>4, <1>5, <1>6

\* A store of the hart leaves its line dirty.
LEMMA StoreDirties ==
  ASSUME Cycle, RequestInv, RequestInv', NEW l \in Used, HartStores(l)
  PROVE  Dirty(l)'
<1> DEFINE i == Index(l)
<1>1. pulse'.dirtySet /\ state' = "idle" /\ l = cur.line /\ state # "idle"
  BY HartStoresHit DEF HartStores
<1>2. cur' = cur
  BY <1>1, CycleIs, PulsesFollow
<1>3. fpulse' = NoFPulse /\ ~pulse'.dirtyClear
  BY <1>1, CycleIs DEF FenceInv, MissInv, Quiet
<1>4. TagState(i)' = "M"
  <2>1. DirtyIndex' = i
    BY <1>1, <1>2, <1>3 DEF DirtyIndex, NoFPulse
  <2>2. DirtySet(i)' /\ ~DirtyClear(i)'
    BY <1>1, <1>3, <2>1 DEF DirtySet, DirtyClear, NoFPulse
  <2> QED BY <1>3, <2>2 DEF TagState, NoFPulse
<1>5. TagAt(i)' = l[1]
  <2>1. CASE pulse'.tagUpdate
    BY <1>1, <1>2, <1>3, <2>1 DEF TagAt, Updated, NoFPulse
  <2>2. CASE ~pulse'.tagUpdate
    BY <1>1, <1>2, <2>2 DEF TagAt, Updated, RequestInv, Here
  <2> QED BY <2>1, <2>2
<1> QED BY <1>4, <1>5 DEF Dirty

\* A dirty line is cleaned when its write-back is done, and by nothing else.
LEMMA CleanedIsSent ==
  ASSUME Cycle, RequestInv, LookInv, AnswerInv, TransferInv, FlushInv', NEW l \in Used,
         Dirty(l), ~Dirty(l)'
  PROVE  Writing /\ evictDone /\ Leaving = l
<1> DEFINE i == Index(l)
<1>0. /\ HartInv /\ FenceInv /\ SnoopInv /\ MissInv /\ Controller /\ Arrays /\ Flush /\ Snoop
      /\ i \in Indexes /\ l = <<l[1], i>> /\ DCacheInv
  BY CycleIs, UsedLines DEF Cycle
<1>1. states'[i] = "M" /\ tags'[i] = l[1] /\ TagAt(i) = l[1]
  BY <1>0, ArraysFollow DEF Dirty
<1>2. ~Updated(i)'
  <2> SUFFICES ASSUME Updated(i)' PROVE FALSE
    OBVIOUS
  <2>1. pulse'.tagUpdate /\ i = Index(cur'.line)
    BY DEF Updated
  <2>2. state \in {"refill", "drain", "c2c"} /\ cur' = cur
    BY <1>0, <2>1, PulsesFollow
  <2>3. states'[Index(cur.line)] # "M"
    BY <1>0, <2>2, DisplacedIsClean DEF Displaced
  <2> QED BY <1>1, <2>1, <2>2, <2>3
<1>3. TagState(i)' # "M"
  BY <1>1, <1>2 DEF Dirty, TagAt
<1>4. ~fpulse'.invAll /\ ~fpulse'.flushAll
  <2>1. bitmap' # {}
    BY <1>0, <1>1, CycleIs DEF BitmapInv
  <2> QED BY <2>1 DEF FlushInv
<1>5. ~(spulse'.shared /\ i = Index(sreq'.line))
  BY <1>1, CycleIs DEF SnoopInv
<1>6. DirtyClear(i)' \/ (spulse'.inval /\ i = Index(sreq'.line))
  BY <1>1, <1>2, <1>3, <1>4, <1>5 DEF TagState
<1>7. CASE fpulse'.clear /\ DirtyClear(i)'
  <2>1. fstate = "evict" /\ evictDone /\ findex' = findex
    <3>1. CASE FlushIdle \/ FlushScan \/ FlushSettle
      BY <1>7, <3>1 DEF FlushIdle, FlushScan, FlushSettle, NoFPulse
    <3>2. CASE FlushTagWait
      BY <1>7, <3>2 DEF FlushTagWait, NoFPulse
    <3>3. CASE FlushEvict
      BY <1>7, <3>3 DEF FlushEvict, NoFPulse
    <3>4. CASE FlushDone
      BY <1>7, <3>4 DEF FlushDone, NoFPulse
    <3> QED BY <1>0, <3>1, <3>2, <3>3, <3>4 DEF Flush
  <2>2. i = findex
    BY <1>7, <2>1 DEF DirtyClear, DirtyIndex
  <2>3. ~pulse.tagUpdate
    BY <1>0, <2>1 DEF FenceInv, Quiet
  <2>4. tags[i] = l[1]
    BY <1>1, <2>3 DEF TagAt, Updated
  <2> QED BY <1>0, <2>1, <2>2, <2>4 DEF Writing, Leaving
<1>8. CASE ~fpulse'.clear /\ DirtyClear(i)'
  <2>1. state = "evict" /\ evictDone /\ cur' = cur
    BY <1>0, <1>8, PulsesFollow DEF DirtyClear
  <2>2. i = Index(cur.line)
    BY <1>8, <2>1 DEF DirtyClear, DirtyIndex
  <2>3. ~pulse.tagUpdate /\ ~fbusy /\ sstate = "idle"
    BY <1>0, <2>1, MissIsAlone, MissIsQuiet DEF Quiet
  <2>4. tags[i] = l[1] /\ fstate # "evict"
    BY <1>0, <1>1, <2>3 DEF TagAt, Updated, FenceInv
  <2> QED BY <1>0, <2>1, <2>2, <2>3, <2>4 DEF Writing, Leaving
<1>9. CASE spulse'.inval /\ i = Index(sreq'.line)
  <2>1. /\ sreq' = sreq /\ ~sreq.read
        /\ \/ sstate = "capture" /\ look.hit /\ ~look.dirty
           \/ sstate = "evict" /\ evictDone
    <3>1. CASE SnoopIdle \/ SnoopLookup
      BY <1>9, <3>1 DEF SnoopIdle, SnoopLookup, NoSPulse
    <3>2. CASE SnoopCapture
      BY <1>9, <3>2 DEF SnoopCapture, NoSPulse
    <3>3. CASE SnoopEvict
      BY <1>9, <3>3 DEF SnoopEvict, NoSPulse, AnswerInv
    <3> QED BY <1>0, <3>1, <3>2, <3>3 DEF Snoop
  <2>2. SnoopBusy /\ sreq.line \in Used /\ i = Index(sreq.line)
    BY <1>9, <2>1 DEF SnoopBusy, AnswerInv
  <2>3. fpulse = NoFPulse /\ Quiet(pulse) /\ ~fbusy /\ ~spulse.shared /\ ~spulse.inval
    BY <1>0, <2>2, SnoopIsQuiet
  <2>4. TagState(i) = states[i] /\ TagAt(i) = tags[i]
    BY <2>3, QuietArrays
  <2>5. states[i] = "M" /\ tags[i] = l[1]
    BY <2>4 DEF Dirty
  <2>6. sstate = "evict" /\ evictDone
    BY <2>1, <2>2, <2>5 DEF LookInv
  <2>7. fstate # "evict"
    BY <1>0, <2>3 DEF FenceInv
  <2>8. Writing /\ Leaving = sreq.line /\ Here(sreq.line)
    BY <2>6, <2>7 DEF Writing, Leaving, TransferInv
  <2>9. sreq.line = l
    BY <1>0, <2>2, <2>5, <2>8, UsedLines DEF Here
  <2> QED BY <2>6, <2>8, <2>9
<1> QED BY <1>6, <1>7, <1>8, <1>9

\* Memory has a line that is not dirty after the cycle.
LEMMA CleanStep ==
  ASSUME Cycle, RequestInv, LookInv, FabInv, AnswerInv, TransferInv, CoherentInv,
         RequestInv', FlushInv', NEW l \in Used, NEW w \in Offsets, ~Dirty(l)'
  PROVE  mem'[l][w] = latest'[l][w]
<1>1. ~HartStores(l) /\ Memory
  BY StoreDirties, CycleIs
<1>2. \/ mem'[l][w] = latest'[l][w]
      \/ /\ mem'[l][w] = IF BeatWritten(l, w) THEN ev.evict.data[w] ELSE mem[l][w]
         /\ latest'[l][w] = latest[l][w]
  <2>1. \/ AgentTakes(l) /\ mem'[l][w] = Older(latest[l][w]) /\ latest'[l][w] = Older(latest[l][w])
        \/ /\ mem'[l][w] = IF BeatWritten(l, w) THEN ev.evict.data[w] ELSE mem[l][w]
           /\ latest'[l][w] = IF HartStores(l) /\ req.word = w THEN req.item ELSE latest[l][w]
    BY <1>1, MemoryFollows
  <2> QED BY <1>1, <2>1
<1>3. BeatWritten(l, w) => ev.evict.data[w] = latest[l][w]
  BY DEF BeatWritten, TransferInv, Copy, Current
<1>4. mem[l][w] = latest[l][w]
  <2>1. CASE Dirty(l)
    <3>1. Writing /\ evictDone /\ Leaving = l
      BY <2>1, CleanedIsSent
    <3>2. w < Words
      BY CacheConstants DEF Offsets
    <3> QED BY <3>1, <3>2 DEF TransferInv, Sent
  <2>2. CASE ~Dirty(l)
    BY <2>2 DEF CoherentInv
  <2> QED BY <2>1, <2>2
<1> QED BY <1>2, <1>3, <1>4

LEMMA CoherentStep ==
  ASSUME Cycle, HistoryInv, RequestInv, ReadInv, FillInv, LookInv, FabInv, AnswerInv, TransferInv,
         CoherentInv, RequestInv', FlushInv'
  PROVE  CoherentInv'
BY HeldStep, CleanStep DEF CoherentInv

-----------------------------------------------------------------------------
(***************************************************************************)
(* The invariant, and what follows from it.                                *)
(***************************************************************************)
LEMMA DataStarts == Init => DataInv
<1> SUFFICES ASSUME Init PROVE DataInv
  OBVIOUS
<1>0. ~CpuReq /\ Words \in Nat \ {0} /\ 0 \in Indexes /\ 0 \in Offsets
  BY CacheConstants DEF Init, CpuReq, Offsets
<1>1. \A l \in Used : /\ mem[l] = [w \in Offsets |-> <<l, w, 0>>] /\ latest[l] = mem[l]
  BY DEF Init
<1>2. HistoryInv
  <2> SUFFICES ASSUME NEW l \in Used
               PROVE  /\ mem[l] = [w \in Offsets |-> mem[l][w]]
                      /\ latest[l] = [w \in Offsets |-> latest[l][w]]
                      /\ \A w \in Offsets : /\ mem[l][w] \in Versions(l, w)
                                           /\ latest[l][w] \in Versions(l, w)
    BY DEF HistoryInv
  <2>1. mem[l] = [w \in Offsets |-> <<l, w, 0>>] /\ latest[l] = mem[l]
    BY <1>1
  <2>2. \A w \in Offsets : mem[l][w] = <<l, w, 0>>
    BY <2>1
  <2>3. mem[l] = [w \in Offsets |-> mem[l][w]]
    BY <2>1, <2>2
  <2>4. \A w \in Offsets : <<l, w, 0>> \in Versions(l, w)
    BY DEF Versions
  <2> QED BY <2>1, <2>2, <2>3, <2>4
<1>3. RequestInv
  BY <1>0 DEF Init, RequestInv, NoReq, NoPulse
<1>4. ReadInv
  BY <1>0 DEF Init, ReadInv, NoPulse
<1>5. FillInv /\ LookInv
  BY DEF Init, FillInv, LookInv, OwnAnswer, NoFab
<1>6. FabInv
  BY <1>0 DEF Init, FabInv, NoFab, OwnAnswer, NoPulse, NoReq
<1>7. AnswerInv
  BY DEF Init, AnswerInv, NoSPulse
<1>8. TransferInv
  <2>1. Starters = {}
    BY DEF Init, Starters, NoFPulse, NoSPulse, NoPulse
  <2> QED BY <1>0, <2>1 DEF Init, TransferInv, Writing, EvIdle
<1>9. FlushInv
  BY <1>0 DEF Init, FlushInv, NoPulse, NoFPulse
<1>10. ArrayInv
  BY DEF Init, ArrayInv, Reset, Tags
<1>11. CoherentInv
  <2>1. \A l \in Used : TagState(Index(l)) = "I"
    BY UsedLines DEF Init, TagState, NoFPulse, NoSPulse, NoPulse, DirtyClear, DirtySet, Updated
  <2> QED BY <1>1, <2>1 DEF CoherentInv, Held, Dirty
<1>12. NameInv
  BY DEF Init, NameInv
<1> QED BY <1>2, <1>3, <1>4, <1>5, <1>6, <1>7, <1>8, <1>9, <1>10, <1>11, <1>12 DEF DataInv

LEMMA NameStep ==
  ASSUME Cycle, NameInv
  PROVE  NameInv'
<1>1. HartInv /\ state' = NextState
  BY CycleIs DEF Controller
<1>2. CASE state \in {"idle", "lookup", "peer", "evict"}
  BY <1>1, <1>2, StatesFollow DEF NameInv
<1>3. CASE state \in {"wait", "refill", "drain", "c2c", "ncread", "ncwrite"}
  BY <1>1, <1>3, StatesFollow DEF NameInv
<1> QED BY <1>2, <1>3 DEF NameInv

LEMMA DataSteps ==
  ASSUME "victim" \notin Windows, "dirty" \notin Windows,
         DCacheInv, DCacheInv', DataInv, [Next]_vars
  PROVE  DataInv'
<1>1. CASE Next
  <2>1. /\ Cycle /\ HistoryInv /\ RequestInv /\ ReadInv /\ FillInv /\ LookInv /\ FabInv /\ AnswerInv
        /\ TransferInv /\ FlushInv /\ ArrayInv /\ CoherentInv /\ NameInv
    BY <1>1 DEF DataInv, Cycle
  <2>2. HistoryInv' /\ ReadInv' /\ FillInv' /\ NameInv'
    BY <2>1, HistoryStep, ReadStep, FillStep, NameStep
  <2>3. RequestInv' /\ LookInv' /\ FabInv' /\ AnswerInv'
    BY <2>1, RequestStep, LookStep, FabStep, AnswerStep
  <2>4. TransferInv' /\ FlushInv' /\ ArrayInv'
    BY <2>1, TransferStep, FlushStep, ArrayStep
  <2>5. CoherentInv'
    BY <2>1, <2>3, <2>4, CoherentStep
  <2> QED BY <2>2, <2>3, <2>4, <2>5 DEF DataInv
<1>2. CASE UNCHANGED vars
  <2> USE <1>2 DEF vars, hart, ctl, lookups, miss, arrays, flush, snoop, axi
  <2>0. /\ HistoryInv /\ RequestInv /\ ReadInv /\ FillInv /\ LookInv /\ FabInv /\ AnswerInv
        /\ TransferInv /\ FlushInv /\ ArrayInv /\ CoherentInv /\ NameInv
    BY DEF DataInv
  <2>1. (HistoryInv /\ ReadInv /\ NameInv /\ ArrayInv)'
    BY <2>0 DEF HistoryInv, ReadInv, NameInv, ArrayInv
  <2>2. (RequestInv /\ LookInv)'
    BY <2>0 DEF RequestInv, LookInv, CpuReq, Here, OwnAnswer
  <2>3. FillInv'
    BY <2>0 DEF FillInv, Current, DataWord
  <2>4. FabInv'
    BY <2>0 DEF FabInv, OwnAnswer, Current, Held, TagState, TagAt, DirtyClear, DirtySet, Updated, DirtyIndex
  <2>5. AnswerInv'
    BY <2>0 DEF AnswerInv, Current, Here
  <2>6. TransferInv'
    BY <2>0 DEF TransferInv, Writing, Leaving, Here, Copy, Current, Sent, Starters, Start
  <2>7. FlushInv'
    BY <2>0 DEF FlushInv, Current
  <2>8. CoherentInv'
    BY <2>0 DEF CoherentInv, Held, Dirty, Filling, WordAt, DataWord, TagState, TagAt, DirtyClear, DirtySet,
                Updated, DirtyIndex
  <2> QED BY <2>1, <2>2, <2>3, <2>4, <2>5, <2>6, <2>7, <2>8 DEF DataInv
<1> QED BY <1>1, <1>2

\* The invariant as a theorem of the specification.
LEMMA CacheKeepsData ==
  ASSUME Windows = {}
  PROVE  Spec => [](DCacheInv /\ DataInv)
<1>1. "drain" \notin Windows /\ "snoop" \notin Windows /\ "victim" \notin Windows /\ "dirty" \notin Windows
  OBVIOUS
<1>2. Init => DCacheInv /\ DataInv
  BY InvStarts, DataStarts
<1>3. DCacheInv /\ DataInv /\ [Next]_vars => (DCacheInv /\ DataInv)'
  BY <1>1, InvSteps, DataSteps
<1> QED BY <1>2, <1>3, PTL DEF Spec

\* Blocks that are equal word by word are equal.
LEMMA WholeBlocks ==
  ASSUME HistoryInv, NEW l \in Used, NEW b, b = [w \in Offsets |-> b[w]],
         \A w \in Offsets : b[w] = latest[l][w]
  PROVE  b = latest[l]
<1>1. latest[l] = [w \in Offsets |-> latest[l][w]]
  BY DEF HistoryInv
<1>2. [w \in Offsets |-> b[w]] = [w \in Offsets |-> latest[l][w]]
  OBVIOUS
<1> QED BY <1>1, <1>2

\* Every register of the cache holds one of its values, the arrays and the fence
\* unit's index name lines in use, and memory holds each word at its address.
THEOREM DataIsTyped ==
  ASSUME Windows = {}
  PROVE  Spec => []TypeOK
<1>1. DCacheInv /\ DataInv => TypeOK
  <2> SUFFICES ASSUME DCacheInv, DataInv PROVE TypeOK
    OBVIOUS
  <2>1. HistoryInv /\ NameInv /\ ArrayInv /\ FlushInv /\ BitmapInv
    BY DEF DCacheInv, DataInv
  <2>2. ASSUME NEW l \in Used, NEW b, b = [w \in Offsets |-> b[w]],
               \A w \in Offsets : b[w] \in Versions(l, w)
        PROVE  b \in MemoryBlocks[l]
    <3>1. \A w \in Offsets : b[w] \in Items /\ b[w][1] = l /\ b[w][2] = w
      BY <2>2 DEF Versions, Items, Version
    <3>2. b \in Blocks
      BY <2>2, <3>1 DEF Blocks
    <3> QED BY <3>1, <3>2 DEF MemoryBlocks
  <2>3. \A l \in Used : mem[l] \in MemoryBlocks[l] /\ latest[l] \in MemoryBlocks[l]
    BY <2>1, <2>2 DEF HistoryInv
  <2>4. bitmap \subseteq Indexes
    BY <2>1 DEF BitmapInv
  <2> QED BY <2>1, <2>3, <2>4 DEF TypeOK, NameInv, ArrayInv, FlushInv
<1> QED BY <1>1, CacheKeepsData, PTL

\* dcache_cpu_response answers a load from the data array, from the beat of a
\* refill or from the line the peer forwarded: each time with the last value
\* stored in the word, by this hart or by an agent that took the line away.
THEOREM LoadsAreCurrent ==
  ASSUME Windows = {}
  PROVE  Spec => []LoadsSeeTheLatest
<1>1. DCacheInv /\ DataInv => LoadsSeeTheLatest
  <2> SUFFICES ASSUME DCacheInv, DataInv, Ready, req.kind = "load"
               PROVE  Answer = latest[req.line][req.word]
    BY DEF LoadsSeeTheLatest
  <2>0. /\ HartInv /\ HistoryInv /\ RequestInv /\ FillInv /\ LookInv /\ CoherentInv
        /\ req.line \in Used /\ req.word \in Offsets
    BY DEF DCacheInv, DataInv, RequestInv
  <2>1. state \in {"lookup", "refill", "c2c"} /\ ~fbusy
    <3>1. state # "idle"
      BY <2>0, NoIdleHit
    <3>2. state \notin {"ncread", "ncwrite"}
      BY <2>0 DEF RequestInv, IsNc
    <3> QED BY <3>1, <3>2 DEF Ready
  <2>2. cur.line = req.line /\ cur.word = req.word /\ ~cur.we
    BY <2>0, <2>1 DEF RequestInv, IsStore
  <2>3. CASE state = "lookup"
    <3>1. stable /\ look.hit
      BY <2>3 DEF Ready
    <3>2. Here(cur.line) /\ ~pulse.deferred
      BY <2>0, <2>3, <3>1 DEF LookInv, RequestInv
    <3>3. Held(cur.line)
      BY <2>3, <3>2, MissIsAlone, QuietArrays DEF Held, Here
    <3>4. WordAt(Index(cur.line), cur.word) = latest[cur.line][cur.word]
      BY <2>0, <2>2, <2>3, <3>3 DEF CoherentInv, Filling
    <3>5. Answer = DataWord(Index(cur.line), cur.word)
      BY <2>3 DEF Answer, LookupLine, LookupWord, IdleHitCheck
    <3> QED BY <2>2, <3>2, <3>4, <3>5 DEF WordAt
  <2>4. CASE state = "refill"
    <3>1. rd.word = cur.word
      BY <2>2, <2>4 DEF Ready
    <3>2. mem[cur.line][cur.word] = latest[cur.line][cur.word]
      BY <2>0, <2>2, <2>4, FillsFromMemory
    <3> QED BY <2>2, <2>4, <3>1, <3>2 DEF Answer, BeatItem
  <2>5. CASE state = "c2c"
    BY <2>0, <2>2, <2>5 DEF Answer, FillInv, Current
  <2> QED BY <2>1, <2>3, <2>4, <2>5
<1> QED BY <1>1, CacheKeepsData, PTL

\* dcache_snoop_ctrl answers an agent with the last value of every word of the
\* line when its snoop hits; when it misses, memory holds it.
THEOREM SnoopsAreCurrent ==
  ASSUME Windows = {}
  PROVE  Spec => []SnoopsSeeTheLatest
<1>1. DCacheInv /\ DataInv => SnoopsSeeTheLatest
  <2> SUFFICES ASSUME DCacheInv, DataInv, spulse.resp
               PROVE  (IF spulse.hit THEN sline ELSE mem[sreq.line]) = latest[sreq.line]
    BY DEF SnoopsSeeTheLatest
  <2>1. /\ FenceInv /\ SnoopInv /\ HistoryInv /\ AnswerInv /\ CoherentInv
        /\ spulse # NoSPulse
    BY DEF DCacheInv, DataInv, NoSPulse
  <2>2. sreq.line \in Used
    BY <2>1 DEF AnswerInv
  <2>3. CASE spulse.hit
    <3>1. Current(sline, sreq.line) /\ sline = [w \in Offsets |-> sline[w]]
      BY <2>1, <2>3 DEF AnswerInv
    <3> QED BY <2>1, <2>2, <2>3, <3>1, WholeBlocks DEF Current
  <2>4. CASE ~spulse.hit
    <3>1. ~Here(sreq.line) /\ ~spulse.inval /\ fpulse = NoFPulse /\ Quiet(pulse)
      BY <2>1, <2>4 DEF AnswerInv, FenceInv, SnoopInv
    <3>2. ~Dirty(sreq.line)
      BY <3>1 DEF Dirty, Here, TagState, TagAt, NoFPulse, Quiet, DirtyClear, DirtySet, Updated
    <3>3. \A w \in Offsets : mem[sreq.line][w] = latest[sreq.line][w]
      BY <2>1, <2>2, <3>2 DEF CoherentInv
    <3>4. mem[sreq.line] = [w \in Offsets |-> mem[sreq.line][w]]
      BY <2>1, <2>2 DEF HistoryInv
    <3> QED BY <2>1, <2>2, <2>4, <3>3, <3>4, WholeBlocks
  <2> QED BY <2>3, <2>4
<1> QED BY <1>1, CacheKeepsData, PTL

\* Between two accesses the last value of every word is in the cache when it
\* holds the line and in memory otherwise, and a clean line is a copy of
\* memory: no write-back, fence, snoop or refill loses a store.
THEOREM NoStoreIsLost ==
  ASSUME Windows = {}
  PROVE  Spec => []NothingIsLost
<1>1. DCacheInv /\ DataInv => NothingIsLost
  <2> SUFFICES ASSUME DCacheInv, DataInv, Settled
               PROVE  /\ \A i \in Indexes : states[i] # "I" => data[i] = latest[HeldAt(i)]
                      /\ \A i \in Indexes : states[i] \in {"S", "E"} => mem[HeldAt(i)] = latest[HeldAt(i)]
                      /\ \A l \in Used : states[Index(l)] # "M" \/ HeldAt(Index(l)) # l => mem[l] = latest[l]
    BY DEF NothingIsLost
  <2>0. HistoryInv /\ ArrayInv /\ CoherentInv
    BY DEF DataInv
  <2>1. \A i : TagState(i) = states[i] /\ TagAt(i) = tags[i]
    BY QuietArrays DEF Settled, NoPulse, NoSPulse, Quiet
  <2>2. \A i, w : WordAt(i, w) = data[i][w]
    BY DEF Settled, NoPulse, WordAt, DataWord
  <2>3. ~Filling
    BY DEF Settled, Filling
  <2>4. ASSUME NEW i \in Indexes, states[i] # "I"
        PROVE  HeldAt(i) \in Used /\ data[i] = latest[HeldAt(i)]
    <3>1. HeldAt(i) \in Used /\ Index(HeldAt(i)) = i /\ HeldAt(i)[1] = tags[i]
      BY <2>0, <2>4 DEF ArrayInv, HeldAt, Index
    <3>2. Held(HeldAt(i))
      BY <2>1, <2>4, <3>1 DEF Held
    <3>3. \A w \in Offsets : data[i][w] = latest[HeldAt(i)][w]
      BY <2>0, <2>2, <2>3, <3>1, <3>2 DEF CoherentInv
    <3>4. data[i] = [w \in Offsets |-> data[i][w]]
      BY <2>0 DEF ArrayInv
    <3> QED BY <2>0, <3>1, <3>3, <3>4, WholeBlocks
  <2>5. ASSUME NEW l \in Used, ~Dirty(l) PROVE mem[l] = latest[l]
    <3>1. mem[l] = [w \in Offsets |-> mem[l][w]]
      BY <2>0 DEF HistoryInv
    <3>2. \A w \in Offsets : mem[l][w] = latest[l][w]
      BY <2>0, <2>5 DEF CoherentInv
    <3> QED BY <2>0, <3>1, <3>2, WholeBlocks
  <2>6. \A i \in Indexes : states[i] \in {"S", "E"} => mem[HeldAt(i)] = latest[HeldAt(i)]
    <3> SUFFICES ASSUME NEW i \in Indexes, states[i] \in {"S", "E"}
                 PROVE  mem[HeldAt(i)] = latest[HeldAt(i)]
      OBVIOUS
    <3>1. HeldAt(i) \in Used /\ Index(HeldAt(i)) = i
      BY <2>4 DEF HeldAt, Index
    <3> QED BY <2>1, <2>5, <3>1 DEF Dirty
  <2>7. \A l \in Used : states[Index(l)] # "M" \/ HeldAt(Index(l)) # l => mem[l] = latest[l]
    <3> SUFFICES ASSUME NEW l \in Used, states[Index(l)] # "M" \/ HeldAt(Index(l)) # l
                 PROVE  mem[l] = latest[l]
      OBVIOUS
    <3>1. l = <<l[1], Index(l)>>
      BY UsedLines
    <3> QED BY <2>1, <2>5, <3>1 DEF Dirty, HeldAt
  <2> QED BY <2>4, <2>6, <2>7
<1> QED BY <1>1, CacheKeepsData, PTL
=============================================================================
