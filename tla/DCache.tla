------------------------------- MODULE DCache -------------------------------
(***************************************************************************)
(* One data cache, cache_interface/dcache: the controller and its response *)
(* logic, the tag and data arrays, the fence (flush) unit, the snoop unit  *)
(* and the AXI interface.  Around it stand the load/store unit of its hart *)
(* (one access at a time, an idle cycle between two), the snoop fabric     *)
(* with the other agents behind it (the peer cache and the coherent DMA),  *)
(* and memory.                                                             *)
(*                                                                         *)
(* The cache is direct-mapped, write-back and write-allocate.  One step is *)
(* one cycle of the clock: a conjunction of one action per unit.           *)
(*                                                                         *)
(* A word of data is <<line, word, version>>: where it belongs, and a      *)
(* version that every store to it changes.  Windows names the coincidences *)
(* that the environment is allowed to produce; see Apart.  A register that *)
(* nobody reads before it is written again is put back to its first value. *)
(***************************************************************************)
EXTENDS Naturals, FiniteSets

CONSTANTS
  Used,        \* the cache lines <<tag, index>> that are accessed
  Indexes,     \* the sets of the cache, 0 .. n
  Words,       \* words of a line
  Loads, Stores,     \* the <<line, word>> the hart loads and stores
  Devices,     \* TRUE: it accesses non-cacheable addresses too
  Snooped, Written,  \* lines other agents read, words they write
  Fences,      \* the fences the hart executes, subsets of {"flush", "inval"}
  Windows      \* the coincidences allowed

Offsets == 0 .. Words - 1
Version == {0, 1}
NoTag   == 0
NoLine  == <<NoTag, 0>>      \* address 0, and the line of a device: never cached
NoCheck == <<>>
NoData  == <<>>
Items   == (Used \cup {NoLine}) \X Offsets \X Version
Blocks  == [Offsets -> Items]
Index(l) == l[2]
Tags    == {l[1] : l \in Used} \cup {NoTag}

ASSUME CacheConstants ==
  /\ Used \subseteq (Nat \ {NoTag}) \X Indexes
  /\ Indexes \subseteq Nat /\ 0 \in Indexes /\ IsFiniteSet(Indexes)
  /\ Words \in Nat \ {0}
  /\ Loads \subseteq Used \X Offsets /\ Stores \subseteq Used \X Offsets
  /\ Devices \in BOOLEAN
  /\ Snooped \subseteq Used /\ Written \subseteq Snooped \X Offsets
  /\ Fences \subseteq SUBSET {"flush", "inval"}
  /\ Windows \subseteq {"drain", "snoop", "victim", "dirty"}

VARIABLES
  req, fence,               \* the hart: dcache_req with its operands, fence_type
  state, stable, cur,       \* controller: state, tag_lookup_stable, cur_*
  prev, ncJust,             \* prev_lookup_* with prev_was_idle_hit_check; nc_just_completed
  localDirty, accepted,     \* local_miss_dirty_r, miss_snoop_accepted_r
  fwd, fillWord,            \* peer_forward_line_r while pending, peer_fill_word_r
  pulse,                    \* the controller's one-cycle outputs
  tags, states, look,       \* tag array and its registered lookup
  data,                     \* data array
  fstate, findex, fbusy, finval, fdata, bitmap, fpulse,   \* fence unit
  sstate, sreq, sline, spulse,                            \* snoop unit
  rd, rvalid,               \* AXI read: state and beat; RVALID of the slave
  ev, evictDone,            \* AXI write: state, beat and what it writes
  fab,                      \* the snoop fabric in front of this cache
  mem, latest               \* memory; history: the last value stored in each word

hart    == <<req, fence>>
lookups == <<stable, prev, ncJust>>
miss    == <<localDirty, accepted, fwd, fillWord>>
ctl     == <<state, cur, pulse, lookups, miss>>
arrays  == <<tags, states, look, data>>
flush   == <<fstate, findex, fbusy, finval, fdata, bitmap, fpulse>>
snoop   == <<sstate, sreq, sline, spulse>>
axi     == <<rd, rvalid, ev, evictDone>>
vars == <<hart, ctl, arrays, flush, snoop, axi, fab, mem, latest>>

NoReq   == [kind |-> "none", line |-> NoLine, word |-> 0, item |-> NoData]
NoWrite == [index |-> 0, word |-> 0, item |-> NoData]
NoEvict == [line |-> NoLine, data |-> NoData, nc |-> FALSE]
\* refill_start with refill_nc, main_evict_start, data_write_enable; the index
\* of tagUpdate, dirtySet and dirtyClear is that of cur.
NoPulse  == [missReq |-> FALSE, refill |-> "no", evict |-> NoEvict, write |-> NoWrite,
             tagUpdate |-> FALSE, dirtySet |-> FALSE, dirtyClear |-> FALSE, deferred |-> FALSE]
NoFPulse == [evict |-> NoEvict, clear |-> FALSE, flushAll |-> FALSE, invAll |-> FALSE]
NoSPulse == [resp |-> FALSE, hit |-> FALSE, shared |-> FALSE, inval |-> FALSE, evict |-> NoEvict]
NoCur    == [line |-> NoLine, word |-> 0, item |-> NoData, we |-> FALSE]
NoSnoop  == [line |-> NoLine, read |-> FALSE]
Older(x) == <<x[1], x[2], 1 - x[3]>>                  \* another version of the word
Reset    == [w \in Offsets |-> <<NoLine, w, 0>>]      \* what reset leaves in a block

(***************************************************************************)
(* Wires.                                                                  *)
(***************************************************************************)
CpuReq   == req # NoReq
IsStore(r) == r.kind \in {"store", "ncstore"}
IsNc(r)    == r.kind \in {"ncload", "ncstore"}
SnoopReq == fab.state = "req"                    \* dc_snoop_req_valid
SnoopBusy == sstate # "idle"
LookupActive == sstate \in {"lookup", "capture"}
CpuReqNoSnoop == CpuReq /\ ~SnoopReq

IdleHitCheck == state = "idle" /\ CpuReq /\ fence = {} /\ ~fbusy /\ ~SnoopBusy /\ ~spulse.inval
LookupLine   == IF IdleHitCheck THEN req.line ELSE cur.line
LookupWord   == IF IdleHitCheck THEN req.word ELSE cur.word
IdleHit      == look.hit /\ prev = LookupLine /\ ~fbusy
\* The one lookup port of the tag array, and the whole-line port of the data array.
LookAt  == IF fbusy THEN <<NoTag, findex>> ELSE IF LookupActive THEN sreq.line ELSE LookupLine
ReadAll == IF fbusy THEN findex ELSE IF LookupActive THEN Index(sreq.line) ELSE Index(cur.line)

\* The data array forwards the word that is being written.
DataWord(i, w) == IF pulse.write # NoWrite /\ pulse.write.index = i /\ pulse.write.word = w
                  THEN pulse.write.item
                  ELSE data[i][w]
Block(i) == [w \in Offsets |-> DataWord(i, w)]

\* mutant: a snoop is accepted whatever the controller does
SnoopSafeAlways == /\ ~fbusy /\ fence = {}
                   /\ ~pulse.deferred /\ ~ncJust /\ ~spulse.inval
\* mutant: none is accepted while this cache waits for its own
SnoopSafeIdle == /\ state = "idle" /\ ~fbusy /\ fence = {}
                 /\ ~pulse.deferred /\ ~ncJust /\ ~spulse.inval
SnoopSafe == /\ state \in {"idle", "peer"} /\ ~fbusy /\ fence = {}
             /\ ~pulse.deferred /\ ~ncJust /\ ~spulse.inval
SnoopReady == sstate = "idle" /\ SnoopSafe

Beat       == rd.state = "R" /\ rvalid                    \* refill_data_valid
LastBeat   == rd.nc \/ rd.word = Words - 1
RefillDone == Beat /\ LastBeat
BeatItem   == mem[cur.line][rd.word]
FillDone   == state = "c2c" /\ fillWord = Words - 1
OwnAnswer  == fab.state = "answer" /\ fab.src = "own"     \* miss_snoop_resp_valid
OwnHit     == fab.data # NoData
OwnReady   == fab.state = "idle" /\ fab'.state = "req" /\ fab'.src = "own"   \* miss_snoop_req_ready

\* dcache_cpu_response
Ready ==
  /\ ~fbusy
  /\ CASE state = "idle"   -> /\ ~SnoopBusy /\ ~spulse.inval /\ CpuReq /\ IdleHit
                              /\ fence = {} /\ ~pulse.deferred
       [] state = "lookup" -> stable /\ look.hit
       [] state = "refill" -> IF cur.we THEN RefillDone ELSE Beat /\ rd.word = cur.word
       [] state = "ncread" -> RefillDone
       [] state = "ncwrite" -> evictDone
       [] state = "c2c"    -> FillDone
       [] OTHER -> FALSE
\* mutant: the first word of a forwarded line answers every load
AnswerFirst ==
  CASE state = "refill" -> BeatItem
    [] state = "c2c"    -> fwd[0]
    [] OTHER            -> DataWord(Index(LookupLine), LookupWord)
Answer ==
  CASE state = "refill" -> BeatItem
    [] state = "c2c"    -> fwd[cur.word]
    [] OTHER            -> DataWord(Index(LookupLine), LookupWord)

(***************************************************************************)
(* dcache_next_state.                                                      *)
(***************************************************************************)
Accept == /\ ~fbusy /\ ~SnoopBusy /\ ~spulse.inval /\ CpuReqNoSnoop /\ fence = {}
          /\ ~ncJust /\ ~pulse.deferred
Miss   == stable /\ ~look.hit
NextState ==
  CASE state = "idle" /\ Accept /\ IsNc(req) -> IF IsStore(req) THEN "ncwrite" ELSE "ncread"
    [] state = "idle" /\ Accept /\ ~IsNc(req) -> IF IdleHit THEN "idle" ELSE "lookup"
    [] state = "lookup" /\ stable /\ look.hit -> "idle"
    [] state = "lookup" /\ Miss /\ ~cur.we -> "peer"
    [] state = "lookup" /\ Miss /\ cur.we -> IF look.dirty THEN "evict" ELSE "refill"
    [] state = "peer" /\ OwnAnswer -> IF localDirty THEN "evict"
                                      ELSE IF OwnHit THEN "c2c" ELSE "refill"
    [] state = "evict" /\ evictDone -> "wait"
    [] state = "wait" -> IF fwd # NoData THEN "c2c" ELSE "refill"
    [] state = "refill" /\ RefillDone -> "idle"
    [] state = "refill" /\ ~RefillDone /\ ~cur.we /\ Beat /\ rd.word = cur.word -> "drain"
    [] state = "drain" /\ RefillDone -> "idle"
    [] state = "c2c" /\ FillDone -> "idle"
    [] state = "ncread" /\ RefillDone -> "idle"
    [] state = "ncwrite" /\ evictDone -> "idle"
    [] OTHER -> state

(***************************************************************************)
(* The controller's datapath, one action per state.  A pulse lasts one     *)
(* cycle.  While the fence unit is busy the datapath stands still.         *)
(***************************************************************************)
Emit(p) == pulse' = p
Hold    == UNCHANGED <<cur, miss>>
WriteOf(i, w, x) == [index |-> i, word |-> w, item |-> x]
CurWrite  == WriteOf(Index(cur.line), cur.word, cur.item)
BeatWrite == IF Beat THEN WriteOf(Index(cur.line), rd.word, BeatItem) ELSE NoWrite
\* mutant: the write-back goes to the address of the miss
VictimOfCur == [line |-> cur.line, data |-> Block(ReadAll), nc |-> FALSE]
Victim    == [line |-> <<look.tag, Index(cur.line)>>, data |-> Block(ReadAll), nc |-> FALSE]

Idle ==
  /\ state = "idle"
  /\ accepted' = FALSE /\ localDirty' = FALSE /\ UNCHANGED <<fwd, fillWord>>
  /\ cur' = IF Accept THEN [line |-> req.line, word |-> req.word, item |-> req.item,
                            we |-> IsStore(req)] ELSE NoCur
  /\ Emit(IF pulse.deferred THEN [NoPulse EXCEPT !.write = CurWrite]
          ELSE IF ~Accept THEN NoPulse
          ELSE IF IsNc(req) /\ IsStore(req) THEN [NoPulse EXCEPT !.evict.nc = TRUE]
          ELSE IF IsNc(req) THEN [NoPulse EXCEPT !.refill = "nc"]
          ELSE IF IdleHit /\ IsStore(req)
               THEN [NoPulse EXCEPT !.write = WriteOf(Index(req.line), req.word, req.item),
                                    !.dirtySet = TRUE]
          ELSE NoPulse)
Lookup ==
  /\ state = "lookup" /\ ~stable /\ Emit(NoPulse) /\ Hold
LookupHit ==
  /\ state = "lookup" /\ stable /\ look.hit
  /\ Emit(IF cur.we THEN [NoPulse EXCEPT !.write = CurWrite, !.dirtySet = TRUE] ELSE NoPulse)
  /\ Hold
\* A read miss asks the peer first; a write miss goes to memory at once.
LookupMiss ==
  /\ state = "lookup" /\ Miss
  /\ localDirty' = look.dirty /\ UNCHANGED <<cur, accepted, fwd, fillWord>>
  /\ Emit(IF ~cur.we THEN NoPulse
          ELSE IF look.dirty THEN [NoPulse EXCEPT !.evict = Victim]
          ELSE [NoPulse EXCEPT !.refill = "line"])
PeerSnoop ==
  /\ state = "peer" /\ OwnAnswer
  /\ fwd' = IF OwnHit THEN fab.data ELSE fwd
  /\ fillWord' = IF OwnHit THEN 0 ELSE fillWord
  /\ Emit(IF localDirty THEN [NoPulse EXCEPT !.evict = Victim]
          ELSE IF OwnHit THEN NoPulse ELSE [NoPulse EXCEPT !.refill = "line"])
  /\ UNCHANGED <<cur, localDirty, accepted>>
PeerAsk ==
  /\ state = "peer" /\ ~OwnAnswer
  /\ Emit([NoPulse EXCEPT !.missReq = ~accepted])
  /\ accepted' = (accepted \/ OwnReady)
  /\ UNCHANGED <<cur, localDirty, fwd, fillWord>>
Evict ==
  /\ state = "evict" /\ Emit([NoPulse EXCEPT !.dirtyClear = evictDone]) /\ Hold
Wait ==
  /\ state = "wait"
  /\ Emit(IF fwd # NoData THEN NoPulse ELSE [NoPulse EXCEPT !.refill = "line"])
  /\ Hold
Refill ==
  /\ state = "refill"
  /\ Emit([NoPulse EXCEPT !.write = BeatWrite, !.tagUpdate = RefillDone,
                          !.deferred = RefillDone /\ cur.we, !.dirtySet = RefillDone /\ cur.we])
  /\ Hold
Drain ==
  /\ state = "drain"
  /\ Emit([NoPulse EXCEPT !.write = BeatWrite, !.tagUpdate = RefillDone]) /\ Hold
C2CFill ==
  /\ state = "c2c"
  /\ Emit([NoPulse EXCEPT !.write = WriteOf(Index(cur.line), fillWord, fwd[fillWord]),
                          !.tagUpdate = FillDone])
  /\ fwd' = IF FillDone THEN NoData ELSE fwd
  /\ fillWord' = IF FillDone THEN 0 ELSE fillWord + 1
  /\ UNCHANGED <<cur, localDirty, accepted>>
NonCacheable == state \in {"ncread", "ncwrite"} /\ Emit(NoPulse) /\ Hold
Frozen == fbusy /\ Emit(NoPulse) /\ Hold

Datapath == ~fbusy /\ ( \/ Idle \/ Lookup \/ LookupHit \/ LookupMiss \/ PeerSnoop \/ PeerAsk
                        \/ Evict \/ Wait \/ Refill \/ Drain \/ C2CFill \/ NonCacheable )
Controller ==
  /\ state' = NextState
  /\ stable' = (state = "lookup")
  /\ prev' = IF IdleHitCheck THEN req.line ELSE NoCheck
  /\ ncJust' = \/ state = "ncwrite" /\ evictDone
               \/ state = "ncread" /\ RefillDone
  /\ Datapath \/ Frozen

(***************************************************************************)
(* dcache_tag_array and dcache_data_array.  When several updates meet on a *)
(* line, the one listed first wins.                                        *)
(***************************************************************************)
DirtyIndex == IF fpulse.clear THEN findex ELSE Index(cur.line)
DirtyClear(i) == (fpulse.clear \/ pulse.dirtyClear) /\ i = DirtyIndex
DirtySet(i)   == pulse.dirtySet /\ i = DirtyIndex
Updated(i)    == pulse.tagUpdate /\ i = Index(cur.line)
\* mutant: a refill hides the store that caused it
TagStateRefillFirst(i) ==
  IF fpulse.invAll THEN "I"
  ELSE IF fpulse.flushAll THEN IF states[i] = "M" THEN "E" ELSE states[i]
  ELSE IF DirtyClear(i) /\ states[i] # "I" THEN "E"
  ELSE IF Updated(i) THEN "E"
  ELSE IF DirtySet(i) THEN "M"
  ELSE IF spulse.shared /\ i = Index(sreq.line) /\ states[i] # "I" THEN "S"
  ELSE IF spulse.inval /\ i = Index(sreq.line) THEN "I"
  ELSE states[i]
TagState(i) ==
  IF fpulse.invAll THEN "I"
  ELSE IF fpulse.flushAll THEN IF states[i] = "M" THEN "E" ELSE states[i]
  ELSE IF DirtyClear(i) /\ states[i] # "I" THEN "E"
  ELSE IF DirtySet(i) THEN "M"
  ELSE IF Updated(i) THEN "E"
  ELSE IF spulse.shared /\ i = Index(sreq.line) /\ states[i] # "I" THEN "S"
  ELSE IF spulse.inval /\ i = Index(sreq.line) THEN "I"
  ELSE states[i]
Arrays ==
  /\ states' = [i \in Indexes |-> TagState(i)]
  /\ tags' = [i \in Indexes |-> IF Updated(i) /\ ~fpulse.invAll /\ ~fpulse.flushAll
                                THEN cur.line[1] ELSE tags[i]]
  /\ look' = LET i == LookAt[2] IN
             [hit |-> states[i] # "I" /\ tags[i] = LookAt[1], dirty |-> states[i] = "M",
              tag |-> tags[i], state |-> states[i]]
  /\ data' = [i \in Indexes |-> Block(i)]

(***************************************************************************)
(* dcache_flush_ctrl: a fence that flushes evicts the dirty lines one by   *)
(* one, found in a bitmap kept beside the tag array.                       *)
(***************************************************************************)
Lowest(S) == CHOOSE i \in S : \A j \in S : i <= j
FlushIdle ==
  /\ fstate = "idle" /\ fpulse' = NoFPulse /\ UNCHANGED <<findex, fdata>>
  /\ IF fence = {} THEN UNCHANGED <<fstate, fbusy, finval>>
     ELSE /\ finval' = ("inval" \in fence) /\ fbusy' = TRUE
          /\ fstate' = IF "flush" \in fence THEN "scan" ELSE "done"
FlushScan ==
  /\ fstate = "scan" /\ fpulse' = NoFPulse /\ UNCHANGED <<fbusy, finval, fdata>>
  /\ fstate' = IF bitmap = {} THEN "done" ELSE "settle"
  /\ findex' = IF bitmap = {} THEN findex ELSE Lowest(bitmap)
FlushSettle ==
  /\ fstate = "settle" /\ fstate' = "tagwait" /\ fdata' = Block(ReadAll)
  /\ fpulse' = NoFPulse /\ UNCHANGED <<findex, fbusy, finval>>
FlushTagWait ==
  /\ fstate = "tagwait" /\ fstate' = "evict"
  /\ fpulse' = [NoFPulse EXCEPT
                  !.evict = [line |-> <<look.tag, findex>>, data |-> fdata, nc |-> FALSE]]
  /\ fdata' = NoData /\ UNCHANGED <<findex, fbusy, finval>>
FlushEvict ==
  /\ fstate = "evict"
  /\ fstate' = IF evictDone THEN "scan" ELSE "evict"
  /\ fpulse' = [NoFPulse EXCEPT !.clear = evictDone]
  /\ UNCHANGED <<findex, fbusy, finval, fdata>>
FlushDone ==
  /\ fstate = "done" /\ fstate' = "idle" /\ fbusy' = FALSE
  /\ fpulse' = [NoFPulse EXCEPT !.invAll = finval, !.flushAll = ~finval /\ "flush" \in fence]
  /\ findex' = 0 /\ finval' = FALSE /\ UNCHANGED fdata
\* mutant: a line that a snoop took away stays in the bitmap
TrackedAfterSnoop ==
  LET set   == IF pulse.dirtySet THEN {DirtyIndex} ELSE {}
      clear == IF fpulse.clear \/ pulse.dirtyClear THEN {DirtyIndex} ELSE {}
  IN  IF fpulse.flushAll \/ fpulse.invAll THEN {} ELSE (bitmap \cup set) \ clear
\* mutant: only the end of a fence empties the bitmap
TrackedForever ==
  IF fpulse.flushAll \/ fpulse.invAll THEN {}
  ELSE bitmap \cup IF pulse.dirtySet THEN {DirtyIndex} ELSE {}
Tracked ==
  LET set   == IF pulse.dirtySet THEN {DirtyIndex} ELSE {}
      clear == IF fpulse.clear \/ pulse.dirtyClear THEN {DirtyIndex} ELSE {}
      gone  == IF spulse.inval THEN {Index(sreq.line)} ELSE {}
  IN  IF fpulse.flushAll \/ fpulse.invAll THEN {} ELSE ((bitmap \cup set) \ clear) \ gone
Flush ==
  /\ bitmap' = Tracked
  /\ \/ FlushIdle \/ FlushScan \/ FlushSettle \/ FlushTagWait \/ FlushEvict \/ FlushDone

(***************************************************************************)
(* dcache_snoop_ctrl.                                                      *)
(***************************************************************************)
SnoopIdle ==
  /\ sstate = "idle" /\ spulse' = NoSPulse
  /\ sline' = NoData           \* its answer was given in this cycle or before
  /\ IF SnoopReq /\ SnoopReady
     THEN sstate' = "lookup" /\ sreq' = [line |-> fab.line, read |-> fab.src = "read"]
     ELSE sstate' = "idle" /\ sreq' = NoSnoop
SnoopLookup ==
  sstate = "lookup" /\ sstate' = "capture" /\ spulse' = NoSPulse /\ UNCHANGED <<sreq, sline>>
\* A dirty line is written back before the answer that takes it away.
SnoopCapture ==
  /\ sstate = "capture" /\ sline' = Block(ReadAll) /\ UNCHANGED sreq
  /\ IF look.hit /\ look.dirty /\ ~sreq.read
     THEN /\ sstate' = "evict"
          /\ spulse' = [NoSPulse EXCEPT
                          !.evict = [line |-> sreq.line, data |-> Block(ReadAll), nc |-> FALSE]]
     ELSE /\ sstate' = "idle"
          /\ spulse' = [NoSPulse EXCEPT !.resp = TRUE, !.hit = look.hit,
                          !.shared = look.hit /\ sreq.read /\ look.state = "E",
                          !.inval = look.hit /\ ~sreq.read]
SnoopEvict ==
  /\ sstate = "evict" /\ UNCHANGED <<sreq, sline>>
  /\ sstate' = IF evictDone THEN "idle" ELSE "evict"
  /\ spulse' = IF evictDone THEN [NoSPulse EXCEPT !.resp = TRUE, !.hit = TRUE, !.inval = TRUE]
               ELSE NoSPulse
Snoop == SnoopIdle \/ SnoopLookup \/ SnoopCapture \/ SnoopEvict

(***************************************************************************)
(* dcache_axi_interface, with the memory behind it.  The slave takes each  *)
(* address and beat when it likes.                                         *)
(***************************************************************************)
ReadIdle ==
  /\ rd.state = "idle"
  /\ rd' = IF pulse.refill = "no" THEN rd
           ELSE [state |-> "latch", nc |-> pulse.refill = "nc", word |-> 0]
ReadLatch == rd.state = "latch" /\ rd' = [rd EXCEPT !.state = "AR"]
ReadAddress == rd.state = "AR" /\ \E s \in {"AR", "R"} : rd' = [rd EXCEPT !.state = s]
ReadData ==
  /\ rd.state = "R"
  /\ rd' = IF RefillDone THEN [state |-> "idle", nc |-> FALSE, word |-> 0]
           ELSE IF Beat THEN [rd EXCEPT !.word = @ + 1] ELSE rd
Read == /\ ReadIdle \/ ReadLatch \/ ReadAddress \/ ReadData
        /\ rvalid' \in IF rd'.state = "R" THEN BOOLEAN ELSE {FALSE}

Starters == {u \in {"fence", "snoop", "controller"} :
               NoEvict # CASE u = "fence" -> fpulse.evict [] u = "snoop" -> spulse.evict
                           [] u = "controller" -> pulse.evict}
Start  == IF fpulse.evict # NoEvict THEN fpulse.evict
          ELSE IF spulse.evict # NoEvict THEN spulse.evict ELSE pulse.evict
EvIdle == [state |-> "idle", beat |-> 0, evict |-> NoEvict]
EvictIdle ==
  /\ ev.state = "idle"
  /\ ev' = IF Starters = {} THEN ev ELSE [state |-> "AW", beat |-> 0, evict |-> Start]
EvictAddress == ev.state = "AW" /\ \E s \in {"AW", "W"} : ev' = [ev EXCEPT !.state = s]
EvictBeat ==
  /\ ev.state = "W"
  /\ ev' = IF ev.evict.nc \/ ev.beat = Words - 1 THEN [EvIdle EXCEPT !.state = "B"]
           ELSE [ev EXCEPT !.beat = @ + 1]
EvictStall == ev.state = "W" /\ UNCHANGED ev
EvictReply == ev.state = "B" /\ \E s \in {"B", "idle"} : ev' = [EvIdle EXCEPT !.state = s]
Write == /\ EvictIdle \/ EvictAddress \/ EvictBeat \/ EvictStall \/ EvictReply
         /\ evictDone' = (ev.state = "B" /\ ev'.state = "idle")

(***************************************************************************)
(* The fabric, and the agents behind it.  An agent that took a line away   *)
(* may write it: memory then holds the latest value.                       *)
(***************************************************************************)
NoFab == [state |-> "idle", src |-> "none", line |-> NoLine, data |-> NoData]
Ask(src, l) == fab' = [state |-> "req", src |-> src, line |-> l, data |-> NoData]
FabIdle == fab.state = "idle" /\ UNCHANGED fab
FabOwn  == fab.state = "idle" /\ pulse.missReq /\ Ask("own", cur.line)
FabAgent == /\ fab.state = "idle"
            /\ \E src \in {"read", "inval"}, l \in Snooped : Ask(src, l)
FabReq  == fab.state = "req" /\ fab' = [fab EXCEPT !.state = IF SnoopReady THEN "wait" ELSE "req"]
FabWait == fab.state = "wait" /\ ~spulse.resp /\ UNCHANGED fab
\* A peer that holds the line holds it clean and up to date.
FabAnswer ==
  /\ fab.state = "wait" /\ spulse.resp
  /\ \E d \in IF spulse.hit THEN {sline}
              ELSE IF fab.src = "own" THEN {NoData, mem[fab.line]} ELSE {NoData} :
       fab' = [fab EXCEPT !.state = "answer", !.data = d]
FabEnd == fab.state = "answer" /\ fab' = NoFab
Fabric == FabIdle \/ FabOwn \/ FabAgent \/ FabReq \/ FabWait \/ FabAnswer \/ FabEnd

AgentWrites == IF fab.state = "answer" /\ fab.src = "inval"
               THEN {w \in Offsets : <<fab.line, w>> \in Written} ELSE {}
BeatWritten(l, w) == /\ ev.state = "W" /\ ev' # ev
                     /\ ev.evict.line = l /\ ev.beat = w /\ ~ev.evict.nc
Memory == \E written \in SUBSET AgentWrites :
  LET agent(l, w) == w \in written /\ l = fab.line
      hartStores(l, w) == Ready /\ req.kind = "store" /\ req.line = l /\ req.word = w
  IN  /\ mem' = [l \in Used |-> [w \in Offsets |->
                   IF agent(l, w) THEN Older(latest[l][w])
                   ELSE IF BeatWritten(l, w) THEN ev.evict.data[w] ELSE mem[l][w]]]
      /\ latest' = [l \in Used |-> [w \in Offsets |->
                   IF agent(l, w) THEN Older(latest[l][w])
                   ELSE IF hartStores(l, w) THEN req.item ELSE latest[l][w]]]

(***************************************************************************)
(* The hart.  A fence waits until its accesses are done; after a load that *)
(* takes one cycle more, for the result to be taken.                       *)
(***************************************************************************)
Requests ==
  {[kind |-> "load", line |-> a[1], word |-> a[2], item |-> NoData] : a \in Loads}
  \cup {[kind |-> "store", line |-> a[1], word |-> a[2], item |-> Older(latest[a[1]][a[2]])] :
          a \in Stores}
  \cup IF Devices THEN {[NoReq EXCEPT !.kind = k] : k \in {"ncload", "ncstore"}} ELSE {}
HartWait    == CpuReq /\ ~Ready /\ UNCHANGED hart
HartEnd     == CpuReq /\ Ready /\ req' = NoReq /\ fence' = {}
HartFence   == /\ CpuReq => Ready /\ IsStore(req)
               /\ fence' \in Fences /\ req' = NoReq
HartIdle    == ~CpuReq /\ req' = NoReq /\ fence' = {}
HartRequest == ~CpuReq /\ fence = {} /\ req' \in Requests /\ fence' = {}
Hart == HartWait \/ HartEnd \/ HartFence \/ HartIdle \/ HartRequest

\* What the environment avoids, unless Windows has its name.
Apart ==
  \* "drain": a fence while the rest of a line arrives whose first word was loaded
  /\ "drain" \in Windows \/ fence' = {} \/ state' # "drain"
  \* "snoop": a fence while a snoop is looked up or written back
  /\ "snoop" \in Windows \/ fence' = {} \/ sstate' = "idle"
  \* "victim": an agent takes away a line that a load is about to displace
  /\ \/ "victim" \in Windows \/ fab'.src # "inval" \/ req'.kind # "load"
     \/ fab'.line = req'.line \/ Index(fab'.line) # Index(req'.line)
  \* "dirty": a fence that invalidates and does not flush, over dirty lines
  /\ \/ "dirty" \in Windows \/ fence' # {"inval"}
     \/ ~pulse'.dirtySet /\ \A i \in Indexes : states'[i] # "M"

Init ==
  /\ req = NoReq /\ fence = {}
  /\ state = "idle" /\ stable = FALSE /\ prev = NoCheck /\ ncJust = FALSE
  /\ cur = NoCur
  /\ localDirty = FALSE /\ accepted = FALSE /\ fwd = NoData /\ fillWord = 0
  /\ pulse = NoPulse
  /\ tags = [i \in Indexes |-> NoTag] /\ states = [i \in Indexes |-> "I"]
  /\ look = [hit |-> FALSE, dirty |-> FALSE, tag |-> NoTag, state |-> "I"]
  /\ data = [i \in Indexes |-> Reset]
  /\ fstate = "idle" /\ findex = 0 /\ fbusy = FALSE /\ finval = FALSE /\ fdata = NoData
  /\ bitmap = {} /\ fpulse = NoFPulse
  /\ sstate = "idle" /\ sreq = NoSnoop /\ sline = NoData
  /\ spulse = NoSPulse
  /\ rd = [state |-> "idle", nc |-> FALSE, word |-> 0] /\ rvalid = FALSE
  /\ ev = EvIdle /\ evictDone = FALSE
  /\ fab = NoFab
  /\ mem = [l \in Used |-> [w \in Offsets |-> <<l, w, 0>>]] /\ latest = mem

Next == /\ Fabric /\ Controller /\ Arrays /\ Flush /\ Snoop /\ Read /\ Write /\ Memory /\ Hart
        /\ Apart

Spec == Init /\ [][Next]_vars

(***************************************************************************)
(* Fairness: the clock runs, the slaves of the AXI bus answer, and the     *)
(* fabric grants a request it is asked for again and again.                *)
(***************************************************************************)
\* A system that rests for ever does so in a state that a cycle may leave unchanged.
ClockRuns == []<><<TRUE>>_vars \/ []<>ENABLED (UNCHANGED vars /\ Next)
Fairness == /\ ClockRuns
            /\ []<>(rd.state # "AR") /\ []<>(rd.state # "R" \/ rvalid)
            /\ []<>(ev.state # "AW") /\ []<>(ev.state # "W") /\ []<>(ev.state # "B")
            /\ ([]<>(pulse.missReq /\ fab.state = "idle") => []<>(fab.src = "own"))
FairSpec == Spec /\ Fairness

(***************************************************************************)
(* Properties.                                                             *)
(***************************************************************************)
\* Every register holds one of its values.
MemoryBlocks == [l \in Used |-> {b \in Blocks : \A w \in Offsets : b[w][1] = l /\ b[w][2] = w}]
TypeOK ==
  /\ state \in {"idle", "lookup", "peer", "evict", "wait", "refill", "drain", "c2c",
                "ncread", "ncwrite"}
  /\ tags \in [Indexes -> Tags] /\ states \in [Indexes -> {"I", "S", "E", "M"}]
  /\ bitmap \subseteq Indexes /\ findex \in Indexes
  /\ fence \in Fences \cup {{}}
  /\ \A l \in Used : mem[l] \in MemoryBlocks[l] /\ latest[l] \in MemoryBlocks[l]

\* A load returns the last value stored in its word, by this hart or by an
\* agent that took the line away (dcache_cpu_response).
LoadsSeeTheLatest ==
  Ready /\ req.kind = "load" => Answer = latest[req.line][req.word]

\* An agent whose snoop hits is given the last value of every word of the
\* line; when it misses, memory holds it.
SnoopsSeeTheLatest ==
  spulse.resp /\ fab.src \in {"read", "inval"} =>
    (IF spulse.hit THEN sline ELSE mem[sreq.line]) = latest[sreq.line]

\* The three units that write lines back share one engine without a
\* handshake: no start is lost because it is busy or meets another.
NoStartIsLost == Starters # {} => Cardinality(Starters) = 1 /\ ev.state = "idle"

\* When nothing is under way, the last value of every word is in the cache
\* if it holds the line and in memory otherwise; a clean line is a copy of
\* memory, and the bitmap of the fence unit names the dirty lines.
Settled == /\ state = "idle" /\ pulse = NoPulse /\ fstate = "idle" /\ fpulse = NoFPulse
           /\ sstate = "idle" /\ spulse = NoSPulse /\ ev.state = "idle" /\ ~evictDone
HeldAt(i) == <<tags[i], i>>
NothingIsLost == Settled =>
  /\ \A i \in Indexes : states[i] # "I" => data[i] = latest[HeldAt(i)]
  /\ \A i \in Indexes : states[i] \in {"S", "E"} => mem[HeldAt(i)] = latest[HeldAt(i)]
  /\ \A l \in Used : states[Index(l)] # "M" \/ HeldAt(Index(l)) # l => mem[l] = latest[l]
DirtyLinesTracked == Settled => bitmap = {i \in Indexes : states[i] = "M"}

\* Every access is answered, and the fence unit comes to an end.
Answered == []<>~CpuReq
FencesEnd == []<>~fbusy
=============================================================================
