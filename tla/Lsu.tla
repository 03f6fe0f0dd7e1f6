--------------------------------- MODULE Lsu ---------------------------------
(***************************************************************************)
(* The load/store unit of a core, cpu/core/LSU.v, with the two pipeline    *)
(* stages in front of it (riscv_cpu_core_v2, hazard_detection): stores go  *)
(* through a circular store buffer, loads through a circular load queue,   *)
(* and both share the one port of the data cache.  A load whose word is in *)
(* the store buffer is given the data from there (forwarding).  One step   *)
(* is one cycle of the clock.                                              *)
(*                                                                         *)
(* A word is a function from its byte lanes to versions; each store gives  *)
(* its lanes the next version.  The history variable prog is memory as the *)
(* program has it: every load and store meets it in program order, when it *)
(* enters EX, and a load carries along the value it ought to return.       *)
(*                                                                         *)
(* Windows names the kinds of program that are allowed; see LoadApart.     *)
(***************************************************************************)
EXTENDS Naturals, Sequences, FiniteSets

CONSTANTS
  SbDepth, LqDepth,   \* entries of the store buffer and of the load queue
  Words, Devices,     \* the words accessed, those of them that are device registers
  Lanes, NumVersions, \* byte lanes of a word, and versions of a lane
  Strobes,            \* the sets of lanes a store may write
  Regs,               \* registers; 0 is x0
  LoadOps, StoreOps,  \* the <<word, register>> of loads, <<word, lanes>> of stores
  Windows

Versions == 0 .. NumVersions - 1
Values   == [Lanes -> Versions]
SbSlots  == 0 .. SbDepth - 1
LqSlots  == 0 .. LqDepth - 1

ASSUME LsuConstants ==
  /\ SbDepth \in Nat \ {0} /\ LqDepth \in Nat \ {0}
  /\ Devices \subseteq Words /\ Strobes \subseteq SUBSET Lanes
  /\ Regs \subseteq Nat /\ NumVersions \in Nat \ {0}
  /\ LoadOps \subseteq Words \X Regs /\ StoreOps \subseteq Words \X Strobes
  /\ Windows \subseteq {"forward", "overtake", "device", "reload", "fence", "use"}

VARIABLES
  id,                        \* in ID: a fence, a reader of the load in EX ("use"), or another
  ex, mem, sent,             \* the memory operation in EX and in MEM; lsu_req_sent
  sb, sbWr, sbRd, sbCount,   \* store buffer
  lq, lqWr, lqRd, lqCount,   \* load queue
  scoreboard,                \* registers a load is under way for
  loadState, cur, result,    \* load FSM, cur_load_*, result_* while result_valid
  drain,                     \* drain_state = DRAIN_REQ
  ready,                     \* dcache_ready in this cycle
  memory, prog               \* what the cache holds; history: what the program has stored

pipe  == <<id, ex, mem, sent>>
store == <<sb, sbWr, sbRd, sbCount>>
load  == <<lq, lqWr, lqRd, lqCount>>
fsms  == <<loadState, cur, result, drain, scoreboard>>
vars  == <<pipe, store, load, fsms, ready, memory, prog>>

None == [kind |-> "none"]
LoadOp(w, r, x)  == [kind |-> "load", word |-> w, rd |-> r, expect |-> x]
StoreOp(w, s, x) == [kind |-> "store", word |-> w, strb |-> s, data |-> x]
Operations == {LoadOp(a[1], a[2], x) : a \in LoadOps, x \in Values}
              \cup {StoreOp(a[1], a[2], x) : a \in StoreOps, x \in Values}
Entry(op, hit, x) == [op |-> op, fwd |-> hit, data |-> x]    \* of the load queue

Merge(old, s, x) == [l \in Lanes |-> IF l \in s THEN x[l] ELSE old[l]]
Newer(old, s)    == [l \in Lanes |-> IF l \in s THEN (old[l] + 1) % NumVersions ELSE 0]
Zero == [l \in Lanes |-> 0]

(***************************************************************************)
(* Wires.                                                                  *)
(***************************************************************************)
\* mutant: the unit is idle as soon as both queues are empty
IdleQueues == sbCount = 0 /\ lqCount = 0
Idle == /\ sbCount = 0 /\ lqCount = 0 /\ loadState = "idle" /\ ~drain /\ result = None  \* lsu_idle
ReqValid   == mem # None /\ ~sent
FenceStall == id = "fence" /\ (~Idle \/ ReqValid)
FenceActive == id = "fence" /\ ~FenceStall     \* dcache_fence_type
LoadUse  == id = "use"                         \* load_use_hazard
\* mutant: a store is taken into a full buffer
ReqReadyLate ==
  ~FenceActive /\ IF mem.kind = "load" THEN lqCount # LqDepth ELSE sbCount # SbDepth + 1
ReqReady == ~FenceActive /\ IF mem.kind = "load" THEN lqCount # LqDepth ELSE sbCount # SbDepth
DoStore  == ReqValid /\ ReqReady /\ mem.kind = "store"
DoLoad   == ReqValid /\ ReqReady /\ mem.kind = "load"
MemWait  == ReqValid /\ ~ReqReady              \* mem_stage_wait

\* Forwarding takes each lane from the matching entry with the highest index.
Matching(w) == {i \in SbSlots : sb[i] # None /\ sb[i].word = w}
FwdHit(w) == /\ w \notin Devices
             /\ \A l \in Lanes : \E i \in Matching(w) : l \in sb[i].strb
FwdLane(w, l) == LET S == {i \in Matching(w) : l \in sb[i].strb}
                 IN  sb[CHOOSE i \in S : \A j \in S : j <= i].data[l]
FwdData(w) == [l \in Lanes |-> FwdLane(w, l)]

UsesCache == loadState = "dcache"              \* load_using_dcache
Oldest    == lq[lqRd]
\* mutant: a load does not wait for partial stores
ConflictNever == FALSE
Conflict  == \E i \in Matching(Oldest.op.word) : sb[i].strb # Lanes   \* sb_addr_conflict
\* mutant: a load starts while a store is on the port (FIX-DRAIN-RACE)
DequeueAlways ==
  /\ lqCount # 0 /\ loadState = "idle" /\ result = None /\ ~FenceActive
  /\ Oldest.fwd \/ ~Conflict
Dequeue   == /\ lqCount # 0 /\ loadState = "idle" /\ result = None /\ ~FenceActive
             /\ ~drain /\ (Oldest.fwd \/ ~Conflict)
DrainPop  == drain /\ ready /\ ~UsesCache

\* What the LSU asks of the cache.
Request == IF UsesCache THEN cur ELSE IF drain THEN sb[sbRd] ELSE None

(***************************************************************************)
(* The programs the environment avoids, unless Windows has their name; see *)
(* README for what goes wrong with each.                                   *)
(***************************************************************************)
InPipe(kind) == {op \in {ex} \cup (IF ReqValid THEN {mem} ELSE {}) : op.kind = kind}
Loading(w) == \* a load of w is on its way and will not be forwarded
  \/ \E op \in InPipe("load") : op.word = w
  \/ \E i \in LqSlots : lq[i] # None /\ ~lq[i].fwd /\ lq[i].op.word = w
Storing(w)   == Matching(w) # {} \/ \E op \in InPipe("store") : op.word = w
LoadingTo(r) == r \in scoreboard \/ \E op \in InPipe("load") : op.rd = r
\* Slot k entries after the oldest; the stores of MEM and EX come after those buffered.
Slot(k) == (sbRd + k) % SbDepth
Behind == IF ReqValid /\ mem.kind = "store"
          THEN IF ex.kind = "store" THEN <<mem, ex>> ELSE <<mem>>
          ELSE IF ex.kind = "store" THEN <<ex>> ELSE <<>>
StoreAt(k) == IF k < sbCount THEN sb[Slot(k)] ELSE Behind[k - sbCount + 1]
PlacesOf(w) == {k \in 0 .. sbCount + Len(Behind) - 1 : StoreAt(k).word = w}
Wraps(w)    == \E j, k \in PlacesOf(w) : j < k /\ Slot(k) <= Slot(j)

LoadApart(w, r) ==
  \* "forward": a load after two stores to its word of which the younger has the lower slot
  /\ "forward" \in Windows \/ ~Wraps(w)
  \* "device": a load of a device register that an older store still has to write
  /\ "device" \in Windows \/ w \notin Devices \/ ~Storing(w)
  \* "reload": a load into a register that another load is under way for
  /\ "reload" \in Windows \/ r = 0 \/ ~LoadingTo(r)
\* "overtake": a store to a word that an older load still has to read
StoreApart(w) == "overtake" \in Windows \/ ~Loading(w)
FollowedBy == {"other"}
  \* "fence": a fence right behind a load or store
  \cup (IF "fence" \in Windows \/ ex' = None THEN {"fence"} ELSE {})
  \* "use": a reader right behind a load that is right behind another load or store
  \cup (IF ex'.kind = "load" /\ ex'.rd # 0 /\ ("use" \in Windows \/ mem' = None) THEN {"use"} ELSE {})

(***************************************************************************)
(* The pipeline.  EX/MEM freezes when the MEM stage waits or the pipeline  *)
(* is held (by a fetch that misses or a register that is not there yet).   *)
(* A stalled fence flushes ID/EX all the same, a reader of the load in EX  *)
(* unless the pipeline is held (flush_id_ex).                              *)
(***************************************************************************)
FrozenIfHeld(held) == held                     \* mutant: a waiting MEM stage freezes nothing
Frozen(held) == held \/ MemWait               \* stall_ex_mem
Flush(held)  == FenceStall \/ (LoadUse /\ ~held)
IdWaits      == id' = IF LoadUse THEN "other" ELSE id
Freeze(held) ==
  /\ Frozen(held)
  /\ UNCHANGED <<mem, prog>> /\ sent' = (mem # None /\ ~MemWait)
  /\ IF Flush(held) THEN ex' = None /\ IdWaits ELSE UNCHANGED <<ex, id>>
Stall(held) ==
  /\ ~Frozen(held) /\ Flush(held)
  /\ mem' = ex /\ ex' = None /\ sent' = FALSE /\ IdWaits /\ UNCHANGED prog
EnterLoad == \E a \in LoadOps :
  /\ id # "fence" /\ LoadApart(a[1], a[2])
  /\ ex' = LoadOp(a[1], a[2], prog[a[1]]) /\ UNCHANGED prog
EnterStore == \E a \in StoreOps : LET x == Newer(prog[a[1]], a[2]) IN
  /\ id # "fence" /\ StoreApart(a[1])
  /\ ex' = StoreOp(a[1], a[2], x)
  /\ prog' = [prog EXCEPT ![a[1]] = Merge(@, a[2], x)]
EnterOther == ex' = None /\ UNCHANGED prog
Advance(held) ==
  /\ ~Frozen(held) /\ ~Flush(held)
  /\ mem' = ex /\ sent' = FALSE
  /\ EnterOther \/ EnterLoad \/ EnterStore
  /\ id' \in FollowedBy
Pipeline(held) == Freeze(held) \/ Stall(held) \/ Advance(held)

(***************************************************************************)
(* The load/store unit.  ack: the register file takes the result, which a  *)
(* result of the pipeline that is written in the same cycle prevents.      *)
(***************************************************************************)
\* mutant: pointers do not wrap
AfterNoWrap(p, depth) == p + 1
After(p, depth) == (p + 1) % depth
StoreBuffer ==
  /\ sb' = [i \in SbSlots |-> IF DrainPop /\ i = sbRd THEN None
                              ELSE IF DoStore /\ i = sbWr THEN mem ELSE sb[i]]
  /\ sbWr' = IF DoStore THEN After(sbWr, SbDepth) ELSE sbWr
  /\ sbRd' = IF DrainPop THEN After(sbRd, SbDepth) ELSE sbRd
  /\ sbCount' = CASE DoStore /\ ~DrainPop -> sbCount + 1
                  [] DrainPop /\ ~DoStore -> sbCount - 1
                  [] OTHER -> sbCount
NewEntry == Entry(mem, FwdHit(mem.word), IF FwdHit(mem.word) THEN FwdData(mem.word) ELSE Zero)
LoadQueue ==
  /\ lq' = [i \in LqSlots |-> IF DoLoad /\ i = lqWr THEN NewEntry
                              ELSE IF Dequeue /\ i = lqRd THEN None ELSE lq[i]]
  /\ lqWr' = IF DoLoad THEN After(lqWr, LqDepth) ELSE lqWr
  /\ lqRd' = IF Dequeue THEN After(lqRd, LqDepth) ELSE lqRd
  /\ lqCount' = CASE DoLoad /\ ~Dequeue -> lqCount + 1
                  [] Dequeue /\ ~DoLoad -> lqCount - 1
                  [] OTHER -> lqCount
\* mutant: the answer of the cache, not the register file, clears the mark
ScoreboardEarly(ack) ==
  LET set   == IF DoLoad THEN {mem.rd} ELSE {}
      clear == IF UsesCache /\ ready THEN {cur.rd} ELSE {}
  IN  scoreboard' = ((scoreboard \cup set) \ clear) \ {0}
Scoreboard(ack) ==
  LET set   == IF DoLoad THEN {mem.rd} ELSE {}
      clear == IF ack THEN {result.op.rd} ELSE {}
  IN  scoreboard' = ((scoreboard \cup set) \ clear) \ {0}

Answer(op, x) == [op |-> op, data |-> x]
LoadIdle ==
  /\ loadState = "idle" /\ ~Dequeue /\ UNCHANGED <<loadState, cur, result>>
LoadForwarded ==
  /\ loadState = "idle" /\ Dequeue /\ Oldest.fwd
  /\ loadState' = "result" /\ result' = Answer(Oldest.op, Oldest.data) /\ UNCHANGED cur
LoadStart ==
  /\ loadState = "idle" /\ Dequeue /\ ~Oldest.fwd
  /\ loadState' = "dcache" /\ cur' = Oldest.op /\ UNCHANGED result
LoadDcache ==
  /\ loadState = "dcache"
  /\ IF ready THEN loadState' = "result" /\ result' = Answer(cur, memory[cur.word]) /\ cur' = None
     ELSE UNCHANGED <<loadState, cur, result>>
LoadResult(ack) ==
  /\ loadState = "result" /\ UNCHANGED cur
  /\ IF ack THEN loadState' = "idle" /\ result' = None ELSE UNCHANGED <<loadState, result>>
LoadFsm(ack) == LoadIdle \/ LoadForwarded \/ LoadStart \/ LoadDcache \/ LoadResult(ack)

\* mutant: only a full buffer is drained, or only one behind no load
DrainFsmFull == drain' = IF drain THEN ~UsesCache /\ ~ready ELSE sbCount = SbDepth /\ ~UsesCache
DrainFsmLast ==
  drain' = IF drain THEN ~UsesCache /\ ~ready ELSE sbCount # 0 /\ ~UsesCache /\ lqCount = 0
DrainFsm == drain' = IF drain THEN ~UsesCache /\ ~ready ELSE sbCount # 0 /\ ~UsesCache

\* An answered store is in the cache.
Cache ==
  /\ memory' = IF DrainPop THEN [memory EXCEPT ![sb[sbRd].word] = Merge(@, sb[sbRd].strb, sb[sbRd].data)]
               ELSE memory
  /\ ready' \in IF Request' = None THEN {FALSE} ELSE BOOLEAN

Init ==
  /\ id = "other" /\ ex = None /\ mem = None /\ sent = FALSE
  /\ sb = [i \in SbSlots |-> None] /\ sbWr = 0 /\ sbRd = 0 /\ sbCount = 0
  /\ lq = [i \in LqSlots |-> None] /\ lqWr = 0 /\ lqRd = 0 /\ lqCount = 0
  /\ scoreboard = {} /\ loadState = "idle" /\ cur = None /\ result = None
  /\ drain = FALSE /\ ready = FALSE
  /\ memory = [w \in Words |-> Zero] /\ prog = memory

Cycle(held, alu) ==
  LET ack == result # None /\ (Frozen(held) \/ mem # None \/ ~alu) IN
  /\ Pipeline(held) /\ StoreBuffer /\ LoadQueue /\ Scoreboard(ack) /\ LoadFsm(ack) /\ DrainFsm
  /\ Cache
Next == \E held \in BOOLEAN, alu \in IF result = None THEN {FALSE} ELSE BOOLEAN : Cycle(held, alu)
Spec == Init /\ [][Next]_vars

(***************************************************************************)
(* Fairness: the clock runs; the cache answers (Answered of DCache); what  *)
(* holds the pipeline ends, as the instruction cache answers too; and not  *)
(* every instruction for ever is one that keeps a result from the register *)
(* file.                                                                   *)
(***************************************************************************)
\* A system that rests for ever does so in a state that a cycle may leave unchanged.
ClockRuns == []<><<TRUE>>_vars \/ []<>ENABLED (UNCHANGED vars /\ Next)
Fairness == /\ ClockRuns
            /\ []<>(Request = None \/ ready)
            /\ []<>~FenceActive /\ []<>(result = None)
FairSpec == Spec /\ Fairness

(***************************************************************************)
(* Properties.                                                             *)
(***************************************************************************)
\* Every register holds one of its values.
TypeOK ==
  /\ ex \in Operations \cup {None} /\ mem \in Operations \cup {None}
  /\ sent \in BOOLEAN /\ id \in {"other", "use", "fence"}
  /\ sb \in [SbSlots -> {op \in Operations : op.kind = "store"} \cup {None}]
  /\ sbWr \in SbSlots /\ sbRd \in SbSlots /\ sbCount \in 0 .. SbDepth
  /\ lqWr \in LqSlots /\ lqRd \in LqSlots /\ lqCount \in 0 .. LqDepth
  /\ scoreboard \subseteq Regs \ {0} /\ loadState \in {"idle", "dcache", "result"}
  /\ drain \in BOOLEAN /\ ready \in BOOLEAN
  /\ memory \in [Words -> Values] /\ prog \in [Words -> Values]

\* A load returns what the stores before it in the program, and none after
\* it, left in its word.
LoadsSeeProgramOrder == result # None => result.data = result.op.expect

\* A register is marked in the scoreboard as long as a load for it is in the
\* load/store unit: an instruction that reads it waits (hazard_detection).
UnderWay == {lq[i].op : i \in {j \in LqSlots : lq[j] # None}}
            \cup (IF cur # None THEN {cur} ELSE {})
            \cup (IF result # None THEN {result.op} ELSE {})
RegistersGuarded == \A op \in UnderWay : op.rd # 0 => op.rd \in scoreboard

\* The entries in use are those between the pointers, and the counters say
\* how many: no entry is overwritten, skipped or sent twice.
Between(i, rd, n, depth) == \E k \in 0 .. depth - 1 : k < n /\ i = (rd + k) % depth
QueuesMatch ==
  /\ \A i \in SbSlots : sb[i] # None <=> Between(i, sbRd, sbCount, SbDepth)
  /\ \A i \in LqSlots : lq[i] # None <=> Between(i, lqRd, lqCount, LqDepth)
  /\ sbWr = (sbRd + sbCount) % SbDepth /\ lqWr = (lqRd + lqCount) % LqDepth

\* An operation in EX stays there until it moves to MEM, and one in MEM until
\* the load/store unit has taken it: none is lost and none is issued twice.
OperationsKept ==
  [][/\ ex # None => mem' = ex \/ (ex' = ex /\ mem' = mem)
     /\ ReqValid /\ ~ReqReady => mem' = mem /\ ~sent'
     /\ ReqValid /\ ReqReady => sent' \/ mem' = ex]_vars

\* A fence goes to the cache when every store before it is there and no load
\* is under way.
FenceOrders == FenceActive => memory = prog /\ UnderWay = {}

\* The port of the cache: a request stands until it is answered, and is then
\* followed by a cycle without one.
PortDiscipline ==
  [][Request # None => IF ready THEN Request' = None ELSE Request' = Request]_vars

\* Fences get through, and every load brings its result.
FencesPass  == []<>(id # "fence")
LoadsReturn == \A r \in Regs : []<>(r \notin scoreboard)
=============================================================================
