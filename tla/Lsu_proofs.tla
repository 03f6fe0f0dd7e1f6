------------------------------ MODULE Lsu_proofs ------------------------------
(***************************************************************************)
(* Proofs about Lsu, for every depth of its buffers, every set of words,   *)
(* registers and operations, and every set of windows unless a theorem     *)
(* names one.  The buffers are rings: their arithmetic comes first, and    *)
(* what the theorems about the port and the scoreboard need of it is that  *)
(* an entry in use is not overwritten, and that one that is read is there. *)
(***************************************************************************)
EXTENDS Lsu, WellFoundedInduction, TLAPS

-----------------------------------------------------------------------------
(***************************************************************************)
(* A ring of d entries, of which n from rd on are in use, and the next is  *)
(* written at wr.                                                          *)
(***************************************************************************)
InUse(i, rd, n, d) == IF rd <= i THEN i < rd + n ELSE i + d < rd + n
Wrapped(p, d)      == IF p < d THEN p ELSE p - d

LEMMA Wraps1 == ASSUME NEW d \in Nat \ {0}, NEW p \in 0 .. 2 * d - 1 PROVE p % d = Wrapped(p, d)
<1>1. CASE p < d
  BY <1>1 DEF Wrapped
<1>2. CASE p >= d
  <2>1. p \in d .. 2 * d - 1
    BY <1>2
  <2>2. p % d = p - d
    BY <2>1
  <2> QED BY <1>2, <2>2 DEF Wrapped
<1> QED BY <1>1, <1>2

LEMMA BetweenIsInUse ==
  ASSUME NEW d \in Nat \ {0}, NEW rd \in 0 .. d - 1, NEW n \in 0 .. d, NEW i \in 0 .. d - 1
  PROVE  Between(i, rd, n, d) <=> InUse(i, rd, n, d)
<1>1. ASSUME Between(i, rd, n, d) PROVE InUse(i, rd, n, d)
  <2>1. PICK k \in 0 .. d - 1 : k < n /\ i = (rd + k) % d
    BY <1>1 DEF Between
  <2>2. i = Wrapped(rd + k, d)
    BY <2>1, Wraps1
  <2> QED BY <2>1, <2>2 DEF InUse, Wrapped
<1>2. ASSUME InUse(i, rd, n, d) PROVE Between(i, rd, n, d)
  <2> DEFINE k == IF rd <= i THEN i - rd ELSE i + d - rd
  <2>1. k \in 0 .. d - 1 /\ k < n /\ i = Wrapped(rd + k, d)
    BY <1>2 DEF InUse, Wrapped
  <2>2. (rd + k) % d = Wrapped(rd + k, d)
    BY <2>1, Wraps1
  <2> QED BY <2>1, <2>2 DEF Between
<1> QED BY <1>1, <1>2

\* A push, a pop, or both: what is in use afterwards.
LEMMA RingMoves ==
  ASSUME NEW d \in Nat \ {0}, NEW rd \in 0 .. d - 1, NEW n \in 0 .. d,
         NEW push \in BOOLEAN, NEW pop \in BOOLEAN, push => n # d, pop => n # 0,
         NEW wr, wr = (rd + n) % d,
         NEW rd2, rd2 = IF pop THEN After(rd, d) ELSE rd,
         NEW wr2, wr2 = IF push THEN After(wr, d) ELSE wr,
         NEW n2, n2 = CASE push /\ ~pop -> n + 1 [] pop /\ ~push -> n - 1 [] OTHER -> n
  PROVE  /\ rd2 \in 0 .. d - 1 /\ n2 \in 0 .. d /\ wr2 = (rd2 + n2) % d
         /\ ~(push /\ pop /\ wr = rd)
         /\ \A i \in 0 .. d - 1 :
              InUse(i, rd2, n2, d) <=> (InUse(i, rd, n, d) /\ ~(pop /\ i = rd)) \/ (push /\ i = wr)
<1>1. wr = Wrapped(rd + n, d) /\ wr \in 0 .. d - 1
  BY Wraps1 DEF Wrapped
<1>2. After(rd, d) = Wrapped(rd + 1, d) /\ After(wr, d) = Wrapped(wr + 1, d)
  BY <1>1, Wraps1 DEF After
<1>3. rd2 \in 0 .. d - 1 /\ n2 \in 0 .. d
  BY <1>2 DEF Wrapped
<1>4. wr2 = Wrapped(rd2 + n2, d)
  BY <1>1, <1>2, <1>3 DEF Wrapped
<1>5. wr2 = (rd2 + n2) % d
  BY <1>3, <1>4, Wraps1
<1>6. ~(push /\ pop /\ wr = rd)
  BY <1>1 DEF Wrapped
<1>7. ASSUME NEW i \in 0 .. d - 1
      PROVE  InUse(i, rd2, n2, d) <=> (InUse(i, rd, n, d) /\ ~(pop /\ i = rd)) \/ (push /\ i = wr)
  <2>1. CASE pop
    BY <1>1, <1>2, <2>1 DEF InUse, Wrapped
  <2>2. CASE ~pop
    <3>1. rd2 = rd
      BY <2>2
    <3>2. CASE push
      <4>1. n2 = n + 1 /\ n < d
        BY <2>2, <3>2
      <4> QED BY <1>1, <2>2, <3>1, <3>2, <4>1 DEF InUse, Wrapped
    <3>3. CASE ~push
      <4>1. n2 = n
        BY <2>2, <3>3
      <4> QED BY <2>2, <3>1, <3>3, <4>1
    <3> QED BY <3>2, <3>3
  <2> QED BY <2>1, <2>2
<1> QED BY <1>3, <1>5, <1>6, <1>7

-----------------------------------------------------------------------------
(***************************************************************************)
(* The queues.  A drain under way has an entry to drain.                   *)
(***************************************************************************)
RingInv ==
  /\ sbRd \in SbSlots /\ sbCount \in 0 .. SbDepth /\ sbWr = (sbRd + sbCount) % SbDepth
  /\ lqRd \in LqSlots /\ lqCount \in 0 .. LqDepth /\ lqWr = (lqRd + lqCount) % LqDepth
  /\ \A i \in SbSlots : sb[i] # None <=> InUse(i, sbRd, sbCount, SbDepth)
  /\ \A i \in LqSlots : lq[i] # None <=> InUse(i, lqRd, lqCount, LqDepth)
  /\ drain => sbCount # 0

LEMMA RingsStart == Init => RingInv
<1> SUFFICES ASSUME Init PROVE RingInv
  OBVIOUS
<1>1. 0 \in SbSlots /\ 0 \in LqSlots /\ (0 + 0) % SbDepth = 0 /\ (0 + 0) % LqDepth = 0
  BY LsuConstants DEF SbSlots, LqSlots
<1>2. /\ \A i \in SbSlots : sb[i] # None <=> InUse(i, 0, 0, SbDepth)
      /\ \A i \in LqSlots : lq[i] # None <=> InUse(i, 0, 0, LqDepth)
  BY LsuConstants DEF Init, InUse, SbSlots, LqSlots
<1> QED BY <1>1, <1>2, LsuConstants DEF Init, RingInv

LEMMA StoreBufferStep ==
  ASSUME RingInv, StoreBuffer, DrainFsm
  PROVE  /\ (sbRd \in SbSlots /\ sbCount \in 0 .. SbDepth /\ sbWr = (sbRd + sbCount) % SbDepth)'
         /\ \A i \in SbSlots : sb'[i] # None <=> InUse(i, sbRd', sbCount', SbDepth)
         /\ drain' => sbCount' # 0
         /\ ~(DoStore /\ DrainPop /\ sbWr = sbRd)
<1>1. /\ SbDepth \in Nat \ {0} /\ sbRd \in 0 .. SbDepth - 1 /\ sbCount \in 0 .. SbDepth
      /\ DoStore \in BOOLEAN /\ DrainPop \in BOOLEAN
  BY LsuConstants DEF RingInv, SbSlots, DoStore, DrainPop
<1>2. (DoStore => sbCount # SbDepth /\ mem # None) /\ (DrainPop => sbCount # 0)
  BY DEF RingInv, DoStore, ReqReady, ReqValid, DrainPop
<1> HIDE DEF DoStore, DrainPop
<1>3. /\ sbRd' = IF DrainPop THEN After(sbRd, SbDepth) ELSE sbRd
      /\ sbWr' = IF DoStore THEN After(sbWr, SbDepth) ELSE sbWr
      /\ sbCount' = CASE DoStore /\ ~DrainPop -> sbCount + 1
                      [] DrainPop /\ ~DoStore -> sbCount - 1
                      [] OTHER -> sbCount
  BY DEF StoreBuffer
<1>4. /\ sbRd' \in 0 .. SbDepth - 1 /\ sbCount' \in 0 .. SbDepth /\ sbWr' = (sbRd' + sbCount') % SbDepth
      /\ ~(DoStore /\ DrainPop /\ sbWr = sbRd)
      /\ \A i \in 0 .. SbDepth - 1 :
           InUse(i, sbRd', sbCount', SbDepth)
           <=> (InUse(i, sbRd, sbCount, SbDepth) /\ ~(DrainPop /\ i = sbRd)) \/ (DoStore /\ i = sbWr)
  <2>1. sbWr = (sbRd + sbCount) % SbDepth
    BY DEF RingInv
  <2> QED BY <1>1, <1>2, <1>3, <2>1, RingMoves, SMTT(30)
<1>5. ASSUME NEW i \in SbSlots PROVE sb'[i] # None <=> InUse(i, sbRd', sbCount', SbDepth)
  <2>1. sb'[i] = IF DrainPop /\ i = sbRd THEN None ELSE IF DoStore /\ i = sbWr THEN mem ELSE sb[i]
    BY DEF StoreBuffer
  <2>2. sb[i] # None <=> InUse(i, sbRd, sbCount, SbDepth)
    BY DEF RingInv
  <2> QED BY <1>2, <1>4, <2>1, <2>2 DEF SbSlots
<1>6. ASSUME drain' PROVE sbCount' # 0
  <2>1. ~DrainPop /\ sbCount # 0
    BY <1>6 DEF DrainFsm, DrainPop, RingInv
  <2> QED BY <1>1, <1>3, <2>1
<1> QED BY <1>4, <1>5, <1>6 DEF SbSlots

LEMMA LoadQueueStep ==
  ASSUME RingInv, LoadQueue
  PROVE  /\ (lqRd \in LqSlots /\ lqCount \in 0 .. LqDepth /\ lqWr = (lqRd + lqCount) % LqDepth)'
         /\ \A i \in LqSlots : lq'[i] # None <=> InUse(i, lqRd', lqCount', LqDepth)
         /\ ~(DoLoad /\ Dequeue /\ lqWr = lqRd)
<1>1. /\ LqDepth \in Nat \ {0} /\ lqRd \in 0 .. LqDepth - 1 /\ lqCount \in 0 .. LqDepth
      /\ DoLoad \in BOOLEAN /\ Dequeue \in BOOLEAN
  BY LsuConstants DEF RingInv, LqSlots, DoLoad, Dequeue
<1>2. (DoLoad => lqCount # LqDepth) /\ (Dequeue => lqCount # 0)
  BY DEF DoLoad, ReqReady, Dequeue
<1>3. NewEntry # None
  BY DEF NewEntry, Entry, None
<1> HIDE DEF DoLoad, Dequeue
<1>4. /\ lqRd' = IF Dequeue THEN After(lqRd, LqDepth) ELSE lqRd
      /\ lqWr' = IF DoLoad THEN After(lqWr, LqDepth) ELSE lqWr
      /\ lqCount' = CASE DoLoad /\ ~Dequeue -> lqCount + 1
                      [] Dequeue /\ ~DoLoad -> lqCount - 1
                      [] OTHER -> lqCount
  BY DEF LoadQueue
<1>5. /\ lqRd' \in 0 .. LqDepth - 1 /\ lqCount' \in 0 .. LqDepth /\ lqWr' = (lqRd' + lqCount') % LqDepth
      /\ ~(DoLoad /\ Dequeue /\ lqWr = lqRd)
      /\ \A i \in 0 .. LqDepth - 1 :
           InUse(i, lqRd', lqCount', LqDepth)
           <=> (InUse(i, lqRd, lqCount, LqDepth) /\ ~(Dequeue /\ i = lqRd)) \/ (DoLoad /\ i = lqWr)
  <2>1. lqWr = (lqRd + lqCount) % LqDepth
    BY DEF RingInv
  <2> QED BY <1>1, <1>2, <1>4, <2>1, RingMoves, SMTT(30)
<1>6. ASSUME NEW i \in LqSlots PROVE lq'[i] # None <=> InUse(i, lqRd', lqCount', LqDepth)
  <2>1. lq'[i] = IF DoLoad /\ i = lqWr THEN NewEntry ELSE IF Dequeue /\ i = lqRd THEN None ELSE lq[i]
    BY DEF LoadQueue
  <2>2. lq[i] # None <=> InUse(i, lqRd, lqCount, LqDepth)
    BY DEF RingInv
  <2> QED BY <1>3, <1>5, <2>1, <2>2 DEF LqSlots
<1> QED BY <1>5, <1>6 DEF LqSlots

LEMMA RingsStep == RingInv /\ [Next]_vars => RingInv'
<1> SUFFICES ASSUME RingInv, [Next]_vars PROVE RingInv'
  OBVIOUS
<1>1. CASE Next
  <2>1. StoreBuffer /\ LoadQueue /\ DrainFsm
    BY <1>1 DEF Next, Cycle
  <2>2. UNCHANGED <<SbSlots, LqSlots>>
    BY DEF SbSlots, LqSlots
  <2> QED BY <2>1, <2>2, StoreBufferStep, LoadQueueStep DEF RingInv
<1>2. CASE UNCHANGED vars
  BY <1>2 DEF vars, store, load, fsms, RingInv
<1> QED BY <1>1, <1>2

LEMMA RingsHold == Spec => []RingInv
BY RingsStart, RingsStep, PTL DEF Spec

LEMMA RingsMatch == RingInv => QueuesMatch
<1> SUFFICES ASSUME RingInv PROVE QueuesMatch
  OBVIOUS
<1>1. \A i \in SbSlots : Between(i, sbRd, sbCount, SbDepth) <=> InUse(i, sbRd, sbCount, SbDepth)
  BY BetweenIsInUse, LsuConstants DEF RingInv, SbSlots
<1>2. \A i \in LqSlots : Between(i, lqRd, lqCount, LqDepth) <=> InUse(i, lqRd, lqCount, LqDepth)
  BY BetweenIsInUse, LsuConstants DEF RingInv, LqSlots
<1> QED BY <1>1, <1>2 DEF RingInv, QueuesMatch

\* Whatever is pushed and popped at once, full or empty, the pointers and
\* counters of both buffers say which entries are in use (LSU.v:205-330).
THEOREM QueuesAreKept == Spec => []QueuesMatch
BY RingsHold, RingsMatch, PTL

-----------------------------------------------------------------------------
(***************************************************************************)
(* The port.  A load that starts takes it from a drain that starts in the  *)
(* same cycle, before that has asked for anything; afterwards only one of  *)
(* the two is under way, and the entry that is drained stays as it is.     *)
(***************************************************************************)
LEMMA PortStep == ASSUME RingInv, Next
                  PROVE  Request # None => IF ready THEN Request' = None ELSE Request' = Request
<1>1. PICK held \in BOOLEAN, alu \in BOOLEAN : Cycle(held, alu)
  BY DEF Next
<1>2. \E ack \in BOOLEAN : LoadFsm(ack)
  BY <1>1 DEF Cycle
<1>3. CASE UsesCache
  <2>1. drain' = FALSE
    BY <1>1, <1>3 DEF Cycle, DrainFsm
  <2>2. IF ready THEN ~UsesCache' ELSE UsesCache' /\ cur' = cur
    BY <1>2, <1>3 DEF LoadFsm, LoadIdle, LoadForwarded, LoadStart, LoadDcache, LoadResult, UsesCache
  <2> QED BY <1>3, <2>1, <2>2 DEF Request
<1>4. CASE ~UsesCache /\ drain
  <2>1. ~UsesCache'
    BY <1>2, <1>4 DEF LoadFsm, LoadIdle, LoadForwarded, LoadStart, LoadDcache, LoadResult, UsesCache,
                      Dequeue
  <2>2. CASE ready
    <3>1. drain' = FALSE
      BY <1>1, <1>4, <2>2 DEF Cycle, DrainFsm
    <3> QED BY <2>1, <2>2, <3>1 DEF Request
  <2>3. CASE ~ready
    <3>1. drain' /\ ~DrainPop
      BY <1>1, <1>4, <2>3 DEF Cycle, DrainFsm, DrainPop
    <3>2. ~(DoStore /\ sbWr = sbRd)
      <4>1. DoStore => sbCount # SbDepth
        BY DEF DoStore, ReqReady
      <4>2. /\ SbDepth \in Nat \ {0} /\ sbRd \in 0 .. SbDepth - 1
            /\ sbCount \in 1 .. SbDepth /\ sbWr = (sbRd + sbCount) % SbDepth
        BY <1>4, LsuConstants DEF RingInv, SbSlots
      <4>3. sbRd + sbCount \in 0 .. 2 * SbDepth - 1
        BY <4>2
      <4>4. (sbRd + sbCount) % SbDepth = Wrapped(sbRd + sbCount, SbDepth)
        BY <4>2, <4>3, Wraps1
      <4> QED BY <4>1, <4>2, <4>4 DEF Wrapped
    <3>3. sbRd' = sbRd /\ sb'[sbRd] = sb[sbRd]
      BY <1>1, <3>1, <3>2 DEF Cycle, StoreBuffer, RingInv
    <3> QED BY <1>4, <2>1, <2>3, <3>1, <3>3 DEF Request
  <2> QED BY <2>2, <2>3
<1> QED BY <1>3, <1>4 DEF Request

\* A request of the load/store unit stands until the cache answers it, and a
\* cycle without a request follows (LSU.v:185-200): what DCache relies on.
THEOREM PortIsShared == Spec => PortDiscipline
<1>1. RingInv /\ [Next]_vars
      => [Request # None => IF ready THEN Request' = None ELSE Request' = Request]_vars
  BY PortStep
<1> QED BY <1>1, RingsHold, PTL DEF Spec, PortDiscipline

-----------------------------------------------------------------------------
(***************************************************************************)
(* Types.  That the counters stay in range, and that a drain has an entry, *)
(* is the rings' part.                                                     *)
(***************************************************************************)
LEMMA ValuesClosed ==
  /\ Zero \in Values
  /\ \A old \in Values, s \in SUBSET Lanes : Newer(old, s) \in Values
  /\ \A old \in Values, x \in Values, s \in SUBSET Lanes : Merge(old, s, x) \in Values
BY LsuConstants DEF Zero, Values, Versions, Newer, Merge

LEMMA OperationsTyped ==
  /\ None \notin Operations
  /\ \A op \in Operations : op.kind = "load" => op.word \in Words /\ op.rd \in Regs
  /\ \A op \in Operations : op.kind = "store" =>
       op.word \in Words /\ op.strb \in SUBSET Lanes /\ op.data \in Values
<1> SUFFICES ASSUME NEW op \in Operations
             PROVE  /\ op # None
                    /\ op.kind = "load" => op.word \in Words /\ op.rd \in Regs
                    /\ op.kind = "store" =>
                         op.word \in Words /\ op.strb \in SUBSET Lanes /\ op.data \in Values
  OBVIOUS
<1>1. CASE \E a \in LoadOps, x \in Values : op = LoadOp(a[1], a[2], x)
  <2>1. PICK a \in LoadOps, x \in Values : op = LoadOp(a[1], a[2], x)
    BY <1>1
  <2>2. a[1] \in Words /\ a[2] \in Regs
    BY LsuConstants
  <2>3. op.kind = "load" /\ op.word = a[1] /\ op.rd = a[2]
    BY <2>1 DEF LoadOp
  <2> QED BY <2>2, <2>3 DEF None
<1>2. CASE \E a \in StoreOps, x \in Values : op = StoreOp(a[1], a[2], x)
  <2>1. PICK a \in StoreOps, x \in Values : op = StoreOp(a[1], a[2], x)
    BY <1>2
  <2>2. a[1] \in Words /\ a[2] \in SUBSET Lanes
    BY LsuConstants
  <2>3. op.kind = "store" /\ op.word = a[1] /\ op.strb = a[2] /\ op.data = x
    BY <2>1 DEF StoreOp
  <2> QED BY <2>2, <2>3 DEF None
<1> QED BY <1>1, <1>2 DEF Operations

LEMMA AfterTyped == ASSUME NEW d \in Nat \ {0}, NEW p \in 0 .. d - 1 PROVE After(p, d) \in 0 .. d - 1
<1>1. (p + 1) % d = Wrapped(p + 1, d)
  BY Wraps1
<1> QED BY <1>1 DEF After, Wrapped

LEMMA LsuTypesStart == Init => TypeOK
<1> SUFFICES ASSUME Init PROVE TypeOK
  OBVIOUS
<1>1. sb \in [SbSlots -> {op \in Operations : op.kind = "store"} \cup {None}]
  BY DEF Init
<1>2. memory \in [Words -> Values] /\ prog \in [Words -> Values]
  BY ValuesClosed DEF Init
<1>3. 0 \in SbSlots /\ 0 \in LqSlots /\ 0 \in 0 .. SbDepth /\ 0 \in 0 .. LqDepth
  BY LsuConstants DEF SbSlots, LqSlots
<1> QED BY <1>1, <1>2, <1>3 DEF Init, TypeOK

LEMMA PipelineTyped ==
  ASSUME TypeOK, NEW held \in BOOLEAN, Pipeline(held)
  PROVE  /\ ex' \in Operations \cup {None} /\ mem' \in Operations \cup {None}
         /\ sent' \in BOOLEAN /\ id' \in {"other", "use", "fence"} /\ prog' \in [Words -> Values]
<1>1. CASE Freeze(held) \/ Stall(held)
  BY <1>1 DEF Freeze, Stall, IdWaits, MemWait, TypeOK
<1>2. CASE Advance(held)
  <2>1. mem' = ex /\ sent' = FALSE /\ id' \in {"other", "use", "fence"}
    BY <1>2 DEF Advance, FollowedBy
  <2>2. CASE EnterOther
    BY <2>1, <2>2 DEF EnterOther, TypeOK
  <2>3. CASE EnterLoad
    <3>1. PICK a \in LoadOps : ex' = LoadOp(a[1], a[2], prog[a[1]]) /\ prog' = prog
      BY <2>3 DEF EnterLoad
    <3>2. a[1] \in Words
      BY LsuConstants
    <3>3. prog[a[1]] \in Values
      BY <3>2 DEF TypeOK
    <3>4. ex' \in Operations
      BY <3>1, <3>3 DEF Operations
    <3> QED BY <2>1, <3>1, <3>4 DEF TypeOK
  <2>4. CASE EnterStore
    <3>1. PICK a \in StoreOps : LET x == Newer(prog[a[1]], a[2]) IN
            /\ ex' = StoreOp(a[1], a[2], x)
            /\ prog' = [prog EXCEPT ![a[1]] = Merge(@, a[2], x)]
      BY <2>4 DEF EnterStore
    <3> DEFINE x == Newer(prog[a[1]], a[2])
    <3>2. a[1] \in Words /\ a[2] \in SUBSET Lanes
      BY LsuConstants
    <3>3. x \in Values /\ Merge(prog[a[1]], a[2], x) \in Values
      BY <3>2, ValuesClosed DEF TypeOK
    <3>4. ex' \in Operations
      BY <3>1, <3>3 DEF Operations
    <3>5. prog' \in [Words -> Values]
      BY <3>1, <3>3 DEF TypeOK
    <3> QED BY <2>1, <3>4, <3>5 DEF TypeOK
  <2> QED BY <1>2, <2>2, <2>3, <2>4 DEF Advance
<1> QED BY <1>1, <1>2 DEF Pipeline

LEMMA LsuTypesStep == TypeOK /\ RingInv /\ RingInv' /\ [Next]_vars => TypeOK'
<1> SUFFICES ASSUME TypeOK, RingInv, RingInv', [Next]_vars PROVE TypeOK'
  OBVIOUS
<1>1. CASE UNCHANGED vars
  BY <1>1 DEF vars, pipe, store, load, fsms, TypeOK
<1>2. CASE Next
  <2>1. PICK held \in BOOLEAN, alu \in BOOLEAN : Cycle(held, alu)
    BY <1>2 DEF Next
  <2>2. PICK ack \in BOOLEAN : Scoreboard(ack) /\ LoadFsm(ack)
    BY <2>1 DEF Cycle
  <2>3. StoreBuffer /\ LoadQueue /\ DrainFsm /\ Cache /\ Pipeline(held)
    BY <2>1 DEF Cycle
  <2>4. /\ (DoStore => mem \in Operations /\ mem.kind = "store" /\ sbCount # SbDepth)
        /\ (DoLoad => mem \in Operations /\ mem.kind = "load" /\ lqCount # LqDepth)
    BY DEF DoStore, DoLoad, ReqValid, ReqReady, TypeOK
  <2>5. sb' \in [SbSlots -> {op \in Operations : op.kind = "store"} \cup {None}]
    BY <2>3, <2>4 DEF StoreBuffer, TypeOK
  <2>6. /\ After(sbWr, SbDepth) \in SbSlots /\ After(sbRd, SbDepth) \in SbSlots
        /\ After(lqWr, LqDepth) \in LqSlots /\ After(lqRd, LqDepth) \in LqSlots
    BY AfterTyped, LsuConstants DEF TypeOK, SbSlots, LqSlots
  <2>7. sbWr' \in SbSlots /\ sbRd' \in SbSlots /\ lqWr' \in LqSlots /\ lqRd' \in LqSlots
    BY <2>3, <2>6 DEF StoreBuffer, LoadQueue, TypeOK
  <2>8. scoreboard' \subseteq Regs \ {0}
    BY <2>2, <2>4, OperationsTyped DEF Scoreboard, TypeOK
  <2>9. loadState' \in {"idle", "dcache", "result"} /\ drain' \in BOOLEAN /\ ready' \in BOOLEAN
    BY <2>2, <2>3 DEF LoadFsm, LoadIdle, LoadForwarded, LoadStart, LoadDcache, LoadResult,
                      DrainFsm, Cache, TypeOK
  <2>10. memory' \in [Words -> Values]
    <3>1. CASE DrainPop
      <4>1. sbRd \in 0 .. SbDepth - 1 /\ sbCount \in 1 .. SbDepth
        BY <3>1 DEF DrainPop, RingInv, SbSlots
      <4>2. sb[sbRd] # None
        BY <4>1 DEF RingInv, InUse, SbSlots
      <4>3. sb[sbRd] \in Operations /\ sb[sbRd].kind = "store"
        BY <4>2 DEF TypeOK
      <4>4. memory' = [memory EXCEPT ![sb[sbRd].word] = Merge(@, sb[sbRd].strb, sb[sbRd].data)]
        BY <2>3, <3>1 DEF Cache
      <4>5. Merge(memory[sb[sbRd].word], sb[sbRd].strb, sb[sbRd].data) \in Values
        BY <4>3, OperationsTyped, ValuesClosed DEF TypeOK
      <4> QED BY <4>4, <4>5 DEF TypeOK
    <3>2. CASE ~DrainPop
      BY <2>3, <3>2 DEF Cache, TypeOK
    <3> QED BY <3>1, <3>2
  <2>11. sbCount' \in 0 .. SbDepth /\ lqCount' \in 0 .. LqDepth
    BY DEF RingInv
  <2>12. /\ ex' \in Operations \cup {None} /\ mem' \in Operations \cup {None}
         /\ sent' \in BOOLEAN /\ id' \in {"other", "use", "fence"} /\ prog' \in [Words -> Values]
    BY <2>3, PipelineTyped
  <2> QED BY <2>5, <2>7, <2>8, <2>9, <2>10, <2>11, <2>12 DEF TypeOK
<1> QED BY <1>1, <1>2

\* Every register holds one of its values.
THEOREM LsuTypeCorrect == Spec => []TypeOK
BY LsuTypesStart, LsuTypesStep, RingsHold, PTL DEF Spec

-----------------------------------------------------------------------------
(***************************************************************************)
(* Operations on their way from EX to the buffers.  A fence has nothing in *)
(* EX in front of it, and a reader of the load in EX nothing in MEM, so    *)
(* that the bubbles they put into EX displace no operation.                *)
(***************************************************************************)
BubbleInv == (id = "fence" => ex = None) /\ (id = "use" => mem = None)

LEMMA BubbleStep ==
  ASSUME "use" \notin Windows, "fence" \notin Windows, BubbleInv, NEW held \in BOOLEAN, Pipeline(held)
  PROVE  BubbleInv'
<1>1. CASE Freeze(held)
  BY <1>1 DEF Freeze, IdWaits, LoadUse, BubbleInv
<1>2. CASE Stall(held)
  BY <1>2 DEF Stall, IdWaits, LoadUse, BubbleInv
<1>3. CASE Advance(held)
  BY <1>3 DEF Advance, FollowedBy, BubbleInv
<1> QED BY <1>1, <1>2, <1>3 DEF Pipeline

LEMMA OperationsStep ==
  ASSUME BubbleInv, NEW held \in BOOLEAN, Pipeline(held)
  PROVE  /\ ex # None => mem' = ex \/ (ex' = ex /\ mem' = mem)
         /\ ReqValid /\ ~ReqReady => mem' = mem /\ ~sent'
         /\ ReqValid /\ ReqReady => sent' \/ mem' = ex
<1>1. CASE Freeze(held)
  BY <1>1 DEF Freeze, Frozen, Flush, FenceStall, LoadUse, MemWait, ReqValid, BubbleInv
<1>2. CASE Stall(held) \/ Advance(held)
  BY <1>2 DEF Stall, Advance, Frozen, MemWait
<1> QED BY <1>1, <1>2 DEF Pipeline

\* In programs without a fence, or a reader, right behind a memory operation
\* (the windows "fence" and "use"), an operation is neither lost nor issued
\* twice on its way from EX to the buffers, whatever stalls, holds and flushes
\* the pipeline (riscv_cpu_core_v2.v:418-450, hazard_detection.v:60-130).
THEOREM OperationsAreKept ==
  ASSUME "use" \notin Windows, "fence" \notin Windows
  PROVE  Spec => OperationsKept
<1>1. Init => BubbleInv
  BY DEF Init, BubbleInv
<1>2. BubbleInv /\ [Next]_vars => BubbleInv'
  <2> SUFFICES ASSUME BubbleInv, [Next]_vars PROVE BubbleInv'
    OBVIOUS
  <2>1. CASE Next
    BY <2>1, BubbleStep DEF Next, Cycle
  <2>2. CASE UNCHANGED vars
    BY <2>2 DEF vars, pipe, BubbleInv
  <2> QED BY <2>1, <2>2
<1>3. BubbleInv /\ [Next]_vars
      => [/\ ex # None => mem' = ex \/ (ex' = ex /\ mem' = mem)
          /\ ReqValid /\ ~ReqReady => mem' = mem /\ ~sent'
          /\ ReqValid /\ ReqReady => sent' \/ mem' = ex]_vars
  <2> SUFFICES ASSUME BubbleInv, Next
               PROVE  /\ ex # None => mem' = ex \/ (ex' = ex /\ mem' = mem)
                      /\ ReqValid /\ ~ReqReady => mem' = mem /\ ~sent'
                      /\ ReqValid /\ ReqReady => sent' \/ mem' = ex
    OBVIOUS
  <2> QED BY OperationsStep DEF Next, Cycle
<1> QED BY <1>1, <1>2, <1>3, PTL DEF Spec, OperationsKept

-----------------------------------------------------------------------------
(***************************************************************************)
(* The scoreboard.  It has one bit per register, which the result of any   *)
(* load of the register clears: that is enough because no two loads of a   *)
(* register are under way, and a load in front of the unit has a register  *)
(* that is not marked.                                                     *)
(***************************************************************************)
Guarded(op, marks) == op.rd = 0 \/ op.rd \in marks
Differ(a, b) == a.rd = b.rd => a.rd = 0
Fresh(op)   == op.kind = "load" => op.rd = 0 \/ op.rd \notin scoreboard

EntriesInv ==
  /\ \A i \in LqSlots : lq[i] # None => lq[i].op # None /\ Guarded(lq[i].op, scoreboard)
  /\ \A i, j \in LqSlots : i # j /\ lq[i] # None /\ lq[j] # None => Differ(lq[i].op, lq[j].op)
  /\ \A i \in LqSlots : lq[i] # None /\ cur # None => Differ(lq[i].op, cur)
  /\ \A i \in LqSlots : lq[i] # None /\ result # None => Differ(lq[i].op, result.op)
  /\ IF loadState = "dcache" THEN cur # None /\ Guarded(cur, scoreboard) ELSE cur = None
  /\ loadState # "result" => result = None
  /\ result # None => Guarded(result.op, scoreboard)
PipeInv ==
  /\ Fresh(ex)
  /\ ReqValid => Fresh(mem)
  /\ ReqValid /\ ex.kind = "load" /\ mem.kind = "load" => Differ(ex, mem)
GuardInv == EntriesInv /\ PipeInv

LEMMA GuardStarts == Init => GuardInv
<1> SUFFICES ASSUME Init PROVE GuardInv
  OBVIOUS
<1>1. \A i \in LqSlots : lq[i] = None
  BY DEF Init
<1> QED BY <1>1 DEF Init, None, GuardInv, EntriesInv, PipeInv, Fresh, ReqValid

LEMMA GuardImplies == GuardInv => RegistersGuarded
BY DEF GuardInv, EntriesInv, RegistersGuarded, UnderWay, Guarded

\* What a cycle does to the marks.
LEMMA MarksStep ==
  ASSUME NEW ack \in BOOLEAN, Scoreboard(ack)
  PROVE  /\ \A r \in scoreboard' : r \in scoreboard \/ (DoLoad /\ r = mem.rd)
         /\ \A r \in scoreboard : r = 0 \/ r \in scoreboard' \/ (ack /\ r = result.op.rd)
         /\ DoLoad => mem.rd = 0 \/ mem.rd \in scoreboard' \/ (ack /\ mem.rd = result.op.rd)
BY DEF Scoreboard

LEMMA PipeStep ==
  ASSUME "reload" \notin Windows, PipeInv,
         NEW ack \in BOOLEAN, Scoreboard(ack), NEW held \in BOOLEAN, Pipeline(held)
  PROVE  PipeInv'
<1>1. DoLoad => ReqValid /\ ReqReady /\ mem.kind = "load"
  BY DEF DoLoad
<1>2. Fresh(ex) /\ (DoLoad /\ ex.kind = "load" => Differ(ex, mem))
  BY <1>1 DEF PipeInv
<1>3. ex.kind = "load" => ex.rd = 0 \/ ex.rd \notin scoreboard'
  BY <1>2, MarksStep DEF Fresh, Differ
<1>4. None.kind # "load"
  BY DEF None
<1>5. CASE Freeze(held)
  <2>1. ex' = ex \/ ex' = None
    BY <1>5 DEF Freeze
  <2>2. mem' = mem /\ (ReqValid' => ReqValid /\ ~DoLoad)
    BY <1>5 DEF Freeze, ReqValid, MemWait, DoLoad
  <2>3. ReqValid' => Fresh(mem)'
    BY <2>2, MarksStep DEF PipeInv, Fresh
  <2>4. Fresh(ex)'
    BY <1>3, <1>4, <2>1 DEF Fresh
  <2>5. (ReqValid /\ ex.kind = "load" /\ mem.kind = "load" => Differ(ex, mem))'
    BY <1>4, <2>1, <2>2 DEF PipeInv, Differ
  <2> QED BY <2>3, <2>4, <2>5 DEF PipeInv
<1>6. CASE Stall(held)
  <2>1. mem' = ex /\ ex' = None
    BY <1>6 DEF Stall
  <2> QED BY <1>3, <1>4, <2>1 DEF PipeInv, Fresh
<1>7. CASE Advance(held)
  <2>1. mem' = ex
    BY <1>7 DEF Advance
  <2>2. CASE EnterOther
    BY <1>3, <1>4, <2>1, <2>2 DEF EnterOther, PipeInv, Fresh
  <2>3. CASE EnterStore
    <3>1. ex'.kind # "load"
      BY <2>3 DEF EnterStore, StoreOp
    <3> QED BY <1>3, <2>1, <3>1 DEF PipeInv, Fresh
  <2>4. CASE EnterLoad
    <3>1. PICK a \in LoadOps : LoadApart(a[1], a[2]) /\ ex' = LoadOp(a[1], a[2], prog[a[1]])
      BY <2>4 DEF EnterLoad
    <3>2. ex'.rd = a[2]
      BY <3>1 DEF LoadOp
    <3>3. a[2] = 0 \/ ~LoadingTo(a[2])
      BY <3>1 DEF LoadApart
    <3>4. a[2] = 0 \/ a[2] \notin scoreboard'
      <4>1. DoLoad => mem \in InPipe("load")
        BY <1>1 DEF InPipe
      <4> QED BY <3>3, <4>1, MarksStep DEF LoadingTo
    <3>5. ex.kind = "load" => a[2] = 0 \/ ex.rd # a[2]
      BY <3>3 DEF LoadingTo, InPipe
    <3>6. Fresh(ex)' /\ Fresh(mem)'
      BY <1>3, <2>1, <3>2, <3>4 DEF Fresh
    <3>7. (ex.kind = "load" /\ mem.kind = "load" => Differ(ex, mem))'
      BY <2>1, <3>2, <3>5 DEF Differ
    <3> QED BY <3>6, <3>7 DEF PipeInv
  <2> QED BY <1>7, <2>2, <2>3, <2>4 DEF Advance
<1> QED BY <1>5, <1>6, <1>7 DEF Pipeline

LEMMA EntriesStep ==
  ASSUME RingInv, GuardInv, LoadQueue,
         NEW ack \in BOOLEAN, ack => result # None, Scoreboard(ack), LoadFsm(ack)
  PROVE  EntriesInv'
<1> DEFINE old(i) == lq[i] # None /\ ~(Dequeue /\ i = lqRd)
           new(i) == DoLoad /\ i = lqWr
<1>1. Dequeue => Oldest # None /\ lqRd \in LqSlots /\ loadState = "idle" /\ cur = None /\ result = None
  <2>1. lqRd \in 0 .. LqDepth - 1 /\ lqCount \in 0 .. LqDepth
    BY DEF RingInv, LqSlots
  <2>2. Dequeue => InUse(lqRd, lqRd, lqCount, LqDepth)
    BY <2>1 DEF Dequeue, InUse
  <2> QED BY <2>1, <2>2 DEF Dequeue, Oldest, RingInv, LqSlots, GuardInv, EntriesInv
<1>2. DoLoad => mem # None /\ (mem.rd = 0 \/ mem.rd \notin scoreboard)
  BY DEF DoLoad, ReqValid, GuardInv, PipeInv, Fresh
<1>3. ASSUME NEW i \in LqSlots, lq'[i] # None
      PROVE  (new(i) /\ lq'[i].op = mem) \/ (~new(i) /\ old(i) /\ lq'[i].op = lq[i].op)
  <2>1. lq'[i] = IF new(i) THEN NewEntry ELSE IF Dequeue /\ i = lqRd THEN None ELSE lq[i]
    BY DEF LoadQueue
  <2>2. NewEntry.op = mem
    BY DEF NewEntry, Entry
  <2> QED BY <1>3, <2>1, <2>2
\* Who is guarded stays guarded, unless it is the load whose result is taken.
\* Who is guarded stays guarded, unless it is the load whose result is taken.
<1>4. ASSUME NEW op, Guarded(op, scoreboard), ack => Differ(op, result.op)
      PROVE  Guarded(op, scoreboard')
  BY <1>4, MarksStep DEF Guarded, Differ
<1>5. DoLoad => Guarded(mem, scoreboard')
  <2>1. ack => Guarded(result.op, scoreboard)
    BY DEF GuardInv, EntriesInv
  <2> QED BY <1>2, <2>1, MarksStep DEF Guarded
\* A new entry differs from all that are guarded.
<1>6. ASSUME DoLoad, NEW op, Guarded(op, scoreboard) PROVE Differ(op, mem) /\ Differ(mem, op)
  BY <1>2, <1>6 DEF Guarded, Differ
<1>7. \A i \in LqSlots : lq'[i] # None => lq'[i].op # None /\ Guarded(lq'[i].op, scoreboard')
  <2> SUFFICES ASSUME NEW i \in LqSlots, lq'[i] # None
               PROVE  lq'[i].op # None /\ Guarded(lq'[i].op, scoreboard')
    OBVIOUS
  <2>1. CASE new(i)
    BY <1>2, <1>3, <1>5, <2>1
  <2>2. CASE ~new(i)
    <3>1. lq[i] # None /\ lq'[i].op = lq[i].op
      BY <1>3, <2>2
    <3>2. lq[i].op # None /\ Guarded(lq[i].op, scoreboard) /\ (ack => Differ(lq[i].op, result.op))
      BY <3>1 DEF GuardInv, EntriesInv
    <3>3. Guarded(lq[i].op, scoreboard')
      BY <3>2, <1>4
    <3> QED BY <3>1, <3>2, <3>3
  <2> QED BY <2>1, <2>2
<1>8. \A i, j \in LqSlots : i # j /\ lq'[i] # None /\ lq'[j] # None => Differ(lq'[i].op, lq'[j].op)
  <2> SUFFICES ASSUME NEW i \in LqSlots, NEW j \in LqSlots, i # j, lq'[i] # None, lq'[j] # None
               PROVE  Differ(lq'[i].op, lq'[j].op)
    OBVIOUS
  <2>1. CASE new(i)
    <3>1. lq'[i].op = mem /\ lq'[j].op = lq[j].op /\ Guarded(lq[j].op, scoreboard)
      BY <1>3, <2>1 DEF GuardInv, EntriesInv
    <3> QED BY <1>6, <2>1, <3>1
  <2>2. CASE new(j)
    <3>1. lq'[j].op = mem /\ lq'[i].op = lq[i].op /\ Guarded(lq[i].op, scoreboard)
      BY <1>3, <2>2 DEF GuardInv, EntriesInv
    <3> QED BY <1>6, <2>2, <3>1
  <2>3. CASE ~new(i) /\ ~new(j)
    <3>1. lq'[i].op = lq[i].op /\ lq'[j].op = lq[j].op /\ lq[i] # None /\ lq[j] # None
      BY <1>3, <2>3
    <3> QED BY <3>1 DEF GuardInv, EntriesInv
  <2> QED BY <2>1, <2>2, <2>3
\* A guarded load that differs from the entries left differs from a new one too.
<1>9. ASSUME NEW op, Guarded(op, scoreboard), \A i \in LqSlots : old(i) => Differ(lq[i].op, op)
      PROVE  \A i \in LqSlots : lq'[i] # None => Differ(lq'[i].op, op)
  <2> SUFFICES ASSUME NEW i \in LqSlots, lq'[i] # None PROVE Differ(lq'[i].op, op)
    OBVIOUS
  <2>1. CASE new(i)
    BY <1>3, <1>6, <1>9, <2>1
  <2>2. CASE ~new(i)
    BY <1>3, <1>9, <2>2
  <2> QED BY <2>1, <2>2
<1>10. CASE Dequeue
  <2>1. Guarded(Oldest.op, scoreboard) /\ Oldest.op # None /\ ~ack
    BY <1>1, <1>10 DEF Oldest, GuardInv, EntriesInv
  <2>2. \A i \in LqSlots : old(i) => Differ(lq[i].op, Oldest.op)
    BY <1>1, <1>10 DEF Oldest, GuardInv, EntriesInv
  <2>3. \A i \in LqSlots : lq'[i] # None => Differ(lq'[i].op, Oldest.op)
    BY <1>9, <2>1, <2>2
  <2>4. Guarded(Oldest.op, scoreboard')
    BY <1>4, <2>1
  <2>5. \/ loadState' = "result" /\ result'.op = Oldest.op /\ cur' = None
        \/ loadState' = "dcache" /\ cur' = Oldest.op /\ result' = None
    BY <1>1, <1>10 DEF LoadFsm, LoadIdle, LoadForwarded, LoadStart, LoadDcache, LoadResult, Answer
  <2>6. CASE loadState' = "result" /\ result'.op = Oldest.op /\ cur' = None
    BY <1>7, <1>8, <2>3, <2>4, <2>6 DEF EntriesInv
  <2>7. CASE loadState' = "dcache" /\ cur' = Oldest.op /\ result' = None
    BY <1>7, <1>8, <2>1, <2>3, <2>4, <2>7 DEF EntriesInv
  <2> QED BY <2>5, <2>6, <2>7
<1>11. CASE ~Dequeue /\ loadState = "dcache"
  <2>1. cur # None /\ Guarded(cur, scoreboard) /\ result = None /\ ~ack
    BY <1>11 DEF GuardInv, EntriesInv
  <2>2. \A i \in LqSlots : lq'[i] # None => Differ(lq'[i].op, cur)
    <3>1. \A i \in LqSlots : old(i) => Differ(lq[i].op, cur)
      BY <2>1 DEF GuardInv, EntriesInv
    <3> QED BY <1>9, <2>1, <3>1
  <2>3. Guarded(cur, scoreboard')
    BY <1>4, <2>1
  <2>4. \/ loadState' = "result" /\ result'.op = cur /\ cur' = None
        \/ loadState' = "dcache" /\ cur' = cur /\ result' = None
    BY <1>11, <2>1 DEF LoadFsm, LoadIdle, LoadForwarded, LoadStart, LoadDcache, LoadResult, Answer
  <2>5. CASE loadState' = "result" /\ result'.op = cur /\ cur' = None
    BY <1>7, <1>8, <2>2, <2>3, <2>5 DEF EntriesInv
  <2>6. CASE loadState' = "dcache" /\ cur' = cur /\ result' = None
    BY <1>7, <1>8, <2>1, <2>2, <2>3, <2>6 DEF EntriesInv
  <2> QED BY <2>4, <2>5, <2>6
<1>12. CASE ~Dequeue /\ loadState # "dcache"
  <2>1. cur = None /\ cur' = None /\ loadState' # "dcache"
    BY <1>12 DEF LoadFsm, LoadIdle, LoadForwarded, LoadStart, LoadDcache, LoadResult, GuardInv, EntriesInv
  <2>2. CASE result' = None
    BY <1>7, <1>8, <2>1, <2>2 DEF EntriesInv
  <2>3. CASE result' # None
    <3>1. result' = result /\ loadState' = "result" /\ ~ack
      BY <1>12, <2>3 DEF LoadFsm, LoadIdle, LoadForwarded, LoadStart, LoadDcache, LoadResult,
                         GuardInv, EntriesInv
    <3>2. Guarded(result.op, scoreboard) /\ \A i \in LqSlots : old(i) => Differ(lq[i].op, result.op)
      BY <2>3, <3>1 DEF GuardInv, EntriesInv
    <3>3. \A i \in LqSlots : lq'[i] # None => Differ(lq'[i].op, result.op)
      BY <1>9, <3>2
    <3>4. Guarded(result.op, scoreboard')
      BY <1>4, <3>1, <3>2
    <3> QED BY <1>7, <1>8, <2>1, <3>1, <3>3, <3>4 DEF EntriesInv
  <2> QED BY <2>2, <2>3
<1> QED BY <1>10, <1>11, <1>12

\* In programs that load no register a load is under way for (the window
\* "reload"), the scoreboard marks the register of every load in the unit, so
\* that no instruction reads or overtakes it (LSU.v:270-285).
THEOREM RegistersAreGuarded ==
  ASSUME "reload" \notin Windows
  PROVE  Spec => []RegistersGuarded
<1>1. RingInv /\ GuardInv /\ [Next]_vars => GuardInv'
  <2> SUFFICES ASSUME RingInv, GuardInv, [Next]_vars PROVE GuardInv'
    OBVIOUS
  <2>1. CASE Next
    <3>1. PICK held \in BOOLEAN, alu \in BOOLEAN : Cycle(held, alu)
      BY <2>1 DEF Next
    <3>2. PICK ack \in BOOLEAN : (ack => result # None) /\ Scoreboard(ack) /\ LoadFsm(ack)
      BY <3>1 DEF Cycle
    <3>3. EntriesInv'
      BY <3>1, <3>2, EntriesStep DEF Cycle
    <3>4. PipeInv'
      BY <3>1, <3>2, PipeStep DEF Cycle, GuardInv
    <3> QED BY <3>3, <3>4 DEF GuardInv
  <2>2. CASE UNCHANGED vars
    BY <2>2 DEF vars, pipe, load, fsms, GuardInv, EntriesInv, PipeInv, Guarded, Fresh, Differ, ReqValid
  <2> QED BY <2>1, <2>2
<1> QED BY GuardStarts, GuardImplies, RingsHold, <1>1, PTL DEF Spec

-----------------------------------------------------------------------------
(***************************************************************************)
(* Fences.  What a word is in the program is what the youngest store to it *)
(* says that is still on its way: in EX, in MEM, or in the store buffer,   *)
(* where the youngest is the one farthest from the read pointer; and what  *)
(* the cache holds if none is.  A fence waits until none is.               *)
(***************************************************************************)
Writes(op, w, l) == op.kind = "store" /\ op.word = w /\ l \in op.strb
Age(i)           == IF sbRd <= i THEN i - sbRd ELSE i + SbDepth - sbRd
Youngest(i, w, l) ==
  /\ Writes(sb[i], w, l)
  /\ \A j \in SbSlots : Writes(sb[j], w, l) => Age(j) <= Age(i)
Buffered(w, l, v) ==
  IF \E i \in SbSlots : Writes(sb[i], w, l)
  THEN \A i \in SbSlots : Youngest(i, w, l) => sb[i].data[l] = v
  ELSE memory[w][l] = v
InMem(w, l) == ReqValid /\ Writes(mem, w, l)
OnItsWay(w, l) ==
  IF Writes(ex, w, l) THEN ex.data[l] = prog[w][l]
  ELSE IF InMem(w, l) THEN mem.data[l] = prog[w][l]
  ELSE Buffered(w, l, prog[w][l])

FenceInv ==
  /\ \A w \in Words, l \in Lanes : OnItsWay(w, l)
  /\ (id = "fence" => ex = None) /\ (id = "use" => ex.kind = "load")
  /\ loadState # "dcache" => cur = None

LEMMA NoneWritesNothing == \A w, l : ~Writes(None, w, l)
BY DEF Writes, None

LEMMA FencesStart == Init => FenceInv
<1> SUFFICES ASSUME Init PROVE FenceInv
  OBVIOUS
<1>1. \A w, l : ~Writes(ex, w, l) /\ ~InMem(w, l) /\ \A i \in SbSlots : ~Writes(sb[i], w, l)
  BY NoneWritesNothing DEF Init, InMem, ReqValid
<1>2. memory = prog
  BY DEF Init
<1> QED BY <1>1, <1>2 DEF Init, FenceInv, OnItsWay, Buffered

\* A cycle of the store buffer: the slots that keep their entry grow younger
\* together, and what is pushed is younger than all of them.
LEMMA BufferMoves ==
  ASSUME RingInv, StoreBuffer
  PROVE  /\ SbDepth \in Nat \ {0} /\ sbRd \in 0 .. SbDepth - 1 /\ sbCount \in 0 .. SbDepth
         /\ sbWr = Wrapped(sbRd + sbCount, SbDepth) /\ sbWr \in SbSlots /\ SbSlots = 0 .. SbDepth - 1
         /\ (DoStore => sbCount # SbDepth) /\ (DrainPop => sbCount # 0)
         /\ \A i \in SbSlots : sb'[i] = IF DrainPop /\ i = sbRd THEN None
                                        ELSE IF DoStore /\ i = sbWr THEN mem ELSE sb[i]
         /\ \A i \in SbSlots : sb[i] # None <=> InUse(i, sbRd, sbCount, SbDepth)
         /\ \A i \in SbSlots : Age(i) \in Nat
         /\ \A i \in SbSlots : ~(DrainPop /\ i = sbRd) =>
              Age(i)' = IF DrainPop THEN Age(i) - 1 ELSE Age(i)
         /\ \A i \in SbSlots : InUse(i, sbRd, sbCount, SbDepth) => Age(i) < sbCount
         /\ DoStore => /\ Age(sbWr) = sbCount /\ ~InUse(sbWr, sbRd, sbCount, SbDepth)
                       /\ DrainPop => sbWr # sbRd
<1> DEFINE push == DoStore
           pop  == DrainPop
<1>0. /\ SbDepth \in Nat \ {0} /\ sbRd \in 0 .. SbDepth - 1 /\ sbCount \in 0 .. SbDepth
      /\ sbWr = Wrapped(sbRd + sbCount, SbDepth) /\ sbWr \in SbSlots
      /\ SbSlots = 0 .. SbDepth - 1
  <2>1. SbDepth \in Nat \ {0} /\ sbRd \in 0 .. SbDepth - 1 /\ sbCount \in 0 .. SbDepth
    BY LsuConstants DEF RingInv, SbSlots
  <2>2. sbRd + sbCount \in 0 .. 2 * SbDepth - 1
    BY <2>1
  <2>3. (sbRd + sbCount) % SbDepth = Wrapped(sbRd + sbCount, SbDepth)
    BY <2>1, <2>2, Wraps1
  <2> QED BY <2>1, <2>3 DEF RingInv, SbSlots, Wrapped
<1>1. (push => sbCount # SbDepth) /\ (pop => sbCount # 0)
  BY DEF DoStore, ReqReady, DrainPop, RingInv
<1>2. sbRd' = IF pop THEN Wrapped(sbRd + 1, SbDepth) ELSE sbRd
  <2>1. After(sbRd, SbDepth) = Wrapped(sbRd + 1, SbDepth)
    BY <1>0, Wraps1 DEF After
  <2> QED BY <2>1 DEF StoreBuffer
<1> HIDE DEF push, pop
<1>3. \A i \in SbSlots : sb'[i] = IF pop /\ i = sbRd THEN None ELSE IF push /\ i = sbWr THEN mem ELSE sb[i]
  BY DEF StoreBuffer, push, pop
<1>4. \A i \in SbSlots : sb[i] # None <=> InUse(i, sbRd, sbCount, SbDepth)
  BY DEF RingInv
<1>5. ASSUME NEW i \in SbSlots, ~(pop /\ i = sbRd)
      PROVE  Age(i)' = IF pop THEN Age(i) - 1 ELSE Age(i)
  BY <1>0, <1>2, <1>5 DEF Age, Wrapped
<1>6. ASSUME NEW i \in SbSlots, InUse(i, sbRd, sbCount, SbDepth) PROVE Age(i) < sbCount
  BY <1>0, <1>6 DEF Age, InUse
<1>7. push => Age(sbWr) = sbCount
  BY <1>0, <1>1 DEF Age, Wrapped
<1>8. push => ~InUse(sbWr, sbRd, sbCount, SbDepth) /\ (pop => sbWr # sbRd)
  BY <1>0, <1>1 DEF InUse, Wrapped
<1>9. \A i \in SbSlots : Age(i) \in Nat
  BY <1>0 DEF Age
<1> QED BY <1>0, <1>1, <1>3, <1>4, <1>5, <1>6, <1>7, <1>8, <1>9 DEF push, pop

\* The store buffer and the cache: a store that is popped is the oldest.
LEMMA BufferStep ==
  ASSUME RingInv, TypeOK, StoreBuffer, Cache, NEW w \in Words, NEW l \in Lanes, NEW v,
         IF DoStore /\ Writes(mem, w, l) THEN mem.data[l] = v ELSE Buffered(w, l, v)
  PROVE  Buffered(w, l, v)'
<1> DEFINE push == DoStore
           pop  == DrainPop
<1>0. /\ SbDepth \in Nat \ {0} /\ sbRd \in 0 .. SbDepth - 1 /\ sbCount \in 0 .. SbDepth
      /\ sbWr = Wrapped(sbRd + sbCount, SbDepth) /\ sbWr \in SbSlots /\ SbSlots = 0 .. SbDepth - 1
  BY BufferMoves
<1>1. (push => sbCount # SbDepth) /\ (pop => sbCount # 0)
  BY BufferMoves
<1> HIDE DEF push, pop
<1>3. \A i \in SbSlots : sb'[i] = IF pop /\ i = sbRd THEN None ELSE IF push /\ i = sbWr THEN mem ELSE sb[i]
  BY BufferMoves DEF push, pop
<1>4. ASSUME NEW i \in SbSlots, Writes(sb[i], w, l) PROVE InUse(i, sbRd, sbCount, SbDepth)
  BY <1>4, BufferMoves, NoneWritesNothing
<1>5. \A i \in SbSlots : ~(pop /\ i = sbRd) => Age(i)' = IF pop THEN Age(i) - 1 ELSE Age(i)
  BY BufferMoves DEF pop
<1>6. \A i \in SbSlots : InUse(i, sbRd, sbCount, SbDepth) => Age(i) < sbCount
  BY BufferMoves
<1>7. push => Age(sbWr) = sbCount
  BY BufferMoves DEF push
<1>8. push => ~InUse(sbWr, sbRd, sbCount, SbDepth) /\ (pop => sbWr # sbRd)
  BY BufferMoves DEF push, pop
<1>9. \A i \in SbSlots : Age(i) \in Nat
  BY BufferMoves
<1>10. CASE push /\ Writes(mem, w, l)
  <2>0. PICK last \in SbSlots : last = sbWr
    BY <1>0
  <2>1. sb'[last] = mem /\ mem.data[l] = v
    BY <2>0, <1>0, <1>3, <1>8, <1>10 DEF push
  <2>2. ASSUME NEW i \in SbSlots, Youngest(i, w, l)' PROVE i = last
    <3> SUFFICES ASSUME i # last PROVE FALSE
      OBVIOUS
    <3>1. Writes(sb'[i], w, l) /\ Age(last)' <= Age(i)'
      <4>1. Writes(sb'[i], w, l) /\ \A j \in SbSlots : Writes(sb'[j], w, l) => Age(j)' <= Age(i)'
        BY <2>2 DEF Youngest
      <4>2. Writes(sb'[last], w, l)
        BY <1>10, <2>1
      <4> QED BY <4>1, <4>2
    <3>2. ~(pop /\ i = sbRd) /\ sb'[i] = sb[i]
      BY <2>0, <1>3, <3>1, NoneWritesNothing
    <3>3. Age(i) < sbCount
      BY <1>4, <1>6, <3>1, <3>2
    <3>4. ~(pop /\ last = sbRd)
      BY <2>0, <1>8, <1>10
    <3>5. Age(i)' = IF pop THEN Age(i) - 1 ELSE Age(i)
      BY <1>5, <3>2
    <3>6. Age(last)' = IF pop THEN sbCount - 1 ELSE sbCount
      BY <2>0, <1>0, <1>5, <1>7, <1>10, <3>4
    <3>7. Age(i) \in Nat /\ sbCount \in Nat
      BY <1>0, <1>9
    <3> HIDE DEF push, pop
    <3> QED BY <3>1, <3>3, <3>5, <3>6, <3>7
  <2>3. \E i \in SbSlots : Writes(sb'[i], w, l)
    BY <1>10, <2>1
  <2> QED BY <2>1, <2>2, <2>3 DEF Buffered
<1>11. CASE ~(push /\ Writes(mem, w, l))
  <2>1. Buffered(w, l, v)
    BY <1>11 DEF push
  <2>2. \A i \in SbSlots : Writes(sb'[i], w, l) <=> Writes(sb[i], w, l) /\ ~(pop /\ i = sbRd)
    <3> TAKE i \in SbSlots
    <3>1. push /\ i = sbWr => ~Writes(sb[i], w, l)
      BY <1>4, <1>8
    <3> QED BY <1>3, <1>11, <3>1, NoneWritesNothing
  <2>3. \A i \in SbSlots : Writes(sb'[i], w, l) => sb'[i] = sb[i]
    BY <1>3, <1>11, NoneWritesNothing
  <2>4. CASE \E i \in SbSlots : Writes(sb'[i], w, l)
    <3>1. PICK k \in SbSlots : Writes(sb'[k], w, l)
      BY <2>4
    <3>2. ASSUME NEW i \in SbSlots, Youngest(i, w, l)' PROVE Youngest(i, w, l)
      <4>1. Writes(sb'[i], w, l) /\ \A j \in SbSlots : Writes(sb'[j], w, l) => Age(j)' <= Age(i)'
        BY <3>2 DEF Youngest
      <4>2. Writes(sb[i], w, l) /\ ~(pop /\ i = sbRd)
        BY <2>2, <4>1
      <4>3. ASSUME NEW j \in SbSlots, Writes(sb[j], w, l) PROVE Age(j) <= Age(i)
        <5>1. CASE pop /\ j = sbRd
          BY <1>0, <1>9, <5>1 DEF Age
        <5>2. CASE ~(pop /\ j = sbRd)
          BY <1>5, <1>9, <2>2, <4>1, <4>2, <4>3, <5>2
        <5> QED BY <5>1, <5>2
      <4> QED BY <4>2, <4>3 DEF Youngest
    <3>3. \A i \in SbSlots : Youngest(i, w, l)' => sb'[i].data[l] = v
      <4> SUFFICES ASSUME NEW i \in SbSlots, Youngest(i, w, l)' PROVE sb'[i].data[l] = v
        OBVIOUS
      <4>1. Youngest(i, w, l) /\ Writes(sb[i], w, l)
        BY <3>2 DEF Youngest
      <4>2. sb[i].data[l] = v
        BY <2>1, <4>1 DEF Buffered
      <4>3. sb'[i] = sb[i]
        BY <2>3 DEF Youngest
      <4> QED BY <4>2, <4>3
    <3> QED BY <2>4, <3>3 DEF Buffered
  <2>5. CASE ~\E i \in SbSlots : Writes(sb'[i], w, l)
    <3>1. memory'[w][l] = v
      <4>1. memory' = IF pop THEN [memory EXCEPT ![sb[sbRd].word] = Merge(@, sb[sbRd].strb, sb[sbRd].data)]
                      ELSE memory
        BY DEF Cache, pop
      <4>2. CASE pop /\ Writes(sb[sbRd], w, l)
        <5>1. \A i \in SbSlots : Writes(sb[i], w, l) => i = sbRd
          BY <2>2, <2>5
        <5>2. Youngest(sbRd, w, l)
          BY <4>2, <5>1, <1>0, <1>9 DEF Youngest
        <5>3. sb[sbRd].data[l] = v
          BY <1>0, <2>1, <4>2, <5>2 DEF Buffered
        <5>4. memory'[w] = Merge(memory[w], sb[sbRd].strb, sb[sbRd].data)
          BY <4>1, <4>2 DEF Writes, TypeOK
        <5> QED BY <4>2, <5>3, <5>4 DEF Merge, Writes
      <4>3. CASE ~(pop /\ Writes(sb[sbRd], w, l))
        <5>1. \A i \in SbSlots : ~Writes(sb[i], w, l)
          BY <2>2, <2>5, <4>3
        <5>2. memory[w][l] = v
          BY <2>1, <5>1 DEF Buffered
        <5>3. CASE pop
          <6>1. sb[sbRd] \in Operations /\ sb[sbRd].kind = "store"
            <7>1. InUse(sbRd, sbRd, sbCount, SbDepth)
              BY <1>0, <1>1, <5>3 DEF InUse
            <7> QED BY <1>0, <7>1 DEF RingInv, TypeOK
          <6>2. memory'[w] = IF w = sb[sbRd].word THEN Merge(memory[w], sb[sbRd].strb, sb[sbRd].data)
                             ELSE memory[w]
            BY <4>1, <5>3 DEF TypeOK
          <6>3. w = sb[sbRd].word => l \notin sb[sbRd].strb
            BY <1>0, <5>1, <6>1 DEF Writes
          <6> QED BY <5>2, <6>2, <6>3 DEF Merge
        <5>4. CASE ~pop
          BY <4>1, <5>2, <5>4
        <5> QED BY <5>3, <5>4
      <4> QED BY <4>2, <4>3
    <3> QED BY <2>5, <3>1 DEF Buffered
  <2> QED BY <2>4, <2>5
<1> QED BY <1>10, <1>11

\* What leaves MEM goes into the store buffer, what leaves EX into MEM, and
\* what enters EX is the youngest.
LEMMA OnItsWayStep ==
  ASSUME RingInv, TypeOK, FenceInv, NEW held \in BOOLEAN, Pipeline(held), StoreBuffer, Cache,
         NEW w \in Words, NEW l \in Lanes
  PROVE  OnItsWay(w, l)'
<1> DEFINE Pushed(v) == IF DoStore /\ Writes(mem, w, l) THEN mem.data[l] = v ELSE Buffered(w, l, v)
<1>1. ASSUME Pushed(prog'[w][l]) PROVE Buffered(w, l, prog[w][l])'
  <2>1. PICK v : v = prog'[w][l]
    OBVIOUS
  <2>2. Buffered(w, l, v)'
    BY <1>1, <2>1, BufferStep
  <2> QED BY <2>1, <2>2 DEF Buffered
<1>2. OnItsWay(w, l) /\ (id = "fence" => ex = None) /\ (id = "use" => ex.kind = "load")
  BY DEF FenceInv
<1>3. Writes(mem, w, l) => mem.kind = "store" /\ mem # None
  BY DEF Writes, None
<1>4. ASSUME ~MemWait, ~Writes(ex, w, l) PROVE Pushed(prog[w][l])
  BY <1>2, <1>3, <1>4 DEF OnItsWay, InMem, MemWait, DoStore
<1> HIDE DEF Pushed
<1>5. CASE Freeze(held)
  <2>1. mem' = mem /\ prog' = prog /\ (ReqValid' <=> MemWait)
    BY <1>5 DEF Freeze, ReqValid, MemWait
  <2>2. (ex' = ex \/ ex' = None) /\ (ex' # ex => ~Writes(ex, w, l)) /\ ~Writes(None, w, l)
    BY <1>2, <1>5, NoneWritesNothing DEF Freeze, Flush, FenceStall, LoadUse, Writes
  <2>3. CASE Writes(ex, w, l)
    BY <1>2, <2>1, <2>2, <2>3 DEF OnItsWay
  <2>4. CASE ~Writes(ex, w, l) /\ MemWait
    <3>1. InMem(w, l)' <=> InMem(w, l)
      BY <2>1, <2>4 DEF InMem, MemWait
    <3>2. ~InMem(w, l) => Pushed(prog[w][l])
      BY <1>2, <2>4 DEF OnItsWay, Pushed, DoStore, MemWait
    <3> QED BY <1>1, <1>2, <2>1, <2>2, <2>4, <3>1, <3>2 DEF OnItsWay
  <2>5. CASE ~Writes(ex, w, l) /\ ~MemWait
    <3>1. ~InMem(w, l)' /\ ~Writes(ex', w, l)
      BY <2>1, <2>2, <2>5 DEF InMem
    <3> QED BY <1>1, <1>4, <2>1, <2>5, <3>1 DEF OnItsWay
  <2> QED BY <2>3, <2>4, <2>5
<1>6. CASE Stall(held) \/ Advance(held)
  <2>1. mem' = ex /\ ~sent' /\ ~MemWait
    BY <1>6 DEF Stall, Advance, Frozen
  <2>2. InMem(w, l)' <=> Writes(ex, w, l)
    BY <2>1, NoneWritesNothing DEF InMem, ReqValid
  <2>3. /\ Writes(ex', w, l) => ex'.data[l] = prog'[w][l]
        /\ ~Writes(ex', w, l) => prog'[w][l] = prog[w][l]
    <3>1. CASE ex' = None /\ prog' = prog
      BY <3>1, NoneWritesNothing
    <3>2. CASE EnterLoad
      BY <3>2 DEF EnterLoad, LoadOp, Writes
    <3>3. CASE EnterStore
      <4>1. PICK a \in StoreOps :
              /\ ex' = StoreOp(a[1], a[2], Newer(prog[a[1]], a[2]))
              /\ prog' = [prog EXCEPT ![a[1]] = Merge(@, a[2], Newer(prog[a[1]], a[2]))]
        BY <3>3 DEF EnterStore
      <4>2. /\ ex'.kind = "store" /\ ex'.word = a[1] /\ ex'.strb = a[2]
            /\ ex'.data = Newer(prog[a[1]], a[2])
        BY <4>1 DEF StoreOp
      <4>3. prog'[w] = IF w = a[1] THEN Merge(prog[w], a[2], Newer(prog[w], a[2])) ELSE prog[w]
        BY <4>1 DEF TypeOK
      <4>4. Writes(ex', w, l) <=> w = a[1] /\ l \in a[2]
        BY <4>2 DEF Writes
      <4> QED BY <4>2, <4>3, <4>4 DEF Merge
    <3> QED BY <1>6, <3>1, <3>2, <3>3 DEF Stall, Advance, EnterOther
  <2>4. CASE Writes(ex, w, l)
    <3>1. ex.data[l] = prog[w][l]
      BY <1>2, <2>4 DEF OnItsWay
    <3> QED BY <2>1, <2>2, <2>3, <2>4, <3>1 DEF OnItsWay
  <2>5. CASE ~Writes(ex, w, l)
    <3>1. ~Writes(ex', w, l) => Buffered(w, l, prog[w][l])'
      BY <1>1, <1>4, <2>1, <2>3, <2>5
    <3> QED BY <2>2, <2>3, <2>5, <3>1 DEF OnItsWay
  <2> QED BY <2>4, <2>5
<1> QED BY <1>5, <1>6 DEF Pipeline

LEMMA FencesStep ==
  ASSUME "fence" \notin Windows, RingInv, TypeOK, FenceInv, [Next]_vars
  PROVE  FenceInv'
<1>1. CASE Next
  <2>1. PICK held \in BOOLEAN, alu \in BOOLEAN : Cycle(held, alu)
    BY <1>1 DEF Next
  <2>2. \A w \in Words, l \in Lanes : OnItsWay(w, l)'
    BY <2>1, OnItsWayStep DEF Cycle
  <2>3. (id' = "fence" => ex' = None) /\ (id' = "use" => ex'.kind = "load")
    <3>1. CASE Freeze(held)
      BY <3>1 DEF Freeze, IdWaits, LoadUse, Flush, FenceStall, FenceInv
    <3>2. CASE Stall(held)
      BY <3>2 DEF Stall, IdWaits, LoadUse, Flush, FenceStall, FenceInv
    <3>3. CASE Advance(held)
      BY <3>3 DEF Advance, FollowedBy
    <3> QED BY <2>1, <3>1, <3>2, <3>3 DEF Cycle, Pipeline
  <2>4. loadState' # "dcache" => cur' = None
    BY <2>1 DEF Cycle, LoadFsm, LoadIdle, LoadForwarded, LoadStart, LoadDcache, LoadResult,
                FenceInv, TypeOK
  <2> QED BY <2>2, <2>3, <2>4 DEF FenceInv
<1>2. CASE UNCHANGED vars
  <2>1. /\ id' = id /\ ex' = ex /\ mem' = mem /\ sent' = sent /\ loadState' = loadState /\ cur' = cur
        /\ sb' = sb /\ sbRd' = sbRd /\ memory' = memory /\ prog' = prog
    BY <1>2 DEF vars, pipe, store, fsms
  <2>2. ASSUME NEW w \in Words, NEW l \in Lanes PROVE OnItsWay(w, l)' <=> OnItsWay(w, l)
    <3>1. \A i \in SbSlots : Youngest(i, w, l)' <=> Youngest(i, w, l)
      BY <2>1 DEF Youngest, Age
    <3>2. Buffered(w, l, prog[w][l])' <=> Buffered(w, l, prog[w][l])
      BY <2>1, <3>1 DEF Buffered
    <3> QED BY <2>1, <3>2 DEF OnItsWay, InMem, ReqValid
  <2> QED BY <2>1, <2>2 DEF FenceInv
<1> QED BY <1>1, <1>2

LEMMA FencesImply == RingInv /\ TypeOK /\ FenceInv => FenceOrders
<1> SUFFICES ASSUME RingInv, TypeOK, FenceInv, FenceActive PROVE memory = prog /\ UnderWay = {}
  BY DEF FenceOrders
<1>1. /\ id = "fence" /\ ~ReqValid /\ ex = None
      /\ sbCount = 0 /\ lqCount = 0 /\ loadState = "idle" /\ result = None /\ cur = None
  BY DEF FenceActive, FenceStall, Idle, FenceInv
<1>2. (\A i \in SbSlots : sb[i] = None) /\ (\A i \in LqSlots : lq[i] = None)
  BY <1>1, LsuConstants DEF RingInv, InUse, SbSlots, LqSlots
<1>3. \A w \in Words, l \in Lanes : memory[w][l] = prog[w][l]
  BY <1>1, <1>2, NoneWritesNothing DEF FenceInv, OnItsWay, InMem, Buffered
<1>4. \A w \in Words : memory[w] = prog[w]
  BY <1>3 DEF TypeOK, Values
<1>5. memory = prog
  BY <1>4 DEF TypeOK
<1> QED BY <1>1, <1>2, <1>5 DEF UnderWay

\* In programs without a fence right behind a memory operation (the window
\* "fence"), a fence goes to the cache only when every store before it is in
\* the cache and no load is under way (LSU.v:206, hazard_detection.v:60-130).
THEOREM FencesAreOrdered ==
  ASSUME "fence" \notin Windows
  PROVE  Spec => []FenceOrders
<1>1. RingInv /\ TypeOK /\ FenceInv /\ [Next]_vars => FenceInv'
  BY FencesStep
<1> QED BY <1>1, FencesStart, FencesImply, LsuTypeCorrect, RingsHold, PTL DEF Spec

-----------------------------------------------------------------------------
(***************************************************************************)
(* Loads.  From EX to its answer a load meets no store to its word but the *)
(* older ones, which are in front of it.  Forwarding takes the entry with  *)
(* the highest index, which is the youngest where the entries for a word   *)
(* do not wrap; a load that is not forwarded waits until no store to its   *)
(* word is left.                                                           *)
(***************************************************************************)

StoreTo(op, w) == op.kind = "store" /\ op.word = w
Ordered(w)     == \A i, j \in Matching(w) : Age(i) < Age(j) => i < j
InFront(w)     == ReqValid /\ StoreTo(mem, w)
Unmatched(w)   == \/ Matching(w) = {}
                  \/ /\ w \notin Devices
                     /\ \E l \in Lanes : \A i \in Matching(w) : l \notin sb[i].strb
LoadEx ==
  ex.kind = "load" =>
    /\ ex.expect = prog[ex.word] /\ Ordered(ex.word)
    /\ InFront(ex.word) => \A i \in Matching(ex.word) : i < sbWr
    /\ ex.word \in Devices => Matching(ex.word) = {} /\ ~InFront(ex.word)
LoadMem ==
  ReqValid /\ mem.kind = "load" =>
    /\ mem.expect = prog[mem.word] /\ Ordered(mem.word) /\ ~StoreTo(ex, mem.word)
    /\ mem.word \in Devices => Matching(mem.word) = {}
LoadQueued ==
  \A i \in LqSlots : lq[i] # None =>
    /\ lq[i].op \in Operations /\ lq[i].op.kind = "load"
    /\ lq[i].fwd => lq[i].data = lq[i].op.expect
    /\ ~lq[i].fwd => /\ lq[i].op.expect = prog[lq[i].op.word] /\ Unmatched(lq[i].op.word)
                     /\ ~StoreTo(ex, lq[i].op.word) /\ ~InFront(lq[i].op.word)
LoadAnswer ==
  /\ loadState = "dcache" => cur \in Operations /\ cur.kind = "load" /\ cur.expect = memory[cur.word]
  /\ result # None => result.data = result.op.expect
LoadInv == LoadEx /\ LoadMem /\ LoadQueued /\ LoadAnswer

LEMMA LastElement ==
  ASSUME NEW S, S \subseteq SbSlots, S # {}
  PROVE  \E x \in S : \A y \in S : y <= x
<1>1. SbSlots = 0 .. SbDepth - 1 /\ SbDepth \in Nat \ {0}
  BY LsuConstants DEF SbSlots
<1> DEFINE T == {n \in Nat : SbDepth - n \in S}
           R == {p \in Nat \X Nat : p[1] < p[2]}
<1>2. T \in SUBSET Nat /\ T # {}
  <2>1. PICK x \in S : TRUE
    OBVIOUS
  <2>2. SbDepth - x \in T
    BY <1>1, <2>1
  <2> QED BY <2>2
<1>3. IsWellFoundedOn(R, Nat)
  BY NatLessThanWellFounded DEF OpToRel
<1> HIDE DEF R
<1>4. PICK n \in T : \A m \in T : <<m, n>> \notin R
  BY <1>2, <1>3, WFMin
<1>5. ASSUME NEW y \in S PROVE y <= SbDepth - n
  <2>1. SbDepth - y \in T /\ y \in 0 .. SbDepth - 1 /\ n \in Nat
    BY <1>1
  <2>2. ~(SbDepth - y < n)
    BY <1>4, <2>1 DEF R
  <2> QED BY <1>1, <2>1, <2>2
<1> QED BY <1>4, <1>5

LEMMA LoadsStart == Init => LoadInv
<1> SUFFICES ASSUME Init PROVE LoadInv
  OBVIOUS
<1>1. \A i \in LqSlots : lq[i] = None
  BY DEF Init
<1> QED BY <1>1 DEF Init, None, LoadInv, LoadEx, LoadMem, LoadQueued, LoadAnswer, ReqValid

\* The slot of an entry, and of the next ones.
LEMMA SlotsAre ==
  ASSUME RingInv
  PROVE  /\ Slot(sbCount) = sbWr
         /\ sbCount # SbDepth => Slot(sbCount + 1) = After(sbWr, SbDepth)
         /\ \A i \in SbSlots : sb[i] # None => Age(i) \in 0 .. sbCount - 1 /\ Slot(Age(i)) = i
<1>1. /\ SbDepth \in Nat \ {0} /\ sbRd \in 0 .. SbDepth - 1 /\ sbCount \in 0 .. SbDepth
      /\ SbSlots = 0 .. SbDepth - 1
  BY LsuConstants DEF RingInv, SbSlots
<1>2. Slot(sbCount) = sbWr
  BY DEF RingInv, Slot
<1>3. ASSUME sbCount # SbDepth PROVE Slot(sbCount + 1) = After(sbWr, SbDepth)
  <2>0. sbRd + sbCount \in 0 .. 2 * SbDepth - 1
    BY <1>1
  <2>1. sbWr = Wrapped(sbRd + sbCount, SbDepth) /\ sbWr + 1 \in 0 .. 2 * SbDepth - 1
    <3>1. (sbRd + sbCount) % SbDepth = Wrapped(sbRd + sbCount, SbDepth)
      BY <1>1, <2>0, Wraps1
    <3> QED BY <1>1, <3>1 DEF RingInv, Wrapped
  <2>2. (sbWr + 1) % SbDepth = Wrapped(sbWr + 1, SbDepth)
    BY <1>1, <2>1, Wraps1
  <2>3. sbRd + (sbCount + 1) \in 0 .. 2 * SbDepth - 1
    BY <1>1, <1>3
  <2>4. (sbRd + (sbCount + 1)) % SbDepth = Wrapped(sbRd + (sbCount + 1), SbDepth)
    BY <1>1, <2>3, Wraps1
  <2> QED BY <1>1, <1>3, <2>1, <2>2, <2>4 DEF Slot, After, Wrapped
<1>4. ASSUME NEW i \in SbSlots, sb[i] # None PROVE Age(i) \in 0 .. sbCount - 1 /\ Slot(Age(i)) = i
  <2>1. InUse(i, sbRd, sbCount, SbDepth)
    BY <1>4 DEF RingInv
  <2>2. Age(i) \in 0 .. sbCount - 1
    BY <1>1, <2>1 DEF InUse, Age
  <2>3. sbRd + Age(i) \in 0 .. 2 * SbDepth - 1
    BY <1>1, <2>2
  <2>4. (sbRd + Age(i)) % SbDepth = Wrapped(sbRd + Age(i), SbDepth)
    BY <1>1, <2>3, Wraps1
  <2>5. Wrapped(sbRd + Age(i), SbDepth) = i
    BY <1>1 DEF Wrapped, Age
  <2> QED BY <2>2, <2>4, <2>5 DEF Slot
<1> QED BY <1>2, <1>3, <1>4

\* The stores to a word, in the buffer and behind it, lie in the order of
\* their slots.
LEMMA NoWraps ==
  ASSUME RingInv, NEW w, ~Wraps(w)
  PROVE  /\ Ordered(w)
         /\ InFront(w) => \A i \in Matching(w) : i < sbWr
         /\ StoreTo(ex, w) /\ ~(ReqValid /\ mem.kind = "store") => \A i \in Matching(w) : i < sbWr
         /\ StoreTo(ex, w) /\ ReqValid /\ mem.kind = "store" /\ sbCount # SbDepth =>
              /\ \A i \in Matching(w) : i < After(sbWr, SbDepth)
              /\ InFront(w) => sbWr < After(sbWr, SbDepth)
<1> DEFINE at == PlacesOf(w)
<1>0. /\ SbDepth \in Nat \ {0} /\ sbRd \in 0 .. SbDepth - 1 /\ sbCount \in 0 .. SbDepth
      /\ sbWr \in 0 .. SbDepth - 1 /\ SbSlots = 0 .. SbDepth - 1
  <2>1. /\ SbDepth \in Nat \ {0} /\ sbRd \in 0 .. SbDepth - 1 /\ sbCount \in 0 .. SbDepth
        /\ SbSlots = 0 .. SbDepth - 1
    BY LsuConstants DEF RingInv, SbSlots
  <2>2. sbRd + sbCount \in 0 .. 2 * SbDepth - 1
    BY <2>1
  <2>3. (sbRd + sbCount) % SbDepth = Wrapped(sbRd + sbCount, SbDepth)
    BY <2>1, <2>2, Wraps1
  <2> QED BY <2>1, <2>3 DEF RingInv, Wrapped
<1>1. \A j, k \in at : j < k => ~(Slot(k) <= Slot(j))
  BY DEF Wraps
<1>2. Len(Behind) \in Nat /\ at = {k \in 0 .. sbCount + Len(Behind) - 1 : StoreAt(k).word = w}
  BY DEF Behind, PlacesOf
<1> HIDE DEF at
<1>3. ASSUME NEW i \in Matching(w) PROVE i \in SbSlots /\ Age(i) \in at /\ Age(i) < sbCount /\ Slot(Age(i)) = i
  <2>1. i \in SbSlots /\ sb[i] # None /\ sb[i].word = w
    BY DEF Matching
  <2>2. Age(i) \in 0 .. sbCount - 1 /\ Slot(Age(i)) = i
    BY <2>1, SlotsAre
  <2>3. StoreAt(Age(i)) = sb[i]
    BY <1>0, <2>2 DEF StoreAt
  <2> QED BY <1>0, <1>2, <2>1, <2>2, <2>3
<1>4. Ordered(w)
  <2> SUFFICES ASSUME NEW i \in Matching(w), NEW j \in Matching(w), Age(i) < Age(j) PROVE i < j
    BY DEF Ordered
  <2>1. /\ i \in SbSlots /\ Age(i) \in at /\ Slot(Age(i)) = i
        /\ j \in SbSlots /\ Age(j) \in at /\ Slot(Age(j)) = j
    BY <1>3
  <2>2. ~(j <= i)
    BY <1>1, <2>1
  <2> QED BY <1>0, <2>1, <2>2
<1>5. ASSUME NEW k \in at, sbCount <= k, NEW i \in Matching(w), Slot(k) \in SbSlots PROVE i < Slot(k)
  <2>1. i \in SbSlots /\ Age(i) \in at /\ Age(i) < k /\ Slot(Age(i)) = i
    BY <1>0, <1>2, <1>3, <1>5
  <2>2. ~(Slot(k) <= i)
    BY <1>1, <2>1
  <2> QED BY <1>0, <1>5, <2>1, <2>2
<1>6. ASSUME ReqValid, mem.kind = "store"
      PROVE  /\ mem.word = w => sbCount \in at
             /\ StoreTo(ex, w) => sbCount + 1 \in at
  <2>1. Behind[1] = mem /\ Len(Behind) >= 1
    BY <1>6 DEF Behind
  <2>2. StoreTo(ex, w) => Behind = <<mem, ex>>
    BY <1>6 DEF Behind, StoreTo
  <2>3. StoreAt(sbCount) = mem
    BY <1>0, <2>1 DEF StoreAt
  <2>4. StoreTo(ex, w) => StoreAt(sbCount + 1) = ex /\ Len(Behind) = 2
    BY <1>0, <2>2 DEF StoreAt
  <2>5. sbCount \in 0 .. sbCount + Len(Behind) - 1
    BY <1>0, <1>2, <2>1
  <2>6. mem.word = w => sbCount \in at
    BY <2>3, <2>5, <1>2
  <2>7. ASSUME StoreTo(ex, w) PROVE sbCount + 1 \in at
    <3>1. sbCount + 1 \in 0 .. sbCount + Len(Behind) - 1
      BY <1>0, <2>4, <2>7
    <3> QED BY <2>4, <2>7, <3>1, <1>2 DEF StoreTo
  <2> QED BY <2>6, <2>7
<1>7. ASSUME StoreTo(ex, w), ~(ReqValid /\ mem.kind = "store") PROVE sbCount \in at
  <2>1. Behind = <<ex>>
    BY <1>7 DEF Behind, StoreTo
  <2>2. StoreAt(sbCount) = ex
    BY <1>0, <2>1 DEF StoreAt
  <2>3. sbCount \in 0 .. sbCount + Len(Behind) - 1
    BY <1>0, <2>1
  <2> QED BY <1>7, <2>2, <2>3, <1>2 DEF StoreTo
<1>8. Slot(sbCount) = sbWr /\ (sbCount # SbDepth => Slot(sbCount + 1) = After(sbWr, SbDepth))
  BY SlotsAre
<1>9. InFront(w) => \A i \in Matching(w) : i < sbWr
  BY <1>0, <1>5, <1>6, <1>8 DEF InFront, StoreTo
<1>10. StoreTo(ex, w) /\ ~(ReqValid /\ mem.kind = "store") => \A i \in Matching(w) : i < sbWr
  BY <1>0, <1>5, <1>7, <1>8
<1>11. ASSUME StoreTo(ex, w), ReqValid, mem.kind = "store", sbCount # SbDepth
       PROVE  /\ \A i \in Matching(w) : i < After(sbWr, SbDepth)
              /\ InFront(w) => sbWr < After(sbWr, SbDepth)
  <2>1. Slot(sbCount + 1) = After(sbWr, SbDepth) /\ After(sbWr, SbDepth) \in SbSlots
    BY <1>0, <1>8, <1>11, AfterTyped
  <2>2. sbCount + 1 \in at /\ sbCount <= sbCount + 1 /\ sbCount < sbCount + 1
    BY <1>0, <1>6, <1>11
  <2>3. \A i \in Matching(w) : i < After(sbWr, SbDepth)
    BY <1>5, <2>1, <2>2
  <2>4. ASSUME InFront(w) PROVE sbWr < After(sbWr, SbDepth)
    <3>1. sbCount \in at
      BY <1>6, <1>11, <2>4 DEF InFront, StoreTo
    <3>2. ~(Slot(sbCount + 1) <= Slot(sbCount))
      BY <1>1, <2>2, <3>1
    <3> QED BY <1>0, <1>8, <2>1, <3>2
  <2> QED BY <2>3, <2>4
<1> QED BY <1>4, <1>9, <1>10, <1>11

\* A cycle of the store buffer: the entries for a word are some of those
\* there were, and the one that is pushed.
LEMMA OrderedStep ==
  ASSUME RingInv, TypeOK, StoreBuffer, NEW w
  PROVE  /\ \A i \in Matching(w)' : \/ i \in Matching(w) /\ sb'[i] = sb[i]
                                    \/ i = sbWr /\ DoStore /\ StoreTo(mem, w)
         /\ Ordered(w) /\ (DoStore /\ StoreTo(mem, w) => \A i \in Matching(w) : i < sbWr) => Ordered(w)'
<1>1. /\ \A i \in SbSlots : sb'[i] = IF DrainPop /\ i = sbRd THEN None
                                     ELSE IF DoStore /\ i = sbWr THEN mem ELSE sb[i]
      /\ sbWr \in SbSlots /\ SbSlots = 0 .. SbDepth - 1 /\ SbDepth \in Nat /\ sbCount \in Nat
  BY BufferMoves
<1>2. DoStore => mem.kind = "store" /\ Age(sbWr) = sbCount /\ (DrainPop => sbWr # sbRd)
  <2>1. DoStore => Age(sbWr) = sbCount /\ (DrainPop => sbWr # sbRd)
    BY BufferMoves
  <2> QED BY <2>1 DEF DoStore
<1>3. \A i \in SbSlots : ~(DrainPop /\ i = sbRd) => Age(i)' = IF DrainPop THEN Age(i) - 1 ELSE Age(i)
  BY BufferMoves
<1>4. \A i \in SbSlots : Age(i) \in Nat /\ (sb[i] # None => Age(i) < sbCount)
  BY BufferMoves
<1>5. Matching(w)' = {i \in SbSlots : sb'[i] # None /\ sb'[i].word = w}
  BY DEF Matching, SbSlots
<1> HIDE DEF DoStore, DrainPop
<1>6. ASSUME NEW i \in Matching(w)'
      PROVE  /\ i \in SbSlots /\ ~(DrainPop /\ i = sbRd)
             /\ \/ i \in Matching(w) /\ sb'[i] = sb[i]
                \/ i = sbWr /\ DoStore /\ StoreTo(mem, w)
  BY <1>1, <1>2, <1>5 DEF Matching, StoreTo
<1>7. ASSUME Ordered(w), DoStore /\ StoreTo(mem, w) => \A i \in Matching(w) : i < sbWr
      PROVE  Ordered(w)'
  <2> SUFFICES ASSUME NEW i \in Matching(w)', NEW j \in Matching(w)', Age(i)' < Age(j)' PROVE i < j
    BY DEF Ordered
  <2>1. /\ i \in SbSlots /\ j \in SbSlots /\ Age(i) \in Nat /\ Age(j) \in Nat
        /\ Age(i)' = (IF DrainPop THEN Age(i) - 1 ELSE Age(i))
        /\ Age(j)' = (IF DrainPop THEN Age(j) - 1 ELSE Age(j))
    BY <1>3, <1>4, <1>6
  <2>2. Age(i) < Age(j)
    BY <2>1
  <2>3. \/ i \in Matching(w)
        \/ i = sbWr /\ DoStore /\ StoreTo(mem, w)
    BY <1>6
  <2>4. \/ j \in Matching(w)
        \/ j = sbWr /\ DoStore /\ StoreTo(mem, w)
    BY <1>6
  <2>5. CASE i \in Matching(w) /\ j \in Matching(w)
    BY <1>7, <2>2, <2>5 DEF Ordered
  <2>6. CASE i \in Matching(w) /\ j = sbWr /\ DoStore /\ StoreTo(mem, w)
    BY <1>7, <2>6
  <2>7. CASE j \in Matching(w) /\ i = sbWr /\ DoStore /\ StoreTo(mem, w)
    <3>1. Age(i) = sbCount /\ Age(j) < sbCount
      BY <1>2, <1>4, <2>7 DEF Matching
    <3> QED BY <1>1, <2>1, <2>2, <3>1
  <2>8. CASE i = sbWr /\ j = sbWr
    BY <2>1, <2>2, <2>8
  <2> QED BY <2>3, <2>4, <2>5, <2>6, <2>7, <2>8
<1> QED BY <1>6, <1>7

\* What a load is given from the store buffer is what the program has stored.
LEMMA ForwardsTruth ==
  ASSUME RingInv, TypeOK, FenceInv, NEW w \in Words, Ordered(w), FwdHit(w),
         ~StoreTo(ex, w), ~InFront(w)
  PROVE  FwdData(w) = prog[w]
<1>1. ASSUME NEW l \in Lanes PROVE FwdLane(w, l) = prog[w][l]
  <2> DEFINE S == {i \in Matching(w) : l \in sb[i].strb}
  <2>1. S \subseteq SbSlots /\ S # {}
    BY DEF FwdHit, Matching
  <2>2. \E x \in S : \A y \in S : y <= x
    <3> HIDE DEF S
    <3> QED BY <2>1, LastElement
  <2>3. PICK k \in S : (\A y \in S : y <= k) /\ FwdLane(w, l) = sb[k].data[l]
    <3> DEFINE k == CHOOSE i \in S : \A j \in S : j <= i
    <3>1. k \in S /\ \A j \in S : j <= k
      <4> HIDE DEF S
      <4> QED BY <2>2
    <3> QED BY <3>1 DEF FwdLane
  <2>4. \A i \in SbSlots : Writes(sb[i], w, l) <=> i \in S
    BY DEF Writes, Matching, TypeOK, None
  <2>5. \A i \in S : Age(i) \in Nat
    BY <2>1, LsuConstants DEF Age, RingInv, SbSlots
  <2>6. ASSUME NEW i \in S PROVE Age(i) <= Age(k)
    <3>1. SbSlots \subseteq Nat
      BY DEF SbSlots
    <3>2. i \in Matching(w) /\ k \in Matching(w) /\ i \in Nat /\ k \in Nat
      BY <2>1, <3>1
    <3>3. i <= k
      BY <2>3
    <3>4. ~(Age(k) < Age(i))
      BY <3>2, <3>3 DEF Ordered
    <3> QED BY <2>5, <3>4
  <2>7. Youngest(k, w, l) /\ k \in SbSlots
    BY <2>1, <2>4, <2>6 DEF Youngest
  <2>8. Buffered(w, l, prog[w][l])
    BY DEF FenceInv, OnItsWay, InMem, InFront, Writes, StoreTo
  <2> QED BY <2>3, <2>4, <2>7, <2>8 DEF Buffered
<1>2. prog[w] \in [Lanes -> Versions]
  BY DEF TypeOK, Values
<1> QED BY <1>1, <1>2 DEF FwdData

\* A word no store is on its way to is in the cache as the program has it.
LEMMA NothingOnItsWay ==
  ASSUME TypeOK, FenceInv, NEW w \in Words, Matching(w) = {}, ~StoreTo(ex, w), ~InFront(w)
  PROVE  memory[w] = prog[w]
<1>1. ASSUME NEW l \in Lanes PROVE memory[w][l] = prog[w][l]
  <2>1. Buffered(w, l, prog[w][l])
    BY DEF FenceInv, OnItsWay, InMem, InFront, Writes, StoreTo
  <2>2. \A i \in SbSlots : ~Writes(sb[i], w, l)
    BY NoneWritesNothing DEF Matching, Writes
  <2> QED BY <2>1, <2>2 DEF Buffered
<1> QED BY <1>1 DEF TypeOK, Values

\* What a cycle of the pipeline does to the operations in EX and MEM.
LEMMA PipeMoves ==
  ASSUME NEW held \in BOOLEAN, Pipeline(held)
  PROVE  \/ mem' = mem /\ (ReqValid' <=> MemWait) /\ ex' \in {ex, None} /\ prog' = prog
         \/ ~MemWait /\ mem' = ex /\ ~sent' /\ ex' = None /\ prog' = prog
         \/ ~MemWait /\ mem' = ex /\ ~sent' /\ EnterLoad
         \/ ~MemWait /\ mem' = ex /\ ~sent' /\ EnterStore
<1>1. CASE Freeze(held)
  BY <1>1 DEF Freeze, ReqValid, MemWait
<1>2. CASE Stall(held)
  BY <1>2 DEF Stall, Frozen
<1>3. CASE Advance(held)
  BY <1>3 DEF Advance, Frozen, EnterOther
<1> QED BY <1>1, <1>2, <1>3 DEF Pipeline

\* No store enters EX for a word that a load is on its way to.
LEMMA NotOvertaken ==
  ASSUME "overtake" \notin Windows, TypeOK, NEW held \in BOOLEAN, Pipeline(held), NEW w \in Words,
         Loading(w)
  PROVE  /\ prog'[w] = prog[w]
         /\ StoreTo(ex', w) => StoreTo(ex, w)
         /\ InFront(w)' => StoreTo(ex, w) \/ (InFront(w) /\ MemWait)
<1>1. ~StoreTo(None, w)
  BY DEF StoreTo, None
<1>2. CASE mem' = mem /\ (ReqValid' <=> MemWait) /\ ex' \in {ex, None} /\ prog' = prog
  BY <1>1, <1>2 DEF InFront, StoreTo, MemWait
<1>3. ASSUME mem' = ex PROVE InFront(w)' => StoreTo(ex, w)
  BY <1>3 DEF InFront, StoreTo
<1>4. CASE mem' = ex /\ ex' = None /\ prog' = prog
  BY <1>1, <1>3, <1>4
<1>5. CASE mem' = ex /\ EnterLoad
  <2>1. ~StoreTo(ex', w) /\ prog' = prog
    BY <1>5 DEF EnterLoad, LoadOp, StoreTo
  <2> QED BY <1>3, <1>5, <2>1
<1>6. CASE mem' = ex /\ EnterStore
  <2>1. PICK a \in StoreOps :
          /\ StoreApart(a[1]) /\ ex' = StoreOp(a[1], a[2], Newer(prog[a[1]], a[2]))
          /\ prog' = [prog EXCEPT ![a[1]] = Merge(@, a[2], Newer(prog[a[1]], a[2]))]
    BY <1>6 DEF EnterStore
  <2>2. a[1] # w
    BY <2>1 DEF StoreApart
  <2>3. prog'[w] = prog[w]
    BY <2>1, <2>2 DEF TypeOK
  <2>4. ~StoreTo(ex', w)
    BY <2>1, <2>2 DEF StoreTo, StoreOp
  <2> QED BY <1>3, <1>6, <2>3, <2>4
<1> QED BY PipeMoves, <1>2, <1>4, <1>5, <1>6

\* A load that enters EX.
LEMMA EntersApart ==
  ASSUME "forward" \notin Windows, "device" \notin Windows, RingInv, TypeOK,
         StoreBuffer, EnterLoad, ~MemWait, mem' = ex, ~sent'
  PROVE  LoadEx'
<1>1. PICK a \in LoadOps : /\ LoadApart(a[1], a[2])
                           /\ ex' = LoadOp(a[1], a[2], prog[a[1]]) /\ prog' = prog
  BY DEF EnterLoad
<1> DEFINE w == a[1]
<1>2. ~Wraps(w) /\ (w \in Devices => ~Storing(w))
  BY <1>1 DEF LoadApart
<1>3. ex'.word = w /\ ex'.expect = prog'[w]
  BY <1>1 DEF LoadOp
<1> HIDE DEF w
<1>4. InFront(w)' => StoreTo(ex, w)
  BY DEF InFront, StoreTo
<1>5. Ordered(w) /\ (InFront(w) => \A i \in Matching(w) : i < sbWr)
  BY <1>2, NoWraps
<1>6. ReqValid /\ mem.kind = "store" => DoStore /\ sbCount # SbDepth
  BY DEF MemWait, DoStore, ReqReady
<1>7. DoStore => ReqValid /\ mem.kind = "store"
  BY DEF DoStore
<1>8. /\ \A i \in Matching(w)' : i \in Matching(w) \/ (i = sbWr /\ DoStore /\ InFront(w))
      /\ Ordered(w)'
  BY <1>5, <1>7, OrderedStep DEF InFront
<1>9. sbWr' = IF DoStore THEN After(sbWr, SbDepth) ELSE sbWr
  BY DEF StoreBuffer
<1>10. ASSUME StoreTo(ex, w) PROVE \A i \in Matching(w)' : i < sbWr'
  <2>1. CASE DoStore
    <3>1. /\ \A i \in Matching(w) : i < After(sbWr, SbDepth)
          /\ InFront(w) => sbWr < After(sbWr, SbDepth)
      BY <1>2, <1>6, <1>7, <1>10, <2>1, NoWraps
    <3> QED BY <1>8, <1>9, <2>1, <3>1
  <2>2. CASE ~DoStore
    <3>1. \A i \in Matching(w) : i < sbWr
      BY <1>2, <1>6, <1>10, <2>2, NoWraps
    <3> QED BY <1>8, <1>9, <2>2, <3>1
  <2> QED BY <2>1, <2>2
<1>11. w \in Devices => Matching(w) = {} /\ ~InFront(w) /\ ~StoreTo(ex, w)
  BY <1>2 DEF Storing, InPipe, InFront, StoreTo
<1>12. w \in Devices => Matching(w)' = {} /\ ~InFront(w)'
  BY <1>4, <1>8, <1>11
<1>13. InFront(w)' => \A i \in Matching(w)' : i < sbWr'
  BY <1>4, <1>10
<1>14. LoadEx' <=> (ex'.kind = "load" =>
                      /\ ex'.expect = prog'[w] /\ Ordered(w)'
                      /\ InFront(w)' => \A i \in Matching(w)' : i < sbWr'
                      /\ w \in Devices => Matching(w)' = {} /\ ~InFront(w)')
  BY <1>3 DEF LoadEx, Ordered, InFront, Matching, Age, StoreTo
<1> QED BY <1>3, <1>8, <1>12, <1>13, <1>14

LEMMA LoadExStep ==
  ASSUME "forward" \notin Windows, "device" \notin Windows, RingInv, TypeOK, LoadEx,
         NEW held \in BOOLEAN, Pipeline(held), StoreBuffer
  PROVE  LoadEx'
<1>1. CASE mem' = mem /\ (ReqValid' <=> MemWait) /\ ex' \in {ex, None} /\ prog' = prog
  <2> SUFFICES ASSUME ex'.kind = "load" PROVE LoadEx'
    BY DEF LoadEx
  <2>1. ex' = ex
    BY <1>1 DEF None
  <2> DEFINE w == ex.word
  <2>2. /\ ex.kind = "load" /\ ex.expect = prog[w] /\ Ordered(w)
        /\ InFront(w) => \A i \in Matching(w) : i < sbWr
        /\ w \in Devices => Matching(w) = {} /\ ~InFront(w)
    BY <2>1 DEF LoadEx
  <2>3. /\ \A i \in Matching(w)' : i \in Matching(w) \/ (i = sbWr /\ DoStore /\ InFront(w))
        /\ Ordered(w)'
    BY <2>1, <2>2, OrderedStep DEF InFront, DoStore
  <2>4. InFront(w)' => InFront(w) /\ ~DoStore
    BY <1>1, <2>1 DEF InFront, StoreTo, MemWait, DoStore
  <2>5. InFront(w)' => \A i \in Matching(w)' : i < sbWr'
    BY <2>2, <2>3, <2>4 DEF StoreBuffer
  <2> QED BY <1>1, <2>1, <2>2, <2>3, <2>4, <2>5 DEF LoadEx
<1>2. CASE ex' = None
  BY <1>2 DEF LoadEx, None
<1>3. CASE EnterStore
  BY <1>3 DEF EnterStore, StoreOp, LoadEx
<1> QED BY <1>1, <1>2, <1>3, PipeMoves, EntersApart

LEMMA LoadMemStep ==
  ASSUME "overtake" \notin Windows, RingInv, TypeOK, LoadEx, LoadMem,
         NEW held \in BOOLEAN, Pipeline(held), StoreBuffer
  PROVE  LoadMem'
<1> SUFFICES ASSUME ReqValid', mem'.kind = "load" PROVE LoadMem'
  BY DEF LoadMem
<1>1. CASE mem' = mem /\ (ReqValid' <=> MemWait) /\ ex' \in {ex, None} /\ prog' = prog
  <2> DEFINE w == mem.word
  <2>1. /\ mem.expect = prog[w] /\ Ordered(w) /\ ~StoreTo(ex, w)
        /\ w \in Devices => Matching(w) = {}
    BY <1>1 DEF LoadMem, MemWait
  <2>2. \A i \in Matching(w)' : i \in Matching(w)
    BY <1>1, OrderedStep DEF DoStore
  <2>3. Ordered(w)'
    BY <1>1, <2>1, OrderedStep DEF DoStore
  <2>4. ~StoreTo(ex', w)
    BY <1>1, <2>1 DEF StoreTo, None
  <2> QED BY <1>1, <2>1, <2>2, <2>3, <2>4 DEF LoadMem
<1>2. CASE ~MemWait /\ mem' = ex /\ ~sent'
  <2>0. PICK w : w = ex.word
    OBVIOUS
  <2>1. /\ ex.kind = "load" /\ ex.expect = prog[w] /\ Ordered(w)
        /\ InFront(w) => \A i \in Matching(w) : i < sbWr
        /\ w \in Devices => Matching(w) = {} /\ ~InFront(w)
    BY <1>2, <2>0 DEF LoadEx
  <2>2. w \in Words /\ Loading(w)
    BY <2>0, <2>1, OperationsTyped DEF TypeOK, None, Loading, InPipe
  <2>3. prog'[w] = prog[w] /\ ~StoreTo(ex', w)
    BY <2>1, <2>2, NotOvertaken DEF StoreTo
  <2>4. /\ \A i \in Matching(w)' : i \in Matching(w) \/ (i = sbWr /\ DoStore /\ InFront(w))
        /\ Ordered(w)'
    BY <2>1, OrderedStep DEF InFront, DoStore
  <2>5. mem'.word = w /\ mem'.expect = prog'[w]
    BY <1>2, <2>0, <2>1, <2>3
  <2>6. w \in Devices => Matching(w)' = {}
    BY <2>1, <2>4
  <2>7. LoadMem' <=> (ReqValid' /\ mem'.kind = "load" =>
                        /\ mem'.expect = prog'[w] /\ Ordered(w)' /\ ~StoreTo(ex', w)
                        /\ w \in Devices => Matching(w)' = {})
    BY <2>5 DEF LoadMem, Ordered, Matching, Age
  <2> QED BY <2>3, <2>4, <2>5, <2>6, <2>7
<1> QED BY PipeMoves, <1>1, <1>2

\* While a load waits that no entry matches in some lane, none comes to.
LEMMA StaysUnmatched ==
  ASSUME RingInv, TypeOK, StoreBuffer, NEW w, Unmatched(w), ~(DoStore /\ StoreTo(mem, w))
  PROVE  Unmatched(w)'
<1>1. \A i \in Matching(w)' : i \in Matching(w) /\ sb'[i] = sb[i]
  BY OrderedStep
<1> QED BY <1>1 DEF Unmatched

LEMMA LoadQueuedStep ==
  ASSUME "overtake" \notin Windows, RingInv, TypeOK, FenceInv, LoadMem, LoadQueued,
         NEW held \in BOOLEAN, Pipeline(held), StoreBuffer, LoadQueue
  PROVE  LoadQueued'
<1> DEFINE Entered(e) == /\ e.op \in Operations /\ e.op.kind = "load"
                         /\ e.fwd => e.data = e.op.expect
           Waits(op)  == /\ op.expect = prog[op.word] /\ Unmatched(op.word)
                         /\ ~StoreTo(ex, op.word) /\ ~InFront(op.word)
<1> SUFFICES ASSUME NEW i \in LqSlots, NEW e, e = lq'[i], e # None
             PROVE  Entered(e) /\ (~e.fwd => Waits(e.op)')
  <2>1. ASSUME NEW i \in LqSlots, lq'[i] # None
        PROVE  /\ lq'[i].op \in Operations /\ lq'[i].op.kind = "load"
               /\ lq'[i].fwd => lq'[i].data = lq'[i].op.expect
               /\ ~lq'[i].fwd => /\ lq'[i].op.expect = prog'[lq'[i].op.word]
                                 /\ Unmatched(lq[i].op.word)'
                                 /\ ~StoreTo(ex', lq'[i].op.word) /\ ~InFront(lq[i].op.word)'
    <3>1. PICK e : e = lq'[i]
      OBVIOUS
    <3>2. Entered(e) /\ (~e.fwd => Waits(e.op)')
      BY <2>1, <3>1
    <3>3. /\ Unmatched(e.op.word)' <=> Unmatched(lq[i].op.word)'
          /\ InFront(e.op.word)' <=> InFront(lq[i].op.word)'
      BY <3>1 DEF Unmatched, Matching, InFront, StoreTo
    <3> QED BY <3>1, <3>2, <3>3
  <2> QED BY <2>1 DEF LoadQueued, LqSlots
<1>1. ASSUME NEW op \in Operations, op.kind = "load", Loading(op.word), Waits(op) PROVE Waits(op)'
  <2>1. op.word \in Words
    BY <1>1, OperationsTyped
  <2>2. prog'[op.word] = prog[op.word] /\ ~StoreTo(ex', op.word) /\ ~InFront(op.word)'
    BY <1>1, <2>1, NotOvertaken
  <2>3. Unmatched(op.word)'
    BY <1>1, StaysUnmatched DEF DoStore, InFront
  <2> QED BY <1>1, <2>2, <2>3
<1>2. CASE e = lq[i]
  <2>1. Entered(e) /\ (~e.fwd => Waits(e.op))
    BY <1>2 DEF LoadQueued
  <2>2. ~e.fwd => Loading(e.op.word)
    BY <1>2 DEF Loading
  <2> QED BY <1>1, <2>1, <2>2
<1>3. CASE DoLoad /\ e = NewEntry
  <2>0. PICK op, w : op = mem /\ w = op.word
    OBVIOUS
  <2>1. /\ op.expect = prog[w] /\ Ordered(w) /\ ~StoreTo(ex, w)
        /\ w \in Devices => Matching(w) = {}
    BY <1>3, <2>0 DEF LoadMem, DoLoad
  <2>2. op \in Operations /\ op.kind = "load" /\ w \in Words /\ Loading(w) /\ ~InFront(w)
    BY <1>3, <2>0, OperationsTyped DEF DoLoad, ReqValid, TypeOK, Loading, InPipe, InFront, StoreTo
  <2>3. e.op = op /\ e.fwd = FwdHit(w) /\ e.data = IF FwdHit(w) THEN FwdData(w) ELSE Zero
    BY <1>3, <2>0 DEF NewEntry, Entry
  <2>4. CASE FwdHit(w)
    BY <2>1, <2>2, <2>3, <2>4, ForwardsTruth
  <2>5. CASE ~FwdHit(w)
    <3>1. Unmatched(w)
      BY <2>1, <2>5 DEF FwdHit, Unmatched
    <3>2. Waits(op)'
      BY <1>1, <2>0, <2>1, <2>2, <3>1
    <3> QED BY <2>2, <2>3, <2>5, <3>2
  <2> QED BY <2>4, <2>5
<1>4. e = lq[i] \/ (DoLoad /\ e = NewEntry)
  BY DEF LoadQueue
<1> QED BY <1>2, <1>3, <1>4

\* A load reads the cache when no store to its word is left.
LEMMA LoadAnswerStep ==
  ASSUME RingInv, TypeOK, FenceInv, LoadQueued, LoadAnswer, NEW ack \in BOOLEAN, LoadFsm(ack), Cache
  PROVE  LoadAnswer'
<1>1. UsesCache \/ ~drain => memory' = memory
  BY DEF Cache, DrainPop
<1>2. Dequeue => Oldest # None /\ lqRd \in LqSlots /\ ~drain
  BY LsuConstants DEF Dequeue, Oldest, RingInv, InUse, LqSlots
<1>3. CASE LoadIdle
  BY <1>3 DEF LoadIdle, LoadAnswer
<1>4. CASE LoadForwarded
  <2>1. result'.op = Oldest.op /\ result'.data = Oldest.data /\ loadState' = "result"
    BY <1>4 DEF LoadForwarded, Answer
  <2>2. Oldest.data = Oldest.op.expect
    BY <1>2, <1>4 DEF LoadForwarded, LoadQueued, Oldest
  <2> QED BY <2>1, <2>2 DEF LoadAnswer
<1>5. CASE LoadStart
  <2> DEFINE w == Oldest.op.word
  <2>1. /\ Oldest.op \in Operations /\ Oldest.op.kind = "load" /\ Oldest.op.expect = prog[w]
        /\ Unmatched(w) /\ ~StoreTo(ex, w) /\ ~InFront(w)
    BY <1>2, <1>5 DEF LoadStart, LoadQueued, Oldest
  <2>2. \A k \in Matching(w) : sb[k].strb = Lanes
    BY <1>5 DEF LoadStart, Dequeue, Conflict
  <2>3. Matching(w) = {}
    BY <2>1, <2>2 DEF Unmatched
  <2>4. memory[w] = prog[w]
    BY <2>1, <2>3, NothingOnItsWay, OperationsTyped
  <2>5. cur' = Oldest.op /\ memory' = memory /\ result' = result
    BY <1>1, <1>2, <1>5 DEF LoadStart
  <2> QED BY <2>1, <2>4, <2>5 DEF LoadAnswer
<1>6. CASE LoadDcache
  <2>1. memory' = memory /\ cur.expect = memory[cur.word]
    BY <1>1, <1>6 DEF LoadDcache, UsesCache, LoadAnswer
  <2>2. CASE ready
    <3>1. loadState' = "result" /\ result'.op = cur /\ result'.data = memory[cur.word]
      BY <1>6, <2>2 DEF LoadDcache, Answer
    <3> QED BY <2>1, <3>1 DEF LoadAnswer
  <2>3. CASE ~ready
    BY <1>6, <2>1, <2>3 DEF LoadDcache, LoadAnswer
  <2> QED BY <2>2, <2>3
<1>7. CASE LoadResult(ack)
  BY <1>7 DEF LoadResult, LoadAnswer
<1> QED BY <1>3, <1>4, <1>5, <1>6, <1>7 DEF LoadFsm

LEMMA LoadsStep ==
  ASSUME {"forward", "overtake", "device"} \cap Windows = {},
         RingInv, TypeOK, FenceInv, LoadInv, [Next]_vars
  PROVE  LoadInv'
<1>1. CASE Next
  <2>1. PICK held \in BOOLEAN, alu \in BOOLEAN : Cycle(held, alu)
    BY <1>1 DEF Next
  <2>2. PICK ack \in BOOLEAN : LoadFsm(ack)
    BY <2>1 DEF Cycle
  <2>3. Pipeline(held) /\ StoreBuffer /\ LoadQueue /\ Cache
    BY <2>1 DEF Cycle
  <2>4. "forward" \notin Windows /\ "overtake" \notin Windows /\ "device" \notin Windows
    OBVIOUS
  <2>5. LoadEx' /\ LoadMem'
    BY <2>3, <2>4, LoadExStep, LoadMemStep DEF LoadInv
  <2>6. LoadQueued'
    BY <2>3, <2>4, LoadQueuedStep DEF LoadInv
  <2>7. LoadAnswer'
    BY <2>2, <2>3, LoadAnswerStep DEF LoadInv
  <2> QED BY <2>5, <2>6, <2>7 DEF LoadInv
<1>2. CASE UNCHANGED vars
  BY <1>2 DEF vars, pipe, store, load, fsms, LoadInv, LoadEx, LoadMem, LoadQueued, LoadAnswer, ReqValid,
              InFront, StoreTo, Unmatched, Ordered, Matching, Age
<1> QED BY <1>1, <1>2

\* In programs without the hazards that Windows names "forward", "overtake",
\* "device" and "fence", a load returns what the stores before it in the program
\* left in its word, whether forwarded, queued or read from the cache
\* (LSU.v:115-160, 205-330).
THEOREM LoadsAreOrdered ==
  ASSUME {"forward", "overtake", "device", "fence"} \cap Windows = {}
  PROVE  Spec => []LoadsSeeProgramOrder
<1>1. RingInv /\ TypeOK /\ FenceInv /\ [Next]_vars => FenceInv'
  BY FencesStep
<1>2. RingInv /\ TypeOK /\ FenceInv /\ LoadInv /\ [Next]_vars => LoadInv'
  BY LoadsStep
<1>3. LoadInv => LoadsSeeProgramOrder
  BY DEF LoadInv, LoadAnswer, LoadsSeeProgramOrder
<1> QED BY <1>1, <1>2, <1>3, FencesStart, LoadsStart, LsuTypeCorrect, RingsHold, PTL DEF Spec
=============================================================================
