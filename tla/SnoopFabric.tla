---------------------------- MODULE SnoopFabric ----------------------------
(***************************************************************************)
(* The snoop fabric of soc_top.v (lines 1405-1467): the arbiter            *)
(* dcache_snoop_arb_3to1 in front of dcache_snoop_bus_2way, and behind the *)
(* arbiter's third port the dma_snoop_arb of the ASCON DMA.                *)
(*                                                                         *)
(* Four clients ask for snoops: the miss paths of the two data caches and  *)
(* the read and write engines of the DMA.  One request at a time is        *)
(* broadcast to both data caches, their answers are combined, and the      *)
(* combined answer goes back through the arbiters to the client that asked.*)
(*                                                                         *)
(* The hardware is synchronous: one step is one rising edge of clk_core.   *)
(* Every register takes its next value from the current values of all the  *)
(* registers and of the inputs of the cycle, so a step is the conjunction  *)
(* of one action per block.  Wires are operators without a prime.          *)
(***************************************************************************)
EXTENDS Naturals

CONSTANTS
  Lines,     \* cache line addresses
  LinesOf,   \* the lines each client may ask for
  Data,      \* the values a line may hold
  Miss       \* the answer "no hit"

Caches  == {0, 1}
Cpus    == {"cpu0", "cpu1"}
Engines == {"rd", "wr"}
Clients == Cpus \cup Engines
Ports   == {0, 1, 2}
Answers == Data \cup {Miss}

ASSUME LinesOfClients == LinesOf \in [Clients -> SUBSET Lines]
Phases  == {"idle", "req", "wait"}
NoLine  == "no line"         \* the line of a client that makes no request
NoReply == "no reply"        \* the value of a response while its valid is low
NoDelivery == [to |-> "nobody", answer |-> Miss]

ASSUME MarkersAreNoValues == Miss \notin Data /\ NoReply \notin Answers /\ NoLine \notin Lines

VARIABLES
  cpu0, cpu1,    \* the miss path of each data cache
  rd, wr,        \* the snoop side of the DMA read and write engines
  dmaWait, dmaOwner, dmaLast,     \* dma_snoop_arb: wait_resp, owner_wr, last_grant_wr
  arbWait, arbOwner, arbLast,     \* dcache_snoop_arb_3to1: wait_resp_r, owner_r, last_grant_r
  busState, busLine,              \* dcache_snoop_bus_2way: state, snoop_addr_r
  sent, waiting, latched,         \* dcN_sent_r, dcN_wait_resp_r, dcN_hit_r with dcN_data_r
  upResp,                         \* up_snoop_resp_valid with _hit and _data
  cacheBusy, cacheResp,           \* the snoop side of each data cache
  served, replies, delivered      \* history variables, see History

clientVars == <<cpu0, cpu1, rd, wr>>
dmaVars    == <<dmaWait, dmaOwner, dmaLast>>
arbVars    == <<arbWait, arbOwner, arbLast>>
busVars    == <<busState, busLine, sent, waiting, latched, upResp>>
cacheVars  == <<cacheBusy, cacheResp>>
history    == <<served, replies, delivered>>
vars == <<clientVars, dmaVars, arbVars, busVars, cacheVars, history>>


(***************************************************************************)
(* Wires.                                                                  *)
(***************************************************************************)
Client(c) == CASE c = "cpu0" -> cpu0 [] c = "cpu1" -> cpu1
               [] c = "rd" -> rd     [] c = "wr" -> wr

\* dma_snoop_arb: the two engines take turns, the other than the last first.
PickRd == rd.valid /\ (~wr.valid \/ dmaLast = "wr")
PickWr == wr.valid /\ (~rd.valid \/ dmaLast = "rd")
DmaClient   == IF PickRd THEN "rd" ELSE "wr"
DmaReqValid == ~dmaWait /\ (PickRd \/ PickWr)

PortValid(p) == CASE p = 0 -> cpu0.valid [] p = 1 -> cpu1.valid [] p = 2 -> DmaReqValid
PortClient(p) == CASE p = 0 -> "cpu0" [] p = 1 -> "cpu1" [] p = 2 -> DmaClient

\* dcache_snoop_arb_3to1: round robin, the port after the last one first.
After(p) == IF p = 2 THEN 0 ELSE p + 1
DmaFirst == IF PortValid(2) THEN 2 ELSE IF PortValid(1) THEN 1 ELSE 0   \* mutant: fixed priority
GrantOwner == IF PortValid(After(arbLast)) THEN After(arbLast)
              ELSE IF PortValid(After(After(arbLast))) THEN After(After(arbLast))
              ELSE arbLast
ReqValid == ~arbWait /\ \E p \in Ports : PortValid(p)
ReqReady == busState = "idle"
Granted  == PortClient(GrantOwner)
ReqLineOfLast == Client(PortClient(arbLast)).line    \* mutant: up_addr follows the last grant
ReqLine  == Client(Granted).line
Grant    == ReqValid /\ ReqReady

ReadyToAll(c) == Grant /\ Client(c).valid     \* mutant: ready without the grant
Ready(c)     == Grant /\ Granted = c
UpRespValid  == upResp # NoReply
DmaResp      == arbWait /\ arbOwner = 2 /\ UpRespValid
RespValid(c) == CASE c = "cpu0" -> arbWait /\ arbOwner = 0 /\ UpRespValid
                  [] c = "cpu1" -> arbWait /\ arbOwner = 1 /\ UpRespValid
                  [] c \in Engines -> dmaWait /\ dmaOwner = c /\ DmaResp

CacheRespValid(k) == cacheResp[k] # NoReply
CacheReqValid(k) == busState = "req" /\ ~sent[k]
\* A data cache takes a snoop when its controller lets it (snoop_safe_to_accept)
\* and its snoop unit is idle.
CacheReady(k, safe) == k \in safe /\ ~cacheBusy[k]
Accepts(k, safe) == CacheReqValid(k) /\ CacheReady(k, safe)

(***************************************************************************)
(* The clients.  m is one of the variables cpu0, cpu1, rd, wr.  A request  *)
(* is a registered wire: it is raised the cycle after the client enters    *)
(* "req" and still stands in the first cycle of "wait".                    *)
(***************************************************************************)
Quiet == [phase |-> "idle", valid |-> FALSE, line |-> NoLine]
Start(m, l, v) == m' = [phase |-> "req", valid |-> v, line |-> l]
Become(m, p, v) == m' = [phase |-> p, valid |-> v, line |-> m.line]
Await(m, resp)  == m' = IF resp THEN Quiet ELSE [phase |-> "wait", valid |-> FALSE, line |-> m.line]

\* The miss path of a data cache: state PEER_SNOOP of dcache_controller.
CpuIdle(m) == m.phase = "idle" /\ UNCHANGED m
CpuMiss(m, c) == m.phase = "idle" /\ \E l \in LinesOf[c] : Start(m, l, FALSE)
CpuRequest(m, ready) ==
  m.phase = "req" /\ Become(m, IF ready THEN "wait" ELSE "req", TRUE)
CpuWait(m, resp) == m.phase = "wait" /\ Await(m, resp)
CpuCycle(m, c) == \/ CpuIdle(m) \/ CpuMiss(m, c)
                  \/ CpuRequest(m, Ready(c)) \/ CpuWait(m, RespValid(c))

\* The read engine: states RD_SNP_REQ and RD_SNP_WAIT; "idle" is every other
\* state.  It raises no request while its FIFO is full, even when the one it
\* raised is being granted, and a hit that finds the FIFO full is dropped.
\* RD_SNP_PUSH enters RD_SNP_REQ with the request already raised.
RdIdle == rd.phase = "idle" /\ UNCHANGED rd
RdLine == rd.phase = "idle" /\ \E l \in LinesOf["rd"], v \in BOOLEAN : Start(rd, l, v)
RdRequest(full) ==
  rd.phase = "req" /\ Become(rd, IF Ready("rd") /\ ~full THEN "wait" ELSE "req", ~full)
RdTakes(full) == RespValid("rd") /\ ~(full /\ upResp # Miss)
RdWait(full) == rd.phase = "wait" /\ Await(rd, RdTakes(full))
RdCycle(full) == RdIdle \/ RdLine \/ RdRequest(full) \/ RdWait(full)

\* The write engine: states WR_SNP_REQ and WR_SNP_WAIT.  dma_start takes it
\* to WR_IDLE from any state.
WrRestart == wr' = Quiet
WrIdle == wr.phase = "idle" /\ UNCHANGED wr
WrLine == wr.phase = "idle" /\ \E l \in LinesOf["wr"] : Start(wr, l, FALSE)
WrRequest == wr.phase = "req" /\ Become(wr, IF Ready("wr") THEN "wait" ELSE "req", TRUE)
WrWait == wr.phase = "wait" /\ Await(wr, RespValid("wr"))
WrCycle(start) == IF start THEN WrRestart ELSE WrIdle \/ WrLine \/ WrRequest \/ WrWait

(***************************************************************************)
(* dma_snoop_arb.  The soft reset of the DMA resets this arbiter but       *)
(* neither engine.                                                         *)
(***************************************************************************)
DmaSoftReset == dmaWait' = FALSE /\ dmaOwner' = "rd" /\ dmaLast' = "wr"
DmaGrant == /\ DmaReqValid /\ Grant /\ GrantOwner = 2
            /\ dmaWait' = TRUE /\ dmaOwner' = DmaClient /\ dmaLast' = DmaClient
DmaRespond == /\ dmaWait /\ DmaResp
              /\ dmaWait' = FALSE /\ UNCHANGED <<dmaOwner, dmaLast>>
DmaHold == /\ ~(DmaReqValid /\ Grant /\ GrantOwner = 2) /\ ~(dmaWait /\ DmaResp)
           /\ UNCHANGED dmaVars
DmaArbCycle(softRst) == IF softRst THEN DmaSoftReset ELSE DmaGrant \/ DmaRespond \/ DmaHold

(***************************************************************************)
(* dcache_snoop_arb_3to1.                                                  *)
(***************************************************************************)
ArbGrant == Grant /\ arbWait' = TRUE /\ arbOwner' = GrantOwner /\ arbLast' = GrantOwner
ArbRespond == arbWait /\ UpRespValid /\ arbWait' = FALSE /\ UNCHANGED <<arbOwner, arbLast>>
ArbHold == ~Grant /\ ~(arbWait /\ UpRespValid) /\ UNCHANGED arbVars
ArbCycle == ArbGrant \/ ArbRespond \/ ArbHold

(***************************************************************************)
(* dcache_snoop_bus_2way.                                                  *)
(***************************************************************************)
BusIdle == /\ busState = "idle" /\ ~ReqValid
           /\ upResp' = NoReply
           /\ UNCHANGED <<busState, busLine, sent, waiting, latched>>

BusTake == /\ busState = "idle" /\ ReqValid
           /\ busState' = "req"
           /\ busLine' = ReqLine
           /\ sent' = [k \in Caches |-> FALSE]
           /\ waiting' = [k \in Caches |-> FALSE]
           /\ latched' = [k \in Caches |-> Miss]
           /\ upResp' = NoReply

Answered(k) == waiting[k] /\ CacheRespValid(k)
LatchAlways == latched' = cacheResp    \* mutant: latches without a valid response
LatchAnswers == latched' = [k \in Caches |-> IF Answered(k) THEN cacheResp[k] ELSE latched[k]]

BusSend(safe) ==
  /\ busState = "req"
  /\ LatchAnswers
  /\ sent' = [k \in Caches |-> sent[k] \/ CacheReady(k, safe)]
  /\ waiting' = [k \in Caches |-> Accepts(k, safe) \/ (waiting[k] /\ ~Answered(k))]
  /\ busState' = IF \A k \in Caches : sent[k] \/ CacheReady(k, safe) THEN "resp" ELSE "req"
  /\ upResp' = NoReply /\ UNCHANGED busLine

BusAnyAnswer == \E k \in Caches : waiting[k] => CacheRespValid(k)   \* mutant: one answer is enough
BusComplete == \A k \in Caches : waiting[k] => CacheRespValid(k)
CurrentLatched(k) == latched[k]   \* mutant: a response of this very cycle is overlooked
Current(k)  == IF waiting[k] THEN cacheResp[k] ELSE latched[k]
Merge(a)    == IF a[0] # Miss THEN a[0] ELSE a[1]

BusCollect == /\ busState = "resp" /\ ~BusComplete
              /\ LatchAnswers
              /\ waiting' = [k \in Caches |-> waiting[k] /\ ~Answered(k)]
              /\ upResp' = NoReply /\ UNCHANGED <<busState, busLine, sent>>

BusDeliver == /\ busState = "resp" /\ BusComplete
              /\ LatchAnswers
              /\ waiting' = [k \in Caches |-> FALSE]
              /\ busState' = "idle"
              /\ upResp' = Merge([k \in Caches |-> Current(k)])
              /\ UNCHANGED <<busLine, sent>>

BusCycle(safe) == BusIdle \/ BusTake \/ BusSend(safe) \/ BusCollect \/ BusDeliver

(***************************************************************************)
(* The data caches, seen from the bus: dcache_snoop_ctrl answers a snoop   *)
(* it took after LOOKUP, CAPTURE and perhaps EVICT, with a one-cycle pulse *)
(* that leaves it idle.  The answer is any.                                *)
(***************************************************************************)
CacheCycle(safe, finish) ==
  /\ cacheBusy' = [k \in Caches |-> Accepts(k, safe) \/ (cacheBusy[k] /\ k \notin finish)]
  /\ \E answer \in [finish -> Answers] :
       cacheResp' = [k \in Caches |-> IF k \in finish THEN answer[k] ELSE NoReply]

(***************************************************************************)
(* History: the client whose request the bus took last, what each cache    *)
(* answered since, and the answer a client consumed in the last cycle.     *)
(***************************************************************************)
Takes(c, full, start) ==
  /\ RespValid(c) /\ Client(c).phase = "wait"
  /\ c = "rd" => RdTakes(full)
  /\ c = "wr" => ~start
NoReplies == [k \in Caches |-> NoReply]
History(full, start) ==
  /\ served' = IF Grant THEN Granted ELSE served
  /\ replies' = IF Grant THEN NoReplies
                ELSE [k \in Caches |-> IF CacheRespValid(k) THEN cacheResp[k] ELSE replies[k]]
  /\ delivered' = IF \E c \in Clients : Takes(c, full, start)
                  THEN [to |-> CHOOSE c \in Clients : Takes(c, full, start), answer |-> upResp]
                  ELSE NoDelivery

(***************************************************************************)
(* Reset values (rst_n), and the cycle.  The inputs of a cycle: the caches *)
(* that may take a snoop, the caches that finish one, the FIFO of the read *)
(* engine being full, and the two register bits software writes.           *)
(***************************************************************************)
Init == /\ cpu0 = Quiet /\ cpu1 = Quiet /\ rd = Quiet /\ wr = Quiet
        /\ dmaWait = FALSE /\ dmaOwner = "rd" /\ dmaLast = "wr"
        /\ arbWait = FALSE /\ arbOwner = 0 /\ arbLast = 2
        /\ busState = "idle" /\ busLine \in Lines
        /\ sent = [k \in Caches |-> FALSE]
        /\ waiting = [k \in Caches |-> FALSE]
        /\ latched = [k \in Caches |-> Miss]
        /\ upResp = NoReply
        /\ cacheBusy = [k \in Caches |-> FALSE]
        /\ cacheResp = [k \in Caches |-> NoReply]
        /\ served = "cpu0" /\ replies = NoReplies /\ delivered = NoDelivery

Cycle(safe, finish, full, softRst, start) ==
  /\ CpuCycle(cpu0, "cpu0")
  /\ CpuCycle(cpu1, "cpu1")
  /\ RdCycle(full)
  /\ WrCycle(start)
  /\ DmaArbCycle(softRst)
  /\ ArbCycle
  /\ BusCycle(safe)
  /\ CacheCycle(safe, finish)
  /\ History(full, start)

\* An input no register looks at in this cycle is not enumerated.
Asked == {k \in Caches : CacheReqValid(k)}
Busy  == {k \in Caches : cacheBusy[k]}
Unless(p) == IF p THEN {FALSE} ELSE BOOLEAN

Next == \E safe \in SUBSET Asked, finish \in SUBSET Busy,
           full \in Unless(rd.phase = "idle"), start \in Unless(wr.phase = "idle"),
           softRst \in BOOLEAN : Cycle(safe, finish, full, softRst, start)

Spec == Init /\ [][Next]_vars

(***************************************************************************)
(* Fairness: the clock runs, and a data cache that is asked takes the      *)
(* snoop in the end and answers what it took.  dcache_controller admits no *)
(* new CPU request while a snoop is pending (cpu_req_without_snoop), so it *)
(* reaches a state where snoop_safe_to_accept holds and stays there.       *)
(***************************************************************************)
\* A system that rests for ever does so in a state that a cycle may leave unchanged.
ClockRuns == []<><<TRUE>>_vars \/ []<>ENABLED (UNCHANGED vars /\ Next)
Fairness == /\ ClockRuns
            /\ \A k \in Caches : []<>~CacheReqValid(k) /\ []<>~cacheBusy[k]
FairSpec == Spec /\ Fairness

(***************************************************************************)
(* Properties.                                                             *)
(***************************************************************************)
ClientState == [phase : Phases, valid : BOOLEAN, line : Lines \cup {NoLine}]

\* Every register holds one of its values.
TypeOK ==
  /\ cpu0 \in ClientState /\ cpu1 \in ClientState
  /\ rd \in ClientState /\ wr \in ClientState
  /\ dmaWait \in BOOLEAN /\ dmaOwner \in Engines /\ dmaLast \in Engines
  /\ arbWait \in BOOLEAN /\ arbOwner \in Ports /\ arbLast \in Ports
  /\ busState \in {"idle", "req", "resp"} /\ busLine \in Lines
  /\ sent \in [Caches -> BOOLEAN] /\ waiting \in [Caches -> BOOLEAN]
  /\ latched \in [Caches -> Answers]
  /\ upResp \in Answers \cup {NoReply}
  /\ cacheBusy \in [Caches -> BOOLEAN] /\ cacheResp \in [Caches -> Answers \cup {NoReply}]
  /\ served \in Clients /\ replies \in [Caches -> Answers \cup {NoReply}]
  /\ delivered \in [to : Clients \cup {"nobody"}, answer : Answers]

\* An answer that reaches a client which waits for one is the answer to the
\* request it made: the line that was snooped is the line it waits for.  This
\* must survive a request withdrawn while it is granted, one that still stands
\* after its grant, a restart of the write engine and a soft reset of the DMA.
AnswersTheRequest ==
  \A c \in Clients : RespValid(c) /\ Client(c).phase = "wait"
                      => served = c /\ busLine = Client(c).line

\* A response of a cache never arrives while the bus does not wait for it: it
\* would be lost, or taken for the answer to the next request.
NoStrayAnswer == \A k \in Caches : cacheBusy[k] \/ CacheRespValid(k) => waiting[k]

\* A CPU whose miss waits for its snoop is the client being served: no reset,
\* restart or withdrawn request of the DMA makes the fabric forget it.
CpuNotForgotten ==
  \A c \in Cpus : Client(c).phase = "wait" => arbWait /\ served = c /\ (RespValid(c) <=> UpRespValid)

\* The fabric does for its clients what SnoopService promises.
Service == INSTANCE SnoopService WITH
  serving <- IF arbWait THEN served ELSE "nobody",
  line <- busLine,
  want <- [c \in Clients |-> IF Client(c).phase = "wait" THEN Client(c).line ELSE NoLine]
Implements == Service!Spec

\* Every miss of a CPU that asks for a snoop is answered, however often the
\* other CPU and the DMA ask, and whatever software does to the DMA.
CpuAnswered == \A c \in Cpus : Client(c).phase = "req" ~> Client(c).phase = "idle"
=============================================================================
