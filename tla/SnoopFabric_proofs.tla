------------------------- MODULE SnoopFabric_proofs -------------------------
(***************************************************************************)
(* The safety properties of SnoopFabric, for any lines, any data and any   *)
(* choice of the lines each client asks for.                               *)
(*                                                                         *)
(* The properties follow from FabricInv, an invariant that a step keeps:   *)
(* it says, register by register, who is being served and which of the     *)
(* blocks on the way from the client to the caches know of it.             *)
(***************************************************************************)
EXTENDS SnoopFabric, TLAPS

(***************************************************************************)
(* Type correctness.  Each register is written by one block, so the step   *)
(* is taken apart by block.                                                *)
(***************************************************************************)
ClientTypes == cpu0 \in ClientState /\ cpu1 \in ClientState
               /\ rd \in ClientState /\ wr \in ClientState

\* A client outside a request raises no wire; inside one it has a line.
HasLine(m) == (m.phase = "idle" => ~m.valid) /\ (m.phase # "idle" => m.line \in Lines)
ClientLines == HasLine(cpu0) /\ HasLine(cpu1) /\ HasLine(rd) /\ HasLine(wr)
TypeInv == TypeOK /\ ClientLines

LEMMA Cpu0Type ==
  ASSUME cpu0 \in ClientState, HasLine(cpu0), CpuCycle(cpu0, "cpu0")
  PROVE  cpu0' \in ClientState /\ HasLine(cpu0)'
<1> USE DEF ClientState, Phases, HasLine
<1>1. CASE CpuIdle(cpu0) BY <1>1 DEF CpuIdle
<1>2. CASE CpuMiss(cpu0, "cpu0")
  BY <1>2, LinesOfClients DEF CpuMiss, Start, Clients, Cpus
<1>3. CASE CpuRequest(cpu0, Ready("cpu0")) BY <1>3 DEF CpuRequest, Become
<1>4. CASE CpuWait(cpu0, RespValid("cpu0")) BY <1>4 DEF CpuWait, Await, Quiet
<1> QED BY <1>1, <1>2, <1>3, <1>4 DEF CpuCycle

LEMMA Cpu1Type ==
  ASSUME cpu1 \in ClientState, HasLine(cpu1), CpuCycle(cpu1, "cpu1")
  PROVE  cpu1' \in ClientState /\ HasLine(cpu1)'
<1> USE DEF ClientState, Phases, HasLine
<1>1. CASE CpuIdle(cpu1) BY <1>1 DEF CpuIdle
<1>2. CASE CpuMiss(cpu1, "cpu1")
  BY <1>2, LinesOfClients DEF CpuMiss, Start, Clients, Cpus
<1>3. CASE CpuRequest(cpu1, Ready("cpu1")) BY <1>3 DEF CpuRequest, Become
<1>4. CASE CpuWait(cpu1, RespValid("cpu1")) BY <1>4 DEF CpuWait, Await, Quiet
<1> QED BY <1>1, <1>2, <1>3, <1>4 DEF CpuCycle

LEMMA RdType ==
  ASSUME rd \in ClientState, HasLine(rd), NEW full \in BOOLEAN, RdCycle(full)
  PROVE  rd' \in ClientState /\ HasLine(rd)'
<1> USE DEF ClientState, Phases, HasLine
<1>1. CASE RdIdle BY <1>1 DEF RdIdle
<1>2. CASE RdLine BY <1>2, LinesOfClients DEF RdLine, Start, Clients, Engines
<1>3. CASE RdRequest(full) BY <1>3 DEF RdRequest, Become
<1>4. CASE RdWait(full) BY <1>4 DEF RdWait, Await, Quiet
<1> QED BY <1>1, <1>2, <1>3, <1>4 DEF RdCycle

LEMMA WrType ==
  ASSUME wr \in ClientState, HasLine(wr), NEW start \in BOOLEAN, WrCycle(start)
  PROVE  wr' \in ClientState /\ HasLine(wr)'
<1> USE DEF ClientState, Phases, HasLine
<1>1. CASE start
  <2>1. wr' = Quiet BY <1>1 DEF WrCycle, WrRestart
  <2> QED BY <2>1 DEF Quiet
<1>2. CASE WrIdle BY <1>2 DEF WrIdle
<1>3. CASE WrLine BY <1>3, LinesOfClients DEF WrLine, Start, Clients, Engines
<1>4. CASE WrRequest BY <1>4 DEF WrRequest, Become
<1>5. CASE WrWait BY <1>5 DEF WrWait, Await, Quiet
<1> QED BY <1>1, <1>2, <1>3, <1>4, <1>5 DEF WrCycle

\* The winner of the arbitration raises a request, so it has a line.
LEMMA GrantedAsks ==
  ASSUME TypeInv, ReqValid
  PROVE  /\ Granted \in Clients /\ GrantOwner \in Ports
         /\ Client(Granted).valid /\ PortClient(GrantOwner) = Granted
         /\ PortValid(GrantOwner)
<1> USE DEF Granted, Ports, Clients, Cpus, Engines
<1>1. PICK p \in Ports : PortValid(p) BY DEF ReqValid
<1>2. arbLast \in Ports BY DEF TypeInv, TypeOK
<1>3. GrantOwner \in Ports /\ PortValid(GrantOwner)
  BY <1>1, <1>2 DEF GrantOwner, After
<1>4. PortClient(GrantOwner) \in Clients BY <1>3 DEF PortClient, DmaClient
<1>5. Client(PortClient(GrantOwner)).valid
  <2>1. CASE GrantOwner = 0 BY <2>1, <1>3 DEF PortClient, PortValid, Client
  <2>2. CASE GrantOwner = 1 BY <2>2, <1>3 DEF PortClient, PortValid, Client
  <2>3. CASE GrantOwner = 2
    <3>1. DmaReqValid BY <2>3, <1>3 DEF PortValid
    <3>2. PortClient(GrantOwner) = DmaClient BY <2>3 DEF PortClient
    <3>3. CASE PickRd BY <3>2, <3>3 DEF DmaClient, PickRd, Client
    <3>4. CASE ~PickRd BY <3>1, <3>2, <3>4 DEF DmaClient, DmaReqValid, PickWr, Client
    <3> QED BY <3>3, <3>4
  <2> QED BY <1>3, <2>1, <2>2, <2>3
<1> QED BY <1>3, <1>4, <1>5

LEMMA ReqLineType == ASSUME TypeInv, ReqValid PROVE ReqLine \in Lines
<1>1. Granted \in Clients /\ Client(Granted).valid BY GrantedAsks
<1>2. HasLine(Client(Granted)) /\ Client(Granted) \in ClientState
  BY <1>1 DEF TypeInv, TypeOK, ClientLines, Client, Clients, Cpus, Engines
<1> QED BY <1>1, <1>2 DEF HasLine, ReqLine

LEMMA ArbiterTypes ==
  ASSUME TypeInv, NEW softRst \in BOOLEAN, DmaArbCycle(softRst), ArbCycle
  PROVE  /\ dmaWait' \in BOOLEAN /\ dmaOwner' \in Engines /\ dmaLast' \in Engines
         /\ arbWait' \in BOOLEAN /\ arbOwner' \in Ports /\ arbLast' \in Ports
<1> USE DEF TypeInv, TypeOK
<1>1. dmaWait' \in BOOLEAN /\ dmaOwner' \in Engines /\ dmaLast' \in Engines
  BY DEF DmaArbCycle, DmaSoftReset, DmaGrant, DmaRespond, DmaHold, dmaVars, DmaClient, Engines
<1>2. arbWait' \in BOOLEAN /\ arbOwner' \in Ports /\ arbLast' \in Ports
  BY GrantedAsks DEF ArbCycle, ArbGrant, ArbRespond, ArbHold, arbVars, Grant
<1> QED BY <1>1, <1>2

LEMMA MergeType == ASSUME NEW a \in [Caches -> Answers] PROVE Merge(a) \in Answers
BY DEF Merge, Caches

BusTypes == /\ busState \in {"idle", "req", "resp"} /\ busLine \in Lines
            /\ sent \in [Caches -> BOOLEAN] /\ waiting \in [Caches -> BOOLEAN]
            /\ latched \in [Caches -> Answers]
            /\ upResp \in Answers \cup {NoReply}

\* A cache response is valid when it is one of the answers.
LEMMA RespIsAnswer ==
  ASSUME TypeInv, NEW k \in Caches, CacheRespValid(k) PROVE cacheResp[k] \in Answers
BY DEF TypeInv, TypeOK, CacheRespValid

LEMMA LatchType == ASSUME TypeInv, LatchAnswers PROVE latched' \in [Caches -> Answers]
BY RespIsAnswer DEF LatchAnswers, Answered, TypeInv, TypeOK

LEMMA BusCycleTypes ==
  ASSUME TypeInv, NEW safe, BusCycle(safe) PROVE BusTypes'
<1> USE DEF TypeInv, TypeOK, BusTypes
<1>1. CASE BusIdle BY <1>1 DEF BusIdle
<1>2. CASE BusTake
  <2>1. busLine' \in Lines BY <1>2, ReqLineType DEF BusTake
  <2>2. latched' \in [Caches -> Answers] BY <1>2 DEF BusTake, Answers
  <2> QED BY <1>2, <2>1, <2>2 DEF BusTake
<1>3. CASE BusSend(safe)
  <2>1. latched' \in [Caches -> Answers] BY <1>3, LatchType DEF BusSend
  <2>2. sent' \in [Caches -> BOOLEAN] /\ waiting' \in [Caches -> BOOLEAN]
    BY <1>3 DEF BusSend, CacheReady, Accepts, CacheReqValid, Answered, CacheRespValid
  <2> QED BY <1>3, <2>1, <2>2 DEF BusSend
<1>4. CASE BusCollect
  <2>1. latched' \in [Caches -> Answers] BY <1>4, LatchType DEF BusCollect
  <2>2. waiting' \in [Caches -> BOOLEAN] BY <1>4 DEF BusCollect, Answered, CacheRespValid
  <2> QED BY <1>4, <2>1, <2>2 DEF BusCollect
<1>5. CASE BusDeliver
  <2>1. latched' \in [Caches -> Answers] BY <1>5, LatchType DEF BusDeliver
  <2>2. [k \in Caches |-> Current(k)] \in [Caches -> Answers]
    BY <1>5, RespIsAnswer DEF BusDeliver, BusComplete, Current
  <2>3. upResp' \in Answers BY <1>5, <2>2, MergeType DEF BusDeliver
  <2> QED BY <1>5, <2>1, <2>3 DEF BusDeliver
<1> QED BY <1>1, <1>2, <1>3, <1>4, <1>5 DEF BusCycle

LEMMA CacheTypes ==
  ASSUME TypeInv, NEW safe, NEW finish \in SUBSET Caches, CacheCycle(safe, finish)
  PROVE  /\ cacheBusy' \in [Caches -> BOOLEAN]
         /\ cacheResp' \in [Caches -> Answers \cup {NoReply}]
<1> USE DEF TypeInv, TypeOK, CacheCycle
<1>1. cacheBusy' \in [Caches -> BOOLEAN] BY DEF Accepts, CacheReqValid, CacheReady
<1>2. PICK answer \in [finish -> Answers] :
        cacheResp' = [k \in Caches |-> IF k \in finish THEN answer[k] ELSE NoReply]
  OBVIOUS
<1>3. cacheResp' \in [Caches -> Answers \cup {NoReply}] BY <1>2
<1> QED BY <1>1, <1>3

LEMMA HistoryTypes ==
  ASSUME TypeInv, NEW full \in BOOLEAN, NEW start \in BOOLEAN, History(full, start)
  PROVE  /\ served' \in Clients /\ replies' \in [Caches -> Answers \cup {NoReply}]
         /\ delivered' \in [to : Clients \cup {"nobody"}, answer : Answers]
<1> USE DEF TypeInv, TypeOK, History
<1>1. served' \in Clients BY GrantedAsks DEF Grant
<1>2. replies' \in [Caches -> Answers \cup {NoReply}] BY DEF NoReplies
<1>3. delivered' \in [to : Clients \cup {"nobody"}, answer : Answers]
  <2>1. CASE \E c \in Clients : Takes(c, full, start)
    <3>1. (CHOOSE c \in Clients : Takes(c, full, start)) \in Clients BY <2>1
    <3>2. upResp \in Answers
      BY <2>1 DEF Takes, RespValid, DmaResp, UpRespValid, Clients, Cpus, Engines
    <3> QED BY <2>1, <3>1, <3>2
  <2>2. CASE ~\E c \in Clients : Takes(c, full, start)
    BY <2>2 DEF NoDelivery, Answers
  <2> QED BY <2>1, <2>2
<1> QED BY <1>1, <1>2, <1>3

LEMMA TypeInit == Init => TypeInv
<1> SUFFICES ASSUME Init PROVE TypeInv OBVIOUS
<1>1. Quiet \in ClientState /\ HasLine(Quiet)
  BY DEF Quiet, ClientState, Phases, HasLine
<1>2. ClientTypes /\ ClientLines BY <1>1 DEF Init, ClientTypes, ClientLines
<1>3. /\ dmaWait \in BOOLEAN /\ dmaOwner \in Engines /\ dmaLast \in Engines
      /\ arbWait \in BOOLEAN /\ arbOwner \in Ports /\ arbLast \in Ports
      /\ BusTypes
  BY DEF Init, Engines, Ports, BusTypes, Answers
<1>4. /\ cacheBusy \in [Caches -> BOOLEAN] /\ cacheResp \in [Caches -> Answers \cup {NoReply}]
      /\ served \in Clients /\ replies \in [Caches -> Answers \cup {NoReply}]
  BY DEF Init, Clients, Cpus, NoReplies
<1>5. delivered \in [to : Clients \cup {"nobody"}, answer : Answers]
  BY DEF Init, NoDelivery, Answers
<1> QED BY <1>2, <1>3, <1>4, <1>5 DEF TypeInv, TypeOK, ClientTypes, BusTypes

LEMMA TypeNext ==
  ASSUME TypeInv, NEW safe \in SUBSET Caches, NEW finish \in SUBSET Caches, NEW full \in BOOLEAN,
         NEW softRst \in BOOLEAN, NEW start \in BOOLEAN,
         Cycle(safe, finish, full, softRst, start)
  PROVE  TypeInv'
<1>1. cpu0' \in ClientState /\ HasLine(cpu0)' BY Cpu0Type DEF Cycle, TypeInv, TypeOK, ClientLines
<1>2. cpu1' \in ClientState /\ HasLine(cpu1)' BY Cpu1Type DEF Cycle, TypeInv, TypeOK, ClientLines
<1>3. rd' \in ClientState /\ HasLine(rd)' BY RdType DEF Cycle, TypeInv, TypeOK, ClientLines
<1>4. wr' \in ClientState /\ HasLine(wr)' BY WrType DEF Cycle, TypeInv, TypeOK, ClientLines
<1>5. BusTypes' BY BusCycleTypes DEF Cycle
<1> QED BY <1>1, <1>2, <1>3, <1>4, <1>5, ArbiterTypes, CacheTypes, HistoryTypes
        DEF Cycle, TypeInv, TypeOK, ClientLines, BusTypes

LEMMA Stutter == TypeInv /\ UNCHANGED vars => TypeInv'
BY DEF TypeInv, TypeOK, ClientLines, HasLine, vars, clientVars, dmaVars, arbVars, busVars, cacheVars,
       history

\* The inputs of Next are sets of caches and Boolean wires.
LEMMA NextIsCycle ==
  ASSUME Next
  PROVE \E safe, finish \in SUBSET Caches, full, softRst, start \in BOOLEAN :
          Cycle(safe, finish, full, softRst, start)
<1>1. PICK safe \in SUBSET Asked, finish \in SUBSET Busy, full \in Unless(rd.phase = "idle"),
           start \in Unless(wr.phase = "idle"), softRst \in BOOLEAN :
             Cycle(safe, finish, full, softRst, start)
  BY DEF Next
<1>2. safe \in SUBSET Caches /\ finish \in SUBSET Caches
  BY DEF Asked, Busy
<1>3. full \in BOOLEAN /\ start \in BOOLEAN
  BY DEF Unless
<1> QED BY <1>1, <1>2, <1>3

\* Every register of the fabric holds one of its values.
THEOREM TypeCorrect == Spec => []TypeOK
<1>1. TypeInv /\ [Next]_vars => TypeInv' BY TypeNext, Stutter, NextIsCycle
<1>2. TypeInv => TypeOK BY DEF TypeInv
<1> QED BY TypeInit, <1>1, <1>2, PTL DEF Spec

(***************************************************************************)
(* The inductive invariant.  AnswersTheRequest speaks of the cycle in      *)
(* which an answer arrives; it holds because from the grant on             *)
(*   - the arbiter waits exactly while the bus works or answers (Pairing), *)
(*   - the owner registers of both arbiters point at the client served     *)
(*     (Ownership), a soft reset making dmaWait false at most,             *)
(*   - a client that waits and is outstanding waits for the line on the    *)
(*     bus, and one that raises its request while it waits does so only    *)
(*     while the arbiter is deaf (Waiting),                                *)
(*   - the bus waits for a cache exactly while that cache works or answers *)
(*     (Snooping).                                                         *)
(***************************************************************************)
Pairing == /\ arbWait <=> (busState # "idle" \/ UpRespValid)
           /\ UpRespValid => busState = "idle"

Ownership == /\ arbWait => /\ arbOwner = 0 <=> served = "cpu0"
                           /\ arbOwner = 1 <=> served = "cpu1"
             /\ dmaWait => arbWait /\ arbOwner = 2 /\ served = dmaOwner

Outstanding(c) == IF c \in Cpus THEN arbWait /\ served = c ELSE dmaWait /\ dmaOwner = c

WaitsWell(c) == Client(c).phase = "wait" => /\ Client(c).valid => arbWait
                                            /\ c \in Cpus => Outstanding(c)
                                            /\ Outstanding(c) => busLine = Client(c).line
Waiting == \A c \in Clients : WaitsWell(c)

SnoopsWell(k) == /\ waiting[k] <=> (cacheBusy[k] \/ CacheRespValid(k))
                 /\ ~(cacheBusy[k] /\ CacheRespValid(k))
                 /\ busState = "idle" => ~waiting[k]
Snooping == \A k \in Caches : SnoopsWell(k)

FabricInv == TypeInv /\ Pairing /\ Ownership /\ Waiting /\ Snooping

\* How a client can come to be waiting after a step: it was just granted, or it
\* waited already and no answer for it arrived.
WaitStep(c) ==
  Client(c)'.phase = "wait" =>
    /\ Client(c)'.line = Client(c).line
    /\ Client(c)'.valid => Ready(c)
    /\ \/ Client(c).phase = "req" /\ Ready(c)
       \/ Client(c).phase = "wait" /\ (c \in Cpus => ~RespValid(c))

LEMMA WaitSteps ==
  ASSUME NEW safe, NEW finish, NEW full \in BOOLEAN, NEW softRst, NEW start \in BOOLEAN,
         TypeInv, Cycle(safe, finish, full, softRst, start), NEW c \in Clients
  PROVE  WaitStep(c)
<1> USE DEF WaitStep, Client
<1>1. CASE c = "cpu0"
  <2> SUFFICES WaitStep("cpu0") BY <1>1
  <2>1. CpuCycle(cpu0, "cpu0") BY DEF Cycle
  <2>2. CASE CpuIdle(cpu0) BY <2>2 DEF CpuIdle
  <2>3. CASE CpuMiss(cpu0, "cpu0") BY <2>3 DEF CpuMiss, Start
  <2>4. CASE CpuRequest(cpu0, Ready("cpu0")) BY <2>4 DEF CpuRequest, Become
  <2>5. CASE CpuWait(cpu0, RespValid("cpu0")) BY <2>5 DEF CpuWait, Await, Quiet
  <2> QED BY <2>1, <2>2, <2>3, <2>4, <2>5 DEF CpuCycle
<1>2. CASE c = "cpu1"
  <2> SUFFICES WaitStep("cpu1") BY <1>2
  <2>1. CpuCycle(cpu1, "cpu1") BY DEF Cycle
  <2>2. CASE CpuIdle(cpu1) BY <2>2 DEF CpuIdle
  <2>3. CASE CpuMiss(cpu1, "cpu1") BY <2>3 DEF CpuMiss, Start
  <2>4. CASE CpuRequest(cpu1, Ready("cpu1")) BY <2>4 DEF CpuRequest, Become
  <2>5. CASE CpuWait(cpu1, RespValid("cpu1")) BY <2>5 DEF CpuWait, Await, Quiet
  <2> QED BY <2>1, <2>2, <2>3, <2>4, <2>5 DEF CpuCycle
<1>3. CASE c = "rd"
  <2> SUFFICES WaitStep("rd") BY <1>3
  <2>1. RdCycle(full) BY DEF Cycle
  <2>2. CASE RdIdle BY <2>2 DEF RdIdle
  <2>3. CASE RdLine BY <2>3 DEF RdLine, Start
  <2>4. CASE RdRequest(full) BY <2>4 DEF RdRequest, Become
  <2>5. CASE RdWait(full) BY <2>5 DEF RdWait, Await, Quiet, Cpus
  <2> QED BY <2>1, <2>2, <2>3, <2>4, <2>5 DEF RdCycle
<1>4. CASE c = "wr"
  <2> SUFFICES WaitStep("wr") BY <1>4
  <2>1. WrCycle(start) BY DEF Cycle
  <2>2. CASE WrRestart BY <2>2 DEF WrRestart, Quiet
  <2>3. CASE WrIdle BY <2>3 DEF WrIdle
  <2>4. CASE WrLine BY <2>4 DEF WrLine, Start
  <2>5. CASE WrRequest BY <2>5 DEF WrRequest, Become
  <2>6. CASE WrWait BY <2>6 DEF WrWait, Await, Quiet, Cpus
  <2> QED BY <2>1, <2>2, <2>3, <2>4, <2>5, <2>6 DEF WrCycle
<1> QED BY <1>1, <1>2, <1>3, <1>4 DEF Clients, Cpus, Engines

(***************************************************************************)
(* Preservation, one lemma per part.                                       *)
(***************************************************************************)
LEMMA PairingNext ==
  ASSUME NEW safe, Pairing, TypeInv, ArbCycle, BusCycle(safe)
  PROVE  Pairing'
<1> USE DEF Pairing, UpRespValid
<1>1. arbWait' <=> Grant \/ (arbWait /\ ~UpRespValid)
  BY DEF ArbCycle, ArbGrant, ArbRespond, ArbHold, arbVars, Grant, ReqValid
<1>2. CASE BusIdle BY <1>1, <1>2 DEF BusIdle, Grant
<1>3. CASE BusTake BY <1>1, <1>3 DEF BusTake, Grant, ReqReady
<1>4. CASE BusSend(safe) BY <1>1, <1>4 DEF BusSend, Grant, ReqReady
<1>5. CASE BusCollect BY <1>1, <1>5 DEF BusCollect, Grant, ReqReady
<1>6. CASE BusDeliver
  <2>1. upResp' # NoReply
    <3>1. [k \in Caches |-> Current(k)] \in [Caches -> Answers]
      BY <1>6, RespIsAnswer DEF BusDeliver, BusComplete, Current, TypeInv, TypeOK
    <3> QED BY <1>6, <3>1, MergeType, MarkersAreNoValues DEF BusDeliver
  <2> QED BY <1>1, <1>6, <2>1 DEF BusDeliver, Grant, ReqReady
<1> QED BY <1>2, <1>3, <1>4, <1>5, <1>6 DEF BusCycle

\* A grant of a port is a grant of the client that holds the port.
LEMMA PortsAndClients ==
  ASSUME TypeInv, ReqValid
  PROVE  /\ GrantOwner = 0 <=> Granted = "cpu0"
         /\ GrantOwner = 1 <=> Granted = "cpu1"
         /\ GrantOwner = 2 => Granted = DmaClient
BY GrantedAsks DEF PortClient, DmaClient, Ports

LEMMA OwnershipNext ==
  ASSUME NEW softRst \in BOOLEAN, NEW full, NEW start, Ownership, Pairing, TypeInv,
         DmaArbCycle(softRst), ArbCycle, History(full, start)
  PROVE  Ownership'
<1> USE DEF Ownership
<1>1. served' = IF Grant THEN Granted ELSE served BY DEF History
<1>2. CASE Grant
  <2>1. arbOwner' = GrantOwner /\ arbWait' = TRUE
    BY <1>2 DEF ArbCycle, ArbGrant, ArbRespond, ArbHold, Grant, ReqValid
  <2>2. ~dmaWait BY <1>2 DEF Grant, ReqValid
  <2>3. dmaWait' => GrantOwner = 2 /\ dmaOwner' = DmaClient
    BY <2>2 DEF DmaArbCycle, DmaSoftReset, DmaGrant, DmaRespond, DmaHold, dmaVars
  <2> QED BY <1>1, <1>2, <2>1, <2>3, PortsAndClients DEF Grant
<1>3. CASE ~Grant
  <2>1. arbOwner' = arbOwner /\ (arbWait' <=> arbWait /\ ~UpRespValid)
    BY <1>3 DEF ArbCycle, ArbGrant, ArbRespond, ArbHold, arbVars
  <2>2. dmaWait' => dmaWait /\ ~(arbWait /\ UpRespValid) /\ dmaOwner' = dmaOwner
    BY <1>3 DEF DmaArbCycle, DmaSoftReset, DmaGrant, DmaRespond, DmaHold, dmaVars, DmaResp
  <2> QED BY <1>1, <1>3, <2>1, <2>2
<1> QED BY <1>2, <1>3

\* While a CPU is served, every response of the bus is its response.
LEMMA CpuResponse ==
  ASSUME Ownership, arbWait, NEW c \in Cpus, served = c
  PROVE  RespValid(c) <=> UpRespValid
<1>1. CASE c = "cpu0" BY <1>1 DEF Ownership, RespValid, Engines
<1>2. CASE c = "cpu1" BY <1>2 DEF Ownership, RespValid, Engines
<1> QED BY <1>1, <1>2 DEF Cpus

LEMMA WaitingNext ==
  ASSUME NEW safe \in SUBSET Caches, NEW finish, NEW full \in BOOLEAN, NEW softRst \in BOOLEAN,
         NEW start \in BOOLEAN, Waiting, Ownership, Pairing, TypeInv,
         Cycle(safe, finish, full, softRst, start)
  PROVE  Waiting'
<1> SUFFICES ASSUME NEW c \in Clients, Client(c)'.phase = "wait"
             PROVE  /\ Client(c)'.valid => arbWait'
                    /\ c \in Cpus => Outstanding(c)'
                    /\ Outstanding(c)' => busLine' = Client(c)'.line
  BY DEF Waiting, WaitsWell
<1>1. WaitStep(c) BY WaitSteps
<1>2. Grant => arbWait' = TRUE /\ busLine' = ReqLine /\ served' = Granted
  BY DEF Cycle, ArbCycle, ArbGrant, ArbRespond, ArbHold, Grant, ReqValid, History, BusCycle, BusIdle,
         BusTake, BusSend, BusCollect, BusDeliver, ReqReady
<1>3. ~Grant => /\ busLine' = busLine /\ served' = served
                /\ arbWait' <=> arbWait /\ ~UpRespValid
  BY DEF Cycle, ArbCycle, ArbGrant, ArbRespond, ArbHold, arbVars, Grant, History, BusCycle, BusIdle,
         BusTake, BusSend, BusCollect, BusDeliver, ReqReady
<1>4. Grant => ~arbWait /\ ~dmaWait BY DEF Grant, ReqValid, Ownership
<1>5. dmaWait' => \/ dmaWait /\ dmaOwner' = dmaOwner
                  \/ Grant /\ GrantOwner = 2 /\ dmaOwner' = DmaClient
  BY DEF Cycle, DmaArbCycle, DmaSoftReset, DmaGrant, DmaRespond, DmaHold, dmaVars
<1>6. CASE Client(c).phase = "req" /\ Ready(c)
  <2>1. Grant /\ Granted = c BY <1>6 DEF Ready
  <2>2. busLine' = Client(c)'.line BY <1>1, <1>2, <2>1, <1>6 DEF WaitStep, ReqLine
  <2> QED BY <1>2, <2>1, <2>2 DEF Outstanding
<1>7. CASE Client(c).phase = "wait" /\ (c \in Cpus => ~RespValid(c))
  <2>1. WaitsWell(c) BY DEF Waiting
  <2>2. c \in Cpus => ~Grant /\ ~UpRespValid
    <3> SUFFICES ASSUME c \in Cpus PROVE ~Grant /\ ~UpRespValid OBVIOUS
    <3>1. arbWait /\ served = c /\ ~RespValid(c) BY <1>7, <2>1 DEF WaitsWell, Outstanding
    <3>2. RespValid(c) <=> UpRespValid BY <3>1, CpuResponse
    <3> QED BY <1>4, <3>1, <3>2
  <2>3. Ready(c) => arbWait' BY <1>2 DEF Ready
  <2>4. CASE c \in Cpus
    BY <1>1, <1>3, <1>7, <2>1, <2>2, <2>3, <2>4 DEF WaitsWell, Outstanding, WaitStep
  <2>5. CASE c \notin Cpus
    <3>1. CASE Outstanding(c)' /\ dmaWait /\ dmaOwner' = dmaOwner
      BY <1>1, <1>3, <1>4, <1>7, <2>1, <2>3, <2>5, <3>1 DEF WaitsWell, Outstanding, WaitStep
    <3>2. CASE Outstanding(c)' /\ Grant /\ GrantOwner = 2 /\ dmaOwner' = DmaClient
      <4>1. Granted = c BY <2>5, <3>2, PortsAndClients DEF Outstanding, Grant
      <4> QED BY <1>1, <1>2, <1>7, <2>3, <2>5, <3>2, <4>1 DEF ReqLine, WaitStep
    <3> QED BY <1>1, <1>5, <2>3, <2>5, <3>1, <3>2 DEF Outstanding, WaitStep
  <2> QED BY <2>4, <2>5
<1> QED BY <1>1, <1>6, <1>7 DEF WaitStep

LEMMA SnoopingNext ==
  ASSUME NEW safe \in SUBSET Caches, NEW finish \in SUBSET Busy, Snooping, TypeInv,
         BusCycle(safe), CacheCycle(safe, finish)
  PROVE  Snooping'
<1> SUFFICES ASSUME NEW k \in Caches PROVE SnoopsWell(k)' BY DEF Snooping
<1>1. SnoopsWell(k) BY DEF Snooping
<1>2. cacheBusy'[k] <=> Accepts(k, safe) \/ (cacheBusy[k] /\ k \notin finish)
  BY DEF CacheCycle
<1>3. CacheRespValid(k)' <=> k \in finish
  <2>1. PICK answer \in [finish -> Answers] :
          cacheResp' = [j \in Caches |-> IF j \in finish THEN answer[j] ELSE NoReply]
    BY DEF CacheCycle
  <2> QED BY <2>1, MarkersAreNoValues DEF CacheRespValid
<1>4. k \in finish => cacheBusy[k] /\ ~Accepts(k, safe) BY DEF Busy, Accepts, CacheReady
<1>5. Accepts(k, safe) => busState = "req" BY DEF Accepts, CacheReqValid
<1>6. Answered(k) <=> waiting[k] /\ CacheRespValid(k) BY DEF Answered
<1>7. CASE BusIdle BY <1>1, <1>2, <1>3, <1>4, <1>5, <1>7 DEF BusIdle, SnoopsWell
<1>8. CASE BusTake BY <1>1, <1>2, <1>3, <1>4, <1>5, <1>8 DEF BusTake, SnoopsWell
<1>9. CASE BusSend(safe)
  <2>1. waiting'[k] <=> Accepts(k, safe) \/ (waiting[k] /\ ~Answered(k))
    BY <1>9 DEF BusSend
  <2>2. busState' # "idle" BY <1>9 DEF BusSend
  <2> QED BY <1>1, <1>2, <1>3, <1>4, <1>6, <2>1, <2>2 DEF SnoopsWell
<1>10. CASE BusCollect
  <2>1. waiting'[k] <=> waiting[k] /\ ~Answered(k) BY <1>10 DEF BusCollect
  <2>2. busState' # "idle" /\ ~Accepts(k, safe) BY <1>5, <1>10 DEF BusCollect
  <2> QED BY <1>1, <1>2, <1>3, <1>4, <1>6, <2>1, <2>2 DEF SnoopsWell
<1>11. CASE BusDeliver
  <2>1. ~waiting'[k] /\ ~Accepts(k, safe) /\ ~cacheBusy[k]
    BY <1>1, <1>5, <1>11 DEF BusDeliver, BusComplete, SnoopsWell
  <2> QED BY <1>2, <1>3, <1>4, <2>1 DEF SnoopsWell
<1> QED BY <1>7, <1>8, <1>9, <1>10, <1>11 DEF BusCycle

(***************************************************************************)
(* The theorems.                                                           *)
(***************************************************************************)
LEMMA InvInit == Init => FabricInv
<1> SUFFICES ASSUME Init PROVE FabricInv OBVIOUS
<1>1. Pairing /\ Ownership BY DEF Init, Pairing, Ownership, UpRespValid
<1>2. Waiting
  <2> SUFFICES ASSUME NEW c \in Clients PROVE Client(c).phase # "wait" BY DEF Waiting, WaitsWell
  <2> QED BY DEF Init, Client, Quiet, Clients, Cpus, Engines
<1>3. Snooping BY DEF Init, Snooping, SnoopsWell, CacheRespValid
<1> QED BY <1>1, <1>2, <1>3, TypeInit DEF FabricInv

LEMMA InvNext == FabricInv /\ [Next]_vars => FabricInv'
<1> SUFFICES ASSUME FabricInv, [Next]_vars PROVE FabricInv' OBVIOUS
<1> USE DEF FabricInv
<1>1. ASSUME NEW safe \in SUBSET Caches, NEW finish \in SUBSET Busy, NEW full \in BOOLEAN,
             NEW softRst \in BOOLEAN, NEW start \in BOOLEAN,
             Cycle(safe, finish, full, softRst, start)
      PROVE  FabricInv'
  <2>1. finish \in SUBSET Caches BY DEF Busy
  <2>2. TypeInv' BY <1>1, <2>1, TypeNext
  <2>3. Pairing' BY <1>1, PairingNext DEF Cycle
  <2>4. Ownership' BY <1>1, OwnershipNext DEF Cycle
  <2>5. Waiting' BY <1>1, WaitingNext
  <2>6. Snooping' BY <1>1, SnoopingNext DEF Cycle
  <2> QED BY <2>2, <2>3, <2>4, <2>5, <2>6
<1>2. CASE Next
  <2>1. PICK safe \in SUBSET Asked, finish \in SUBSET Busy, full \in BOOLEAN, start \in BOOLEAN,
             softRst \in BOOLEAN : Cycle(safe, finish, full, softRst, start)
    BY <1>2 DEF Next, Unless
  <2> QED BY <1>1, <2>1 DEF Asked
<1>3. CASE UNCHANGED vars
  <2>1. Pairing' /\ Ownership' BY <1>3 DEF vars, dmaVars, arbVars, busVars, history, Pairing,
                                            Ownership, UpRespValid
  <2>2. Waiting' BY <1>3 DEF vars, clientVars, dmaVars, arbVars, busVars, history, Waiting,
                             WaitsWell, Client, Outstanding
  <2>3. Snooping' BY <1>3 DEF vars, busVars, cacheVars, Snooping, SnoopsWell, CacheRespValid
  <2> QED BY <1>3, <2>1, <2>2, <2>3, Stutter
<1> QED BY <1>2, <1>3

LEMMA InvSpec == Spec => []FabricInv
BY InvInit, InvNext, PTL DEF Spec

\* An answer that reaches a client which waits for one answers its request.
THEOREM AnswersAreRouted == Spec => []AnswersTheRequest
<1>1. FabricInv => AnswersTheRequest
  <2> SUFFICES ASSUME FabricInv, NEW c \in Clients, RespValid(c), Client(c).phase = "wait"
               PROVE  served = c /\ busLine = Client(c).line
    BY DEF AnswersTheRequest
  <2>1. WaitsWell(c) BY DEF FabricInv, Waiting
  <2>2. CASE c \in Cpus BY <2>1, <2>2 DEF WaitsWell, Outstanding
  <2>3. CASE c \in Engines
    <3>1. dmaWait /\ dmaOwner = c BY <2>3 DEF RespValid, Engines, Cpus
    <3> QED BY <2>1, <2>3, <3>1 DEF WaitsWell, Outstanding, FabricInv, Ownership, Cpus, Engines
  <2> QED BY <2>2, <2>3 DEF Clients
<1> QED BY <1>1, InvSpec, PTL

\* A response of a cache never arrives while the bus does not wait for it.
THEOREM NoAnswerIsStray == Spec => []NoStrayAnswer
<1>1. FabricInv => NoStrayAnswer BY DEF FabricInv, Snooping, SnoopsWell, NoStrayAnswer
<1> QED BY <1>1, InvSpec, PTL

\* A CPU whose miss waits for its snoop is the client being served.
THEOREM CpusAreRemembered == Spec => []CpuNotForgotten
<1>1. FabricInv => CpuNotForgotten
  <2> SUFFICES ASSUME FabricInv, NEW c \in Cpus, Client(c).phase = "wait"
               PROVE  arbWait /\ served = c /\ (RespValid(c) <=> UpRespValid)
    BY DEF CpuNotForgotten
  <2>1. arbWait /\ served = c
    BY DEF FabricInv, Waiting, WaitsWell, Outstanding, Clients
  <2>2. RespValid(c) <=> UpRespValid BY <2>1, CpuResponse DEF FabricInv
  <2> QED BY <2>1, <2>2
<1> QED BY <1>1, InvSpec, PTL

-----------------------------------------------------------------------------
(***************************************************************************)
(* The fabric implements SnoopService, for any lines and any data: every   *)
(* cycle of the arbiters and the bus is a step of the service or leaves it *)
(* unchanged.  The refinement mapping is the one of Service in SnoopFabric.*)
(***************************************************************************)

(***************************************************************************)
(* What FabricInv does not say yet: the replies the caches gave to the     *)
(* request on the bus are the ones the bus has latched (Heard), the answer *)
(* the bus returns is made of all of them (Complete), and a CPU that is    *)
(* served still waits (CpuStays).                                          *)
(***************************************************************************)
HearsWell(k) ==
  busState # "idle" =>
    /\ waiting[k] => sent[k] /\ replies[k] = NoReply
    /\ ~sent[k] => replies[k] = NoReply
    /\ sent[k] /\ ~waiting[k] => replies[k] = latched[k]
    /\ busState = "resp" => sent[k]
Heard == \A k \in Caches : HearsWell(k)

Complete == UpRespValid => upResp = Merge(replies) /\ \A k \in Caches : replies[k] # NoReply

CpuStays == \A c \in Cpus : arbWait /\ served = c => Client(c).phase = "wait"

RefineInv == FabricInv /\ Heard /\ Complete /\ CpuStays

LEMMA RepliesStep ==
  ASSUME NEW full, NEW start, History(full, start), NEW k \in Caches
  PROVE  replies'[k] = IF Grant THEN NoReply
                       ELSE IF CacheRespValid(k) THEN cacheResp[k] ELSE replies[k]
BY DEF History, NoReplies

LEMMA HeardNext ==
  ASSUME NEW safe, NEW full, NEW start, FabricInv, Heard, BusCycle(safe), History(full, start)
  PROVE  Heard'
<1> SUFFICES ASSUME NEW k \in Caches PROVE HearsWell(k)' BY DEF Heard
<1>1. HearsWell(k) /\ SnoopsWell(k) BY DEF Heard, FabricInv, Snooping
<1>2. CASE BusIdle BY <1>2 DEF BusIdle, HearsWell
<1>3. CASE BusTake
  <2>1. Grant BY <1>3 DEF BusTake, Grant, ReqReady
  <2> QED BY <1>3, <2>1, RepliesStep DEF BusTake, HearsWell
<1>4. CASE BusSend(safe)
  <2>1. ~Grant /\ busState = "req" BY <1>4 DEF BusSend, Grant, ReqReady
  <2>2. replies'[k] = IF CacheRespValid(k) THEN cacheResp[k] ELSE replies[k]
    BY <2>1, RepliesStep
  <2>3. /\ sent'[k] <=> sent[k] \/ CacheReady(k, safe)
        /\ waiting'[k] <=> (~sent[k] /\ CacheReady(k, safe)) \/ (waiting[k] /\ ~CacheRespValid(k))
        /\ latched'[k] = IF waiting[k] /\ CacheRespValid(k) THEN cacheResp[k] ELSE latched[k]
        /\ busState' = "resp" => sent'[k]
    BY <1>4, <2>1 DEF BusSend, LatchAnswers, Answered, Accepts, CacheReqValid
  <2> QED BY <1>1, <2>1, <2>2, <2>3 DEF HearsWell, SnoopsWell
<1>5. CASE BusCollect
  <2>1. ~Grant /\ busState = "resp" BY <1>5 DEF BusCollect, Grant, ReqReady
  <2>2. replies'[k] = IF CacheRespValid(k) THEN cacheResp[k] ELSE replies[k]
    BY <2>1, RepliesStep
  <2>3. /\ sent' = sent /\ busState' = busState
        /\ waiting'[k] <=> waiting[k] /\ ~CacheRespValid(k)
        /\ latched'[k] = IF waiting[k] /\ CacheRespValid(k) THEN cacheResp[k] ELSE latched[k]
    BY <1>5 DEF BusCollect, LatchAnswers, Answered
  <2> QED BY <1>1, <2>1, <2>2, <2>3 DEF HearsWell, SnoopsWell
<1>6. CASE BusDeliver BY <1>6 DEF BusDeliver, HearsWell
<1> QED BY <1>2, <1>3, <1>4, <1>5, <1>6 DEF BusCycle

LEMMA CompleteNext ==
  ASSUME NEW safe, NEW full, NEW start, FabricInv, Heard, BusCycle(safe), History(full, start)
  PROVE  Complete'
<1> SUFFICES ASSUME UpRespValid' PROVE upResp' = Merge(replies') /\ \A k \in Caches : replies'[k] # NoReply
  BY DEF Complete, Merge
<1>1. BusDeliver
  BY DEF BusCycle, BusIdle, BusTake, BusSend, BusCollect, UpRespValid
<1>2. ~Grant /\ busState = "resp" BY <1>1 DEF BusDeliver, Grant, ReqReady
<1>3. ASSUME NEW k \in Caches PROVE replies'[k] = Current(k) /\ Current(k) # NoReply
  <2>1. HearsWell(k) /\ SnoopsWell(k) BY DEF Heard, FabricInv, Snooping
  <2>2. replies'[k] = IF CacheRespValid(k) THEN cacheResp[k] ELSE replies[k]
    BY <1>2, RepliesStep
  <2>3. waiting[k] => CacheRespValid(k) BY <1>1 DEF BusDeliver, BusComplete
  <2>4. latched[k] # NoReply BY MarkersAreNoValues DEF FabricInv, TypeInv, TypeOK
  <2> QED BY <1>2, <2>1, <2>2, <2>3, <2>4 DEF HearsWell, SnoopsWell, Current, CacheRespValid
<1>4. upResp' = Merge([k \in Caches |-> Current(k)]) BY <1>1 DEF BusDeliver
<1>5. Merge([k \in Caches |-> Current(k)]) = Merge(replies') BY <1>3 DEF Merge, Caches
<1> QED BY <1>3, <1>4, <1>5

\* The miss path of a CPU that is granted waits, and waits on until its answer.
LEMMA CpuKeepsWaiting ==
  ASSUME NEW safe, NEW finish, NEW full, NEW softRst, NEW start,
         Cycle(safe, finish, full, softRst, start), NEW c \in Cpus,
         \/ Client(c).phase = "req" /\ Ready(c)
         \/ Client(c).phase = "wait" /\ ~RespValid(c)
  PROVE  Client(c)'.phase = "wait"
<1>1. CASE c = "cpu0"
  <2>1. CpuRequest(cpu0, Ready("cpu0")) \/ CpuWait(cpu0, RespValid("cpu0"))
    BY <1>1 DEF Cycle, CpuCycle, CpuIdle, CpuMiss, Client
  <2> QED BY <1>1, <2>1 DEF CpuRequest, CpuWait, Become, Await, Client
<1>2. CASE c = "cpu1"
  <2>1. CpuRequest(cpu1, Ready("cpu1")) \/ CpuWait(cpu1, RespValid("cpu1"))
    BY <1>2 DEF Cycle, CpuCycle, CpuIdle, CpuMiss, Client
  <2> QED BY <1>2, <2>1 DEF CpuRequest, CpuWait, Become, Await, Client
<1> QED BY <1>1, <1>2 DEF Cpus

LEMMA CpuStaysNext ==
  ASSUME NEW safe, NEW finish, NEW full, NEW softRst, NEW start, FabricInv, CpuStays,
         Cycle(safe, finish, full, softRst, start)
  PROVE  CpuStays'
<1> SUFFICES ASSUME NEW c \in Cpus, arbWait', served' = c PROVE Client(c)'.phase = "wait"
  BY DEF CpuStays
<1>1. CASE Grant
  <2>1. Ready(c) BY <1>1 DEF Cycle, History, Ready
  <2>2. Client(c).valid /\ c \in Clients BY <1>1, <2>1, GrantedAsks DEF Ready, Grant, FabricInv
  <2>3. HasLine(Client(c)) /\ Client(c).phase \in Phases
    BY DEF FabricInv, TypeInv, TypeOK, ClientLines, ClientState, Client, Cpus
  <2>4. Client(c).phase # "wait"
    BY <1>1, <2>2 DEF FabricInv, Waiting, WaitsWell, Grant, ReqValid
  <2> QED BY <2>1, <2>2, <2>3, <2>4, CpuKeepsWaiting DEF HasLine, Phases
<1>2. CASE ~Grant
  <2>1. served = c /\ arbWait /\ ~UpRespValid
    BY <1>2 DEF Cycle, History, ArbCycle, ArbGrant, ArbRespond, ArbHold, arbVars
  <2>2. ~RespValid(c) BY <2>1, CpuResponse DEF FabricInv
  <2> QED BY <2>1, <2>2, CpuKeepsWaiting DEF CpuStays
<1> QED BY <1>1, <1>2

LEMMA RefineInvInit == Init => RefineInv
<1> SUFFICES ASSUME Init PROVE RefineInv OBVIOUS
<1>1. Heard /\ Complete /\ CpuStays
  BY DEF Init, Heard, HearsWell, Complete, CpuStays, UpRespValid
<1> QED BY <1>1, InvInit DEF RefineInv

LEMMA RefineInvNext == RefineInv /\ [Next]_vars => RefineInv'
<1> SUFFICES ASSUME RefineInv, [Next]_vars PROVE RefineInv' OBVIOUS
<1>1. FabricInv' BY InvNext DEF RefineInv
<1>2. CASE Next
  <2>1. PICK safe, finish \in SUBSET Caches, full, softRst, start \in BOOLEAN :
               Cycle(safe, finish, full, softRst, start)
    BY <1>2, NextIsCycle
  <2>2. BusCycle(safe) /\ History(full, start) BY <2>1 DEF Cycle
  <2>3. Heard' BY <2>2, HeardNext DEF RefineInv
  <2>4. Complete' BY <2>2, CompleteNext DEF RefineInv
  <2>5. CpuStays' BY <2>1, CpuStaysNext DEF RefineInv
  <2> QED BY <1>1, <2>3, <2>4, <2>5 DEF RefineInv
<1>3. CASE UNCHANGED vars
  <2>1. Heard' BY <1>3 DEF RefineInv, vars, busVars, history, Heard, HearsWell
  <2>2. Complete' BY <1>3 DEF RefineInv, vars, busVars, history, Complete, UpRespValid
  <2>3. CpuStays' BY <1>3 DEF RefineInv, vars, clientVars, arbVars, history, CpuStays, Client
  <2> QED BY <1>1, <2>1, <2>2, <2>3 DEF RefineInv
<1> QED BY <1>2, <1>3

(***************************************************************************)
(* Deliveries.                                                             *)
(***************************************************************************)
\* Only the client that is served takes an answer.
LEMMA TakerIsServed ==
  ASSUME FabricInv, NEW full, NEW start, NEW c \in Clients, Takes(c, full, start)
  PROVE  /\ c = served /\ arbWait /\ UpRespValid
         /\ busLine = Client(c).line /\ Client(c).phase = "wait"
<1>1. RespValid(c) /\ Client(c).phase = "wait" BY DEF Takes
<1>2. WaitsWell(c) BY DEF FabricInv, Waiting
<1>3. CASE c \in Cpus
  <2>1. arbWait /\ served = c /\ busLine = Client(c).line
    BY <1>1, <1>2, <1>3 DEF WaitsWell, Outstanding
  <2> QED BY <1>1, <1>3, <2>1, CpuResponse DEF FabricInv
<1>4. CASE c \in Engines
  <2>1. dmaWait /\ dmaOwner = c /\ DmaResp BY <1>1, <1>4 DEF RespValid, Engines, Cpus
  <2> QED BY <1>1, <1>2, <1>4, <2>1
          DEF WaitsWell, Outstanding, FabricInv, Ownership, Cpus, Engines, DmaResp
<1> QED BY <1>3, <1>4 DEF Clients

LEMMA Delivery ==
  ASSUME FabricInv, NEW full, NEW start, History(full, start)
  PROVE  \/ /\ \A c \in Clients : ~Takes(c, full, start)
            /\ delivered' = NoDelivery
         \/ /\ Takes(served, full, start) /\ arbWait /\ UpRespValid
            /\ delivered' = [to |-> served, answer |-> upResp]
<1>1. CASE \E c \in Clients : Takes(c, full, start)
  <2>1. PICK c \in Clients : Takes(c, full, start) BY <1>1
  <2>2. c = served /\ arbWait /\ UpRespValid BY <2>1, TakerIsServed
  <2>3. (CHOOSE d \in Clients : Takes(d, full, start)) = served
    BY <2>1, <2>2, TakerIsServed
  <2> QED BY <1>1, <2>1, <2>2, <2>3 DEF History
<1>2. CASE ~\E c \in Clients : Takes(c, full, start) BY <1>2 DEF History
<1> QED BY <1>1, <1>2

\* A client that takes its answer stops waiting; a CPU stops for no other reason.
LEMMA TakerLeaves ==
  ASSUME NEW safe, NEW finish, NEW full, NEW softRst, NEW start \in BOOLEAN, FabricInv,
         Cycle(safe, finish, full, softRst, start), NEW c \in Clients, Takes(c, full, start)
  PROVE  Client(c)'.phase # "wait"
<1>1. RespValid(c) /\ Client(c).phase = "wait" BY DEF Takes
<1>2. CASE c = "cpu0"
  <2>1. cpu0' = Quiet
    BY <1>1, <1>2 DEF Cycle, CpuCycle, CpuIdle, CpuMiss, CpuRequest, CpuWait, Await, Client
  <2> QED BY <1>2, <2>1 DEF Client, Quiet
<1>3. CASE c = "cpu1"
  <2>1. cpu1' = Quiet
    BY <1>1, <1>3 DEF Cycle, CpuCycle, CpuIdle, CpuMiss, CpuRequest, CpuWait, Await, Client
  <2> QED BY <1>3, <2>1 DEF Client, Quiet
<1>4. CASE c = "rd"
  <2>1. RdTakes(full) BY <1>4 DEF Takes
  <2>2. rd' = Quiet
    BY <1>1, <1>4, <2>1 DEF Cycle, RdCycle, RdIdle, RdLine, RdRequest, RdWait, Await, Client
  <2> QED BY <1>4, <2>2 DEF Client, Quiet
<1>5. CASE c = "wr"
  <2>1. ~start BY <1>5 DEF Takes
  <2>2. wr' = Quiet
    BY <1>1, <1>5, <2>1 DEF Cycle, WrCycle, WrIdle, WrLine, WrRequest, WrWait, Await, Client
  <2> QED BY <1>5, <2>2 DEF Client, Quiet
<1> QED BY <1>2, <1>3, <1>4, <1>5 DEF Clients, Cpus, Engines

(***************************************************************************)
(* The step.  A cycle is Serve when the arbiter grants, Listen while the   *)
(* bus works, Finish when the bus answers, and Rest otherwise.             *)
(***************************************************************************)
serving == IF arbWait THEN served ELSE "nobody"
want == [c \in Clients |-> IF Client(c).phase = "wait" THEN Client(c).line ELSE NoLine]

WantStep(c) ==
  \/ want'[c] = want[c] /\ delivered'.to # c
  \/ want[c] = NoLine /\ serving = "nobody" /\ serving' = c /\ want'[c] = busLine'
  \/ want'[c] = NoLine /\ (c \in Engines \/ delivered'.to = c)

LEMMA WantSteps ==
  ASSUME NEW safe, NEW finish, NEW full \in BOOLEAN, NEW softRst, NEW start \in BOOLEAN,
         FabricInv, Cycle(safe, finish, full, softRst, start), NEW c \in Clients
  PROVE  WantStep(c)
<1>1. WaitStep(c) BY WaitSteps DEF FabricInv
<1>2. want[c] = IF Client(c).phase = "wait" THEN Client(c).line ELSE NoLine BY DEF want
<1>3. want'[c] = IF Client(c)'.phase = "wait" THEN Client(c)'.line ELSE NoLine
  BY DEF want
<1>4. History(full, start) BY DEF Cycle
<1>5. delivered'.to = c => Takes(c, full, start)
  BY <1>4, Delivery DEF NoDelivery, Clients, Cpus, Engines
<1>6. CASE Client(c)'.phase = "wait" /\ Client(c).phase = "wait"
  BY <1>1, <1>2, <1>3, <1>5, <1>6, TakerLeaves DEF WaitStep, WantStep
<1>7. CASE Client(c)'.phase = "wait" /\ Client(c).phase # "wait"
  <2>1. Grant /\ Granted = c /\ Client(c)'.line = Client(c).line
    BY <1>1, <1>7 DEF WaitStep, Ready
  <2>2. ~arbWait /\ arbWait' /\ served' = c
    BY <2>1, <1>4 DEF Cycle, ArbCycle, ArbGrant, ArbRespond, ArbHold, Grant, ReqValid, History
  <2>3. busLine' = ReqLine
    BY <2>1 DEF Cycle, BusCycle, BusIdle, BusTake, BusSend, BusCollect, BusDeliver, Grant, ReqReady
  <2> QED BY <1>2, <1>3, <1>7, <2>1, <2>2, <2>3 DEF WantStep, serving, ReqLine
<1>8. CASE Client(c)'.phase # "wait" /\ Client(c).phase = "wait"
  <2>1. CASE c \in Engines BY <1>3, <1>8, <2>1 DEF WantStep
  <2>2. CASE c \in Cpus
    <3>1. RespValid(c) BY <1>8, <2>2, CpuKeepsWaiting
    <3>2. Takes(c, full, start) BY <1>8, <2>2, <3>1 DEF Takes, Cpus
    <3>3. c = served BY <3>2, TakerIsServed
    <3>4. delivered'.to = c BY <1>4, <3>2, <3>3, Delivery
    <3> QED BY <1>3, <1>8, <3>4 DEF WantStep
  <2> QED BY <2>1, <2>2 DEF Clients
<1>9. CASE Client(c)'.phase # "wait" /\ Client(c).phase # "wait"
  BY <1>2, <1>3, <1>5, <1>9 DEF WantStep, Takes
<1> QED BY <1>6, <1>7, <1>8, <1>9

ServeStep  == /\ serving = "nobody" /\ serving' \in Clients /\ busLine' \in Lines
              /\ serving' \in Cpus => want'[serving'] = busLine'
              /\ replies' = NoReplies /\ delivered' = NoDelivery
ListenStep == /\ serving # "nobody"
              /\ \A k \in Caches : \/ replies'[k] = replies[k]
                                   \/ replies[k] = NoReply /\ replies'[k] \in Answers
              /\ delivered' = NoDelivery /\ serving' = serving /\ busLine' = busLine
FinishStep == /\ serving # "nobody" /\ \A k \in Caches : replies[k] # NoReply
              /\ serving' = "nobody"
              /\ \/ /\ want[serving] = busLine
                    /\ delivered' = [to |-> serving, answer |-> Merge(replies)]
                 \/ serving \in Engines /\ delivered' = NoDelivery
              /\ busLine' = busLine /\ replies' = replies
RestStep   == /\ delivered' = NoDelivery
              /\ serving' = serving /\ busLine' = busLine /\ replies' = replies

\* Without a grant the bus keeps its line, the client served stays, and the
\* replies grow by the responses that arrive.
LEMMA QuietStep ==
  ASSUME NEW safe, NEW finish, NEW full, NEW softRst, NEW start, FabricInv, ~Grant,
         Cycle(safe, finish, full, softRst, start)
  PROVE  /\ busLine' = busLine /\ served' = served
         /\ arbWait' <=> arbWait /\ ~UpRespValid
         /\ replies' = [k \in Caches |-> IF CacheRespValid(k) THEN cacheResp[k] ELSE replies[k]]
BY DEF Cycle, History, ArbCycle, ArbGrant, ArbRespond, ArbHold, arbVars, BusCycle, BusIdle, BusTake,
       BusSend, BusCollect, BusDeliver, Grant, ReqReady

LEMMA ServiceSteps ==
  ASSUME NEW safe, NEW finish, NEW full \in BOOLEAN, NEW softRst, NEW start \in BOOLEAN, RefineInv,
         RefineInv', Cycle(safe, finish, full, softRst, start)
  PROVE  ServeStep \/ ListenStep \/ FinishStep \/ RestStep
<1> USE DEF RefineInv
<1>1. History(full, start) BY DEF Cycle
<1>2. served \in Clients /\ served' \in Clients /\ "nobody" \notin Clients
  BY DEF FabricInv, TypeInv, TypeOK, Clients, Cpus, Engines
<1>3. CASE Grant
  <2>1. ~arbWait /\ arbWait' /\ served' = Granted
    BY <1>1, <1>3 DEF Cycle, ArbCycle, ArbGrant, ArbRespond, ArbHold, Grant, ReqValid, History
  <2>2. delivered' = NoDelivery BY <1>1, <2>1, Delivery
  <2>3. replies' = NoReplies BY <1>1, <1>3 DEF History
  <2>4. ASSUME served' \in Cpus PROVE want'[served'] = busLine'
    <3>1. PICK c \in Cpus : c = served' BY <2>4
    <3>2. Client(c)'.phase = "wait" BY <2>1, <3>1 DEF CpuStays
    <3>3. WaitsWell(c)' /\ c \in Clients BY <3>1 DEF FabricInv, Waiting, Clients
    <3>4. busLine' = Client(c)'.line BY <3>1, <3>2, <3>3 DEF WaitsWell
    <3> QED BY <3>1, <3>2, <3>3, <3>4 DEF want
  <2>5. busLine' \in Lines BY DEF FabricInv, TypeInv, TypeOK
  <2> QED BY <1>2, <2>1, <2>2, <2>3, <2>4, <2>5 DEF ServeStep, serving
<1>4. CASE ~Grant /\ ~arbWait
  <2>1. delivered' = NoDelivery BY <1>1, <1>4, Delivery
  <2>2. \A k \in Caches : ~CacheRespValid(k)
    BY <1>4 DEF FabricInv, Pairing, Snooping, SnoopsWell
  <2>3. replies' = replies BY <1>4, <2>2, QuietStep DEF FabricInv, TypeInv, TypeOK
  <2> QED BY <1>4, <2>1, <2>3, QuietStep DEF RestStep, serving
<1>5. CASE ~Grant /\ arbWait /\ ~UpRespValid
  <2>1. delivered' = NoDelivery BY <1>1, <1>5, Delivery
  <2>2. ASSUME NEW k \in Caches
        PROVE  replies'[k] = replies[k] \/ (replies[k] = NoReply /\ replies'[k] \in Answers)
    <3>1. HearsWell(k) /\ SnoopsWell(k) BY DEF Heard, FabricInv, Snooping
    <3>2. busState # "idle" BY <1>5 DEF FabricInv, Pairing
    <3>3. replies'[k] = IF CacheRespValid(k) THEN cacheResp[k] ELSE replies[k]
      BY <1>5, QuietStep
    <3>4. CacheRespValid(k) => cacheResp[k] \in Answers BY RespIsAnswer DEF FabricInv
    <3> QED BY <3>1, <3>2, <3>3, <3>4 DEF HearsWell, SnoopsWell
  <2> QED BY <1>2, <1>5, <2>1, <2>2, QuietStep DEF ListenStep, serving
<1>6. CASE ~Grant /\ arbWait /\ UpRespValid
  <2>1. \A k \in Caches : ~CacheRespValid(k)
    BY <1>6 DEF FabricInv, Pairing, Snooping, SnoopsWell
  <2>2. replies' = replies BY <1>6, <2>1, QuietStep DEF FabricInv, TypeInv, TypeOK
  <2>3. CASE Takes(served, full, start)
    <3>1. want[served] = busLine BY <1>2, <2>3, TakerIsServed DEF want
    <3>2. delivered' = [to |-> served, answer |-> upResp] BY <1>1, <1>2, <2>3, Delivery
    <3> QED BY <1>2, <1>6, <2>2, <3>1, <3>2, QuietStep DEF FinishStep, serving, Complete
  <2>4. CASE ~Takes(served, full, start)
    <3>1. delivered' = NoDelivery BY <1>1, <2>4, Delivery
    <3>2. served \in Engines
      <4> SUFFICES ASSUME served \in Cpus PROVE FALSE BY <1>2 DEF Clients
      <4>1. Client(served).phase = "wait" BY <1>6 DEF CpuStays
      <4>2. RespValid(served) BY <1>6, CpuResponse DEF FabricInv
      <4> QED BY <2>4, <4>1, <4>2 DEF Takes, Cpus
    <3> QED BY <1>2, <1>6, <2>2, <3>1, <3>2, QuietStep DEF FinishStep, serving, Complete
  <2> QED BY <2>3, <2>4
<1> QED BY <1>3, <1>4, <1>5, <1>6

LEMMA ServiceInit == Init => Service!Init
<1> SUFFICES ASSUME Init PROVE Service!Init OBVIOUS
<1>1. ~arbWait /\ busLine \in Lines /\ replies = NoReplies /\ delivered = NoDelivery BY DEF Init
<1>2. \A c \in Clients : Client(c).phase # "wait"
  BY DEF Init, Client, Quiet, Clients, Cpus, Engines
<1> QED BY <1>1, <1>2 DEF Service!Init, Service!Nobody, Service!NoReplies, Service!NoReply,
           Service!NoDelivery, Service!NoLine, Service!Clients, NoReplies, NoReply, NoDelivery,
           NoLine, Clients

LEMMA ServiceNext == RefineInv /\ RefineInv' /\ [Next]_vars => [Service!Next]_(Service!serviceVars)
<1> SUFFICES ASSUME RefineInv, RefineInv', [Next]_vars
             PROVE  [Service!Next]_(Service!serviceVars)
  OBVIOUS
<1>1. CASE Next
  <2>1. PICK safe, finish \in SUBSET Caches, full, softRst, start \in BOOLEAN :
               Cycle(safe, finish, full, softRst, start)
    BY <1>1, NextIsCycle
  <2>2. \A c \in Clients : WantStep(c) BY <2>1, WantSteps DEF RefineInv
  <2>3. Service!WantsChange
    BY <2>2 DEF Service!WantsChange, Service!Clients, Service!NoLine, Service!Nobody, WantStep, want,
                serving, NoLine, Clients
  <2>4. ServeStep => Service!Serve
    BY DEF ServeStep, Service!Serve, Service!Nobody, Service!NoReplies, Service!NoReply,
           Service!NoDelivery, Service!Clients, want, serving, NoReplies, NoReply, NoDelivery, Clients
  <2>5. ListenStep => Service!Listen
    BY DEF ListenStep, Service!Listen, Service!Nobody, Service!NoReply, Service!NoDelivery,
           Service!Answers, serving, NoReply, NoDelivery, Answers
  <2>6. FinishStep => Service!Finish
    BY DEF FinishStep, Service!Finish, Service!Nobody, Service!NoReply, Service!NoDelivery,
           Service!Merge, Merge, want, serving, NoReply, NoDelivery
  <2>7. RestStep => Service!Rest
    BY DEF RestStep, Service!Rest, Service!Nobody, Service!NoDelivery, serving, NoDelivery
  <2>8. ServeStep \/ ListenStep \/ FinishStep \/ RestStep BY <2>1, ServiceSteps
  <2> QED BY <2>3, <2>4, <2>5, <2>6, <2>7, <2>8 DEF Service!Next
<1>2. CASE UNCHANGED vars
  BY <1>2 DEF vars, clientVars, arbVars, busVars, history, Service!serviceVars, Client
<1> QED BY <1>1, <1>2

\* The fabric implements the service: one request at a time, every cache asked
\* once, the merged answer to the client that asked and to nobody else.
THEOREM FabricImplementsService == Spec => Implements
<1>1. Spec => []RefineInv BY RefineInvInit, RefineInvNext, PTL DEF Spec
<1> QED BY <1>1, ServiceInit, ServiceNext, PTL DEF Spec, Implements, Service!Spec
=============================================================================
