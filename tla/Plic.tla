-------------------------------- MODULE Plic --------------------------------
(***************************************************************************)
(* The platform-level interrupt controller, plic/plic_top.v: a gateway per *)
(* source, the priority encoder, and the register file behind an AXI slave *)
(* whose claim register is read to take an interrupt and written to        *)
(* complete it.  One step is one cycle of the clock.                       *)
(*                                                                         *)
(* The environment is the peripherals, whose interrupt lines are sticky    *)
(* (plic_gateway.v:15-17): a line falls only while its interrupt is being  *)
(* handled; and the masters, which read the claim register at any time,    *)
(* complete only what they hold, and change the configuration.  Claims are *)
(* read by a hart, whose device accesses go one at a time: no write is     *)
(* under way while it claims.  With ClaimsUndisturbed no line rises in the *)
(* one cycle in which that changes claim_id under a claim.                 *)
(***************************************************************************)
EXTENDS Naturals

CONSTANTS
  NumSrc,        \* sources 1 .. NumSrc; 0 is "none"
  MaxPrio,       \* priorities 0 .. MaxPrio
  ConfigWrites,  \* the configuration writes the software makes
  ClaimsUndisturbed  \* TRUE: no line rises where it changes claim_id under a claim

Sources  == 1 .. NumSrc
Ids      == 0 .. NumSrc
Prios    == 0 .. MaxPrio
Configs  == {<<"prio", s, v>> : s \in Sources, v \in Prios}
            \cup {<<"enable", e>> : e \in SUBSET Sources}
            \cup {<<"threshold", v>> : v \in Prios}
Writes   == Configs \cup {<<"complete", id>> : id \in Ids}
NoWrite  == <<"none">>

ASSUME PlicConstants ==
  /\ NumSrc \in Nat \ {0} /\ MaxPrio \in Nat
  /\ ConfigWrites \subseteq Configs
  /\ ClaimsUndisturbed \in BOOLEAN

VARIABLES
  irq,                      \* irq_src, the lines of the peripherals
  pending, inService,       \* per gateway: pending_r, in_service
  prio, enable, threshold,  \* prio_r, enable_r, threshold_r
  write,                    \* the write the master has under way, or NoWrite
  awDone, wDone, bvalid,    \* its progress: aw_done, w_done, bvalid_r
  completePulse, completeId,
  read,                     \* what the master reads: "claim", "other" or "none"
  arDone, arDoneD1, rvalid, rdata,
  claimPulse,
  held                      \* history: the interrupts software took and has not completed

lines    == <<irq>>
gateways == <<pending, inService>>
config   == <<prio, enable, threshold>>
writing  == <<write, awDone, wDone, bvalid, completePulse, completeId>>
reading  == <<read, arDone, arDoneD1, rvalid, rdata, claimPulse>>
vars == <<lines, gateways, config, writing, reading, held>>

(***************************************************************************)
(* plic_priority_encoder: the forward scan.  A source displaces the winner *)
(* so far only with a strictly higher priority.                            *)
(***************************************************************************)
Eligible(s) == pending[s] /\ s \in enable /\ prio[s] > threshold

BeatsOrTies(s, best) == prio[s] >= best.prio                          \* a mutant
Beats(s, best) == prio[s] > best.prio
Winner[i \in Ids] ==
  IF i = 0 THEN [id |-> 0, prio |-> 0]
  ELSE IF Eligible(i) /\ Beats(i, Winner[i - 1]) THEN [id |-> i, prio |-> prio[i]]
  ELSE Winner[i - 1]
ClaimIdOffByOne == Winner[NumSrc].id + 1                              \* a mutant
ClaimId == Winner[NumSrc].id
Meip    == ClaimId # 0

(***************************************************************************)
(* plic_gateway, one per source.                                           *)
(***************************************************************************)
ClaimAny(s)    == claimPulse                                          \* a mutant
CompleteAny(s) == completePulse                                       \* a mutant
Claim(s)    == claimPulse /\ ClaimId = s
Complete(s) == completePulse /\ completeId = s
GatewayForgets ==                                                     \* a mutant
  /\ pending' = [s \in Sources |-> (irq[s] \/ pending[s]) /\ ~Claim(s)]
  /\ inService' = [s \in Sources |-> IF Complete(s) THEN FALSE ELSE inService[s] \/ Claim(s)]
GatewayCycle ==
  /\ pending' = [s \in Sources |-> IF irq[s] /\ ~inService[s] /\ ~Claim(s) THEN TRUE
                                   ELSE pending[s] /\ ~Claim(s)]
  /\ inService' = [s \in Sources |-> IF Complete(s) THEN FALSE ELSE inService[s] \/ Claim(s)]

(***************************************************************************)
(* The write side of plic_regfile.  Address and data arrive in any order.  *)
(***************************************************************************)
WriteExec == awDone /\ wDone /\ ~bvalid

\* The master starts a write; address and data arrive in this cycle or later.
Master == ConfigWrites \cup {<<"complete", id>> : id \in held}
WriteStart == /\ write = NoWrite
              /\ read # "claim"
              /\ write' \in Master
              /\ awDone' \in BOOLEAN /\ wDone' \in BOOLEAN
              /\ UNCHANGED bvalid
WriteNone == write = NoWrite /\ UNCHANGED <<write, awDone, wDone, bvalid>>
WriteArrive == /\ write # NoWrite /\ ~(awDone /\ wDone)
               /\ \E aw, w \in BOOLEAN : awDone' = (awDone \/ aw) /\ wDone' = (wDone \/ w)
               /\ UNCHANGED <<write, bvalid>>
WriteRespond == WriteExec /\ bvalid' = TRUE /\ UNCHANGED <<write, awDone, wDone>>
WriteWait == bvalid /\ UNCHANGED <<write, awDone, wDone, bvalid>>     \* bready low
WriteEnd == /\ bvalid
            /\ write' = NoWrite /\ awDone' = FALSE /\ wDone' = FALSE /\ bvalid' = FALSE
WriteCycle == WriteStart \/ WriteNone \/ WriteArrive \/ WriteRespond \/ WriteWait \/ WriteEnd

Sets(reg) == WriteExec /\ write[1] = reg
ConfigCycle ==
  /\ prio' = IF Sets("prio") THEN [prio EXCEPT ![write[2]] = write[3]] ELSE prio
  /\ enable' = IF Sets("enable") THEN write[2] ELSE enable
  /\ threshold' = IF Sets("threshold") THEN write[2] ELSE threshold
  /\ completePulse' = Sets("complete")
  /\ completeId' = IF Sets("complete") THEN write[2] ELSE completeId

(***************************************************************************)
(* The read side.  rdata is latched two cycles after the address, and the  *)
(* claim pulse is a register set in the cycle that latches it: the         *)
(* gateways see it one cycle later.                                        *)
(***************************************************************************)
Latch == arDoneD1 /\ ~rvalid
ReadNone  == read = "none" /\ UNCHANGED <<read, arDone, rvalid, rdata>>
ReadStart == /\ read = "none"
             /\ read' \in {"claim", "other"} /\ arDone' = TRUE
             /\ read' = "claim" => write = NoWrite /\ write' = NoWrite
             /\ UNCHANGED <<rvalid, rdata>>
ReadPipe  == arDone /\ ~arDoneD1 /\ ~rvalid /\ UNCHANGED <<read, arDone, rvalid, rdata>>
ReadLatch == /\ Latch
             /\ rvalid' = TRUE
             /\ rdata' = IF read = "claim" THEN ClaimId ELSE 0
             /\ UNCHANGED <<read, arDone>>
ReadWait  == rvalid /\ UNCHANGED <<read, arDone, rvalid, rdata>>     \* rready low
ReadEnd   == /\ rvalid
             /\ read' = "none" /\ arDone' = FALSE /\ rvalid' = FALSE
             /\ UNCHANGED rdata
ReadCycleLate ==                                                      \* a mutant
  /\ ReadNone \/ ReadStart \/ ReadPipe \/ ReadLatch \/ ReadWait \/ ReadEnd
  /\ arDoneD1' = (arDone /\ ~rvalid)
  /\ claimPulse' = (rvalid /\ ~claimPulse /\ read = "claim")
ReadCycle == /\ ReadNone \/ ReadStart \/ ReadPipe \/ ReadLatch \/ ReadWait \/ ReadEnd
             /\ arDoneD1' = (arDone /\ ~rvalid)
             /\ claimPulse' = (Latch /\ read = "claim")

(***************************************************************************)
(* The peripherals, and what software holds.                               *)
(***************************************************************************)
LineCycle == \E up, down \in SUBSET Sources :
  /\ up \subseteq {s \in Sources : ~irq[s]} /\ down \subseteq {s \in held : irq[s]}
  /\ ClaimsUndisturbed /\ read = "claim" /\ ~arDoneD1 /\ ~rvalid => up = {}
  /\ irq' = [s \in Sources |-> (irq[s] \/ s \in up) /\ s \notin down]

Takes == rvalid /\ ~rvalid' /\ read = "claim" /\ rdata # 0
HeldCycle == held' = (IF Takes THEN held \cup {rdata} ELSE held)
                     \ (IF completePulse THEN {completeId} ELSE {})

Init == /\ irq = [s \in Sources |-> FALSE]
        /\ pending = [s \in Sources |-> FALSE] /\ inService = [s \in Sources |-> FALSE]
        /\ prio = [s \in Sources |-> 0] /\ enable = {} /\ threshold = 0
        /\ write = NoWrite /\ awDone = FALSE /\ wDone = FALSE /\ bvalid = FALSE
        /\ completePulse = FALSE /\ completeId = 0
        /\ read = "none" /\ arDone = FALSE /\ arDoneD1 = FALSE /\ rvalid = FALSE /\ rdata = 0
        /\ claimPulse = FALSE
        /\ held = {}

Next == /\ LineCycle
        /\ GatewayCycle
        /\ WriteCycle /\ ConfigCycle
        /\ ReadCycle
        /\ HeldCycle

Spec == Init /\ [][Next]_vars

(***************************************************************************)
(* Fairness: the clock runs; the interrupt handler reads the claim         *)
(* register while meip is high, the master ends its reads and writes, and  *)
(* what was claimed is completed.                                          *)
(***************************************************************************)
\* A system that rests for ever does so in a state that a cycle may leave unchanged.
ClockRuns == []<><<TRUE>>_vars \/ []<>ENABLED (UNCHANGED vars /\ Next)
Fairness == /\ ClockRuns
            /\ []<>(~Meip \/ read = "claim")
            /\ []<>~rvalid /\ []<>(write = NoWrite)
            /\ \A s \in Sources : []<>(s \notin held)
FairSpec == Spec /\ Fairness

(***************************************************************************)
(* Properties.                                                             *)
(***************************************************************************)
\* Every register holds one of its values.
TypeOK ==
  /\ irq \in [Sources -> BOOLEAN]
  /\ pending \in [Sources -> BOOLEAN] /\ inService \in [Sources -> BOOLEAN]
  /\ prio \in [Sources -> Prios] /\ enable \in SUBSET Sources /\ threshold \in Prios
  /\ write \in Writes \cup {NoWrite}
  /\ awDone \in BOOLEAN /\ wDone \in BOOLEAN /\ bvalid \in BOOLEAN
  /\ completePulse \in BOOLEAN /\ completeId \in Ids
  /\ read \in {"none", "claim", "other"}
  /\ arDone \in BOOLEAN /\ arDoneD1 \in BOOLEAN /\ rvalid \in BOOLEAN /\ rdata \in Ids
  /\ claimPulse \in BOOLEAN
  /\ held \in SUBSET Sources

\* The scan finds the eligible source with the highest priority, the lowest
\* numbered one of several, and 0 only when no source is eligible.
ScanIsArbitration ==
  IF \E s \in Sources : Eligible(s)
  THEN /\ ClaimId \in Sources /\ Eligible(ClaimId)
       /\ \A s \in Sources : Eligible(s) =>
            (prio[s] < prio[ClaimId] \/ (prio[s] = prio[ClaimId] /\ ClaimId <= s))
  ELSE ClaimId = 0

\* A source being served does not interrupt again before it is completed.
NotPendingInService == \A s \in Sources : ~(pending[s] /\ inService[s])

\* The gateway that a claim takes is the one whose number software reads.
ClaimMatches == claimPulse => ClaimId = rdata

\* What software holds is in service, so that no interrupt is handed out a
\* second time before it is completed.
HeldIsInService == \A s \in held : inService[s]

\* A line that is high is served: never is the interrupt that the
\* configuration favours high for ever without software holding it.
Favoured(s) == /\ s \in enable /\ prio[s] > threshold
               /\ \A t \in Sources \ {s} : prio[t] < prio[s] \/ (prio[t] = prio[s] /\ s < t)
FavouredServed == \A s \in Sources : []<>~(irq[s] /\ Favoured(s) /\ s \notin held)
=============================================================================
