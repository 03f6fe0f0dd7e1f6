----------------------------- MODULE Plic_proofs ----------------------------
(***************************************************************************)
(* Proofs about Plic, for every number of sources and priorities and every *)
(* configuration: what the gateways promise whatever the arbitration       *)
(* answers; what the scan of the priority encoder computes, by induction   *)
(* on the number of sources it has looked at; and, if no line rises in the *)
(* cycle in which that disturbs a claim, what the claims amount to.        *)
(***************************************************************************)
EXTENDS Plic, TLAPS, WellFoundedInduction

-----------------------------------------------------------------------------
\* The gateways' registers alone: what GatewayCycle keeps.
GatewayInv == /\ pending \in [Sources -> BOOLEAN]
              /\ inService \in [Sources -> BOOLEAN]
              /\ NotPendingInService

LEMMA GatewaysStart == Init => GatewayInv
BY DEF Init, GatewayInv, NotPendingInService

\* A cycle of the gateways keeps them apart: an interrupt becomes pending
\* only while it is not in service, and a claim that puts it in service
\* clears it.
LEMMA GatewaysStep == GatewayInv /\ GatewayCycle => GatewayInv'
<1> SUFFICES ASSUME GatewayInv, GatewayCycle PROVE GatewayInv'
  OBVIOUS
<1>1. pending' \in [Sources -> BOOLEAN] /\ inService' \in [Sources -> BOOLEAN]
  <2>1. \A s \in Sources : Claim(s) \in BOOLEAN /\ Complete(s) \in BOOLEAN
    BY DEF Claim, Complete
  <2>2. pending' \in [Sources -> BOOLEAN]
    BY <2>1 DEF GatewayCycle, GatewayInv
  <2>3. inService' \in [Sources -> BOOLEAN]
    BY <2>1 DEF GatewayCycle, GatewayInv
  <2> QED BY <2>2, <2>3
<1>2. ASSUME NEW s \in Sources, pending'[s], inService'[s] PROVE FALSE
  <2>1. ~(pending[s] /\ inService[s])
    BY DEF GatewayInv, NotPendingInService
  <2>2. ~Claim(s)
    BY <1>2 DEF GatewayCycle
  <2>3. inService[s]
    BY <1>2, <2>2 DEF GatewayCycle
  <2>4. pending[s]
    BY <1>2, <2>2, <2>3 DEF GatewayCycle
  <2> QED BY <2>1, <2>3, <2>4
<1> QED BY <1>1, <1>2 DEF GatewayInv, NotPendingInService

\* No source is pending while it is in service, whatever the configuration,
\* the order of claims and completions, and the claim race (plic_gateway.v).
THEOREM ServedOnce == Spec => []NotPendingInService
<1>1. GatewayInv /\ [Next]_vars => GatewayInv'
  <2> SUFFICES ASSUME GatewayInv, [Next]_vars PROVE GatewayInv'
    OBVIOUS
  <2>1. CASE Next
    BY <2>1, GatewaysStep DEF Next
  <2>2. CASE UNCHANGED vars
    BY <2>2 DEF vars, gateways, GatewayInv, NotPendingInService
  <2> QED BY <2>1, <2>2
<1>2. GatewayInv => NotPendingInService
  BY DEF GatewayInv
<1> QED BY GatewaysStart, <1>1, <1>2, PTL DEF Spec

-----------------------------------------------------------------------------
(***************************************************************************)
(* The scan.  Induction on the sources is the choice of a least number     *)
(* for which the claim fails.                                              *)
(***************************************************************************)
LEMMA LeastElement ==
  ASSUME NEW T \in SUBSET Nat, T # {}
  PROVE  \E x \in T : \A y \in T : x <= y
<1> DEFINE R == {p \in Nat \X Nat : p[1] < p[2]}
<1>1. IsWellFoundedOn(R, Nat)
  BY NatLessThanWellFounded DEF OpToRel
<1> HIDE DEF R
<1>2. PICK x \in T : \A y \in T : <<y, x>> \notin R
  BY <1>1, WFMin
<1>3. \A y \in T : ~(y < x)
  BY <1>2 DEF R
<1> QED BY <1>3

\* The scan of the sources 1 .. n, step by step.
Nothing      == [id |-> 0, prio |-> 0]
Step(i, w)   == IF Eligible(i) /\ Beats(i, w) THEN [id |-> i, prio |-> prio[i]] ELSE w
IsScan(f, n) == f = [i \in 0 .. n |-> IF i = 0 THEN Nothing ELSE Step(i, f[i - 1])]

\* A scan of n sources is one of n - 1 sources and a step.
LEMMA ScanExists == \A n \in Nat : \E f : IsScan(f, n)
<1> DEFINE T == {n \in Nat : ~\E f : IsScan(f, n)}
<1> SUFFICES ASSUME T # {} PROVE FALSE
  OBVIOUS
<1>1. PICK n \in T : \A y \in T : n <= y
  BY LeastElement, Zenon
<1>2. ASSUME n = 0 PROVE FALSE
  <2>1. IsScan([i \in 0 .. 0 |-> Nothing], 0)
    BY DEF IsScan
  <2> QED BY <1>1, <1>2, <2>1
<1>3. ASSUME n # 0 PROVE FALSE
  <2>1. n \in Nat /\ n - 1 \in Nat /\ n - 1 \notin T
    BY <1>1, <1>3
  <2>2. PICK f : IsScan(f, n - 1)
    BY <2>1
  <2>3. DOMAIN f = 0 .. (n - 1)
        /\ \A j \in 0 .. (n - 1) : f[j] = IF j = 0 THEN Nothing ELSE Step(j, f[j - 1])
    <3> DEFINE F(j) == IF j = 0 THEN Nothing ELSE Step(j, f[j - 1])
    <3>1. f = [j \in 0 .. (n - 1) |-> F(j)]
      BY <2>2 DEF IsScan
    <3> HIDE DEF F
    <3>2. DOMAIN f = 0 .. (n - 1) /\ \A j \in 0 .. (n - 1) : f[j] = F(j)
      BY <3>1
    <3> QED BY <3>2 DEF F
  <2> DEFINE g == [i \in 0 .. n |-> IF i = n THEN Step(n, f[n - 1]) ELSE f[i]]
  <2>4. \A i \in 0 .. n : g[i] = IF i = 0 THEN Nothing ELSE Step(i, g[i - 1])
    <3> TAKE i \in 0 .. n
    <3>1. CASE i = 0
      BY <2>3, <3>1, <2>1, <1>3
    <3>2. CASE i = n
      BY <2>3, <3>2, <2>1, <1>3
    <3>3. CASE i # 0 /\ i # n
      BY <2>3, <3>3, <2>1, <1>3
    <3> QED BY <3>1, <3>2, <3>3
  <2>5. IsScan(g, n)
    BY <2>4 DEF IsScan
  <2> QED BY <1>1, <2>5
<1> QED BY <1>2, <1>3

LEMMA WinnerScans == \A i \in Ids : Winner[i] = IF i = 0 THEN Nothing ELSE Step(i, Winner[i - 1])
<1>1. PICK f : IsScan(f, NumSrc)
  BY ScanExists, PlicConstants
<1>2. Winner = CHOOSE g : IsScan(g, NumSrc)
  BY DEF Winner, IsScan, Ids, Step, Nothing
<1>3. IsScan(Winner, NumSrc)
  BY <1>1, <1>2
<1> DEFINE W(i) == IF i = 0 THEN Nothing ELSE Step(i, Winner[i - 1])
<1>4. Winner = [i \in Ids |-> W(i)]
  BY <1>3 DEF IsScan, Ids
<1> HIDE DEF W
<1>5. \A i \in Ids : Winner[i] = W(i)
  BY <1>4
<1> QED BY <1>5 DEF W

\* The winner w among the sources 1 .. n: none, or one that no other beats.
BestOf(w, n) ==
  /\ w.id \in 0 .. n
  /\ w.id = 0 => w.prio = 0 /\ \A s \in 1 .. n : ~Eligible(s)
  /\ w.id # 0 => /\ Eligible(w.id) /\ w.prio = prio[w.id]
                 /\ \A s \in 1 .. n : Eligible(s) =>
                      prio[s] < w.prio \/ (prio[s] = w.prio /\ w.id <= s)

LEMMA StepKeepsBest ==
  ASSUME prio \in [Sources -> Nat], threshold \in Nat,
         NEW n \in Sources, NEW w, BestOf(w, n - 1)
  PROVE  BestOf(Step(n, w), n)
<1>1. n \in Nat \ {0} /\ 1 .. n \subseteq Sources /\ 1 .. n = 1 .. (n - 1) \cup {n}
  BY PlicConstants DEF Sources
<1>2. w.prio \in Nat /\ w.id \in 0 .. (n - 1)
  BY <1>1 DEF BestOf
<1>3. CASE Eligible(n) /\ Beats(n, w)
  <2> DEFINE v == [id |-> n, prio |-> prio[n]]
  <2>1. Step(n, w) = v
    BY <1>3 DEF Step
  <2>2. \A s \in 1 .. (n - 1) : Eligible(s) => prio[s] < prio[n]
    BY <1>1, <1>2, <1>3 DEF BestOf, Beats
  <2>3. BestOf(v, n)
    BY <1>1, <1>3, <2>2 DEF BestOf
  <2> QED BY <2>1, <2>3
<1>4. CASE ~(Eligible(n) /\ Beats(n, w))
  <2>1. Step(n, w) = w
    BY <1>4 DEF Step
  <2>2. Eligible(n) => w.id # 0 /\ prio[n] <= w.prio
    BY <1>1, <1>2, <1>4 DEF BestOf, Beats, Eligible
  <2>3. BestOf(w, n)
    BY <1>1, <1>2, <2>2 DEF BestOf
  <2> QED BY <2>1, <2>3
<1> QED BY <1>3, <1>4

LEMMA WinnerIsBest ==
  ASSUME prio \in [Sources -> Nat], threshold \in Nat
  PROVE  BestOf(Winner[NumSrc], NumSrc)
<1> DEFINE T == {n \in Ids : ~BestOf(Winner[n], n)}
<1>0. NumSrc \in Ids /\ Ids \subseteq Nat /\ 0 \in Ids
  BY PlicConstants DEF Ids
<1> SUFFICES ASSUME T # {} PROVE FALSE
  BY <1>0
<1>1. PICK n \in T : \A y \in T : n <= y
  BY <1>0, LeastElement, Zenon
<1>2. CASE n = 0
  <2>1. BestOf(Nothing, 0)
    BY DEF BestOf, Nothing
  <2> QED BY <1>0, <1>1, <1>2, <2>1, WinnerScans
<1>3. CASE n # 0
  <2>1. n \in Sources /\ n - 1 \in Ids /\ n - 1 \notin T
    BY <1>0, <1>1, <1>3 DEF Ids, Sources
  <2>2. Winner[n] = Step(n, Winner[n - 1])
    BY <1>1, <1>3, WinnerScans
  <2> QED BY <1>1, <2>1, <2>2, StepKeepsBest
<1> QED BY <1>2, <1>3

LEMMA ScanFinds ==
  ASSUME prio \in [Sources -> Nat], threshold \in Nat
  PROVE  ClaimId \in Ids /\ ScanIsArbitration
<1>1. BestOf(Winner[NumSrc], NumSrc) /\ NumSrc \in Nat
  BY WinnerIsBest, PlicConstants
<1>2. CASE ClaimId = 0
  BY <1>1, <1>2 DEF BestOf, ClaimId, ScanIsArbitration, Sources, Ids
<1>3. CASE ClaimId # 0
  BY <1>1, <1>3 DEF BestOf, ClaimId, ScanIsArbitration, Sources, Ids
<1> QED BY <1>2, <1>3

-----------------------------------------------------------------------------
(***************************************************************************)
(* Types.  The number that a read of the claim register latches is one of  *)
(* a source, or 0, because the scan says so.                               *)
(***************************************************************************)
LEMMA TypesStart == Init => TypeOK
<1> SUFFICES ASSUME Init PROVE TypeOK
  OBVIOUS
<1>1. 0 \in Prios /\ 0 \in Ids
  BY PlicConstants DEF Prios, Ids
<1>2. /\ irq \in [Sources -> BOOLEAN] /\ pending \in [Sources -> BOOLEAN]
      /\ inService \in [Sources -> BOOLEAN] /\ prio \in [Sources -> Prios]
  BY <1>1 DEF Init
<1> QED BY <1>1, <1>2 DEF Init, TypeOK

LEMMA TypesStep == TypeOK /\ [Next]_vars => TypeOK'
<1> SUFFICES ASSUME TypeOK, [Next]_vars PROVE TypeOK'
  OBVIOUS
<1>1. CASE UNCHANGED vars
  BY <1>1 DEF vars, lines, gateways, config, writing, reading, TypeOK
<1>2. CASE Next
  <2> USE <1>2 DEF Next
  <2>0. ClaimId \in Ids
    <3>1. prio \in [Sources -> Nat] /\ threshold \in Nat
      BY PlicConstants DEF TypeOK, Prios
    <3> QED BY <3>1, ScanFinds
  <2>1. irq' \in [Sources -> BOOLEAN]
    BY DEF LineCycle, TypeOK
  <2>2. pending' \in [Sources -> BOOLEAN] /\ inService' \in [Sources -> BOOLEAN]
    <3>1. \A s \in Sources : Claim(s) \in BOOLEAN /\ Complete(s) \in BOOLEAN
      BY DEF Claim, Complete
    <3>2. pending' \in [Sources -> BOOLEAN]
      BY <3>1 DEF GatewayCycle, TypeOK
    <3>3. inService' \in [Sources -> BOOLEAN]
      BY <3>1 DEF GatewayCycle, TypeOK
    <3> QED BY <3>2, <3>3
  <2>3. write' \in Writes \cup {NoWrite} /\ {awDone', wDone', bvalid'} \subseteq BOOLEAN
    <3>1. held \subseteq Ids /\ Master \subseteq Writes
      BY PlicConstants DEF TypeOK, Master, Writes, Sources, Ids
    <3>2. CASE WriteStart
      BY <3>1, <3>2 DEF WriteStart, TypeOK
    <3>3. CASE WriteNone \/ WriteArrive \/ WriteRespond \/ WriteWait \/ WriteEnd
      BY <3>3 DEF WriteNone, WriteArrive, WriteRespond, WriteWait, WriteEnd, TypeOK
    <3> QED BY <3>2, <3>3 DEF WriteCycle
  <2>4. /\ prio' \in [Sources -> Prios] /\ enable' \in SUBSET Sources /\ threshold' \in Prios
        /\ completePulse' \in BOOLEAN /\ completeId' \in Ids
    <3>1. write[1] = "prio" => write[2] \in Sources /\ write[3] \in Prios
      BY DEF TypeOK, Writes, Configs, NoWrite
    <3>2. write[1] = "enable" => write[2] \in SUBSET Sources
      BY DEF TypeOK, Writes, Configs, NoWrite
    <3>3. write[1] = "threshold" => write[2] \in Prios
      BY DEF TypeOK, Writes, Configs, NoWrite
    <3>4. write[1] = "complete" => write[2] \in Ids
      BY DEF TypeOK, Writes, Configs, NoWrite
    <3>5. prio' \in [Sources -> Prios]
      BY <3>1 DEF ConfigCycle, Sets, TypeOK
    <3>6. enable' \in SUBSET Sources /\ threshold' \in Prios
      BY <3>2, <3>3 DEF ConfigCycle, Sets, TypeOK
    <3>7. completePulse' \in BOOLEAN /\ completeId' \in Ids
      BY <3>4 DEF ConfigCycle, Sets, WriteExec, TypeOK
    <3> QED BY <3>5, <3>6, <3>7
  <2>5. /\ read' \in {"none", "claim", "other"} /\ {arDone', arDoneD1', rvalid', claimPulse'} \subseteq BOOLEAN
        /\ rdata' \in Ids
    <3>1. 0 \in Ids
      BY PlicConstants DEF Ids
    <3>2. arDoneD1' \in BOOLEAN /\ claimPulse' \in BOOLEAN
      BY DEF ReadCycle, Latch, TypeOK
    <3>3. CASE ReadNone \/ ReadStart \/ ReadPipe \/ ReadWait \/ ReadEnd
      BY <3>2, <3>3 DEF ReadNone, ReadStart, ReadPipe, ReadWait, ReadEnd, TypeOK
    <3>4. CASE ReadLatch
      BY <2>0, <3>1, <3>2, <3>4 DEF ReadLatch, TypeOK
    <3> QED BY <3>3, <3>4 DEF ReadCycle
  <2>6. held' \in SUBSET Sources
    BY PlicConstants DEF HeldCycle, Takes, TypeOK, Sources, Ids
  <2> QED BY <2>1, <2>2, <2>3, <2>4, <2>5, <2>6 DEF TypeOK
<1> QED BY <1>1, <1>2

\* Every register holds one of its values.
THEOREM TypeCorrect == Spec => []TypeOK
BY TypesStart, TypesStep, PTL DEF Spec

LEMMA TypesArbitrate == TypeOK => ScanIsArbitration
<1> SUFFICES ASSUME TypeOK PROVE ScanIsArbitration
  OBVIOUS
<1>1. prio \in [Sources -> Nat] /\ threshold \in Nat
  BY PlicConstants DEF TypeOK, Prios
<1> QED BY <1>1, ScanFinds

\* The priority encoder answers with the eligible source of the highest
\* priority, the lowest of several, for any number of sources
\* (plic_priority_encoder.v:60-84).
THEOREM EncoderArbitrates == Spec => []ScanIsArbitration
BY TypeCorrect, TypesArbitrate, PTL

-----------------------------------------------------------------------------
(***************************************************************************)
(* Claims.  The handshakes of the two sides say that no write is under way *)
(* while a hart claims, so that neither the configuration nor a completion *)
(* comes between; then a claim goes through three states.  Before rdata is *)
(* latched, every line that is up is pending already (Settled), so that    *)
(* arbitration answers the same in the next cycle, where the claim takes   *)
(* effect; and from then on the source is in service until it is completed *)
(* (Claimed).                                                              *)
(***************************************************************************)
Handshakes ==
  /\ write = NoWrite => ~awDone /\ ~wDone
  /\ bvalid => awDone
  /\ completePulse => bvalid
  /\ read = "none" => ~arDone
  /\ arDoneD1 => arDone
  /\ rvalid => arDone
  /\ claimPulse => rvalid /\ read = "claim"
  /\ read = "claim" => write = NoWrite
Settled ==
  read = "claim" /\ arDoneD1 /\ ~rvalid => \A s \in Sources : irq[s] /\ ~inService[s] => pending[s]
Claimed ==
  read = "claim" /\ rvalid /\ ~claimPulse /\ rdata # 0 => inService[rdata]
ClaimInv == Handshakes /\ Settled /\ ClaimMatches /\ Claimed /\ HeldIsInService

LEMMA ClaimsStart == Init => ClaimInv
BY DEF Init, ClaimInv, Handshakes, Settled, ClaimMatches, Claimed, HeldIsInService

LEMMA HandshakesStep ==
  ASSUME Handshakes, WriteCycle, ConfigCycle, ReadCycle
  PROVE  Handshakes'
<1>1. (write = NoWrite => ~awDone /\ ~wDone)' /\ (bvalid => awDone)'
  <2>1. CASE WriteStart
    <3>1. write' # NoWrite
      <4>1. \A w \in Configs : w[1] # "none"
        BY DEF Configs
      <4>2. \A w \in Master : w[1] # "none"
        BY <4>1, PlicConstants DEF Master
      <4> QED BY <2>1, <4>2 DEF WriteStart, NoWrite
    <3> QED BY <2>1, <3>1 DEF WriteStart, Handshakes
  <2>2. CASE WriteArrive
    BY <2>2 DEF WriteArrive, Handshakes
  <2>3. CASE WriteEnd
    BY <2>3 DEF WriteEnd, Handshakes
  <2>4. CASE WriteNone \/ WriteRespond \/ WriteWait
    BY <2>4 DEF WriteNone, WriteRespond, WriteExec, WriteWait, Handshakes
  <2> QED BY <2>1, <2>2, <2>3, <2>4 DEF WriteCycle
<1>2. (completePulse => bvalid)'
  BY DEF ConfigCycle, Sets, WriteExec, WriteCycle, WriteStart, WriteNone, WriteArrive, WriteRespond,
         WriteWait, WriteEnd, Handshakes
<1>3. (read = "none" => ~arDone)' /\ (rvalid => arDone)'
  BY DEF ReadCycle, ReadNone, ReadStart, ReadPipe, ReadLatch, Latch, ReadWait, ReadEnd, Handshakes
<1>4. (arDoneD1 => arDone)' /\ (claimPulse => rvalid /\ read = "claim")'
  BY DEF ReadCycle, ReadNone, ReadStart, ReadPipe, ReadLatch, Latch, ReadWait, ReadEnd, Handshakes
<1>5. (read = "claim" => write = NoWrite)'
  <2>1. CASE read = "claim"
    BY <2>1 DEF WriteCycle, WriteStart, WriteNone, WriteArrive, WriteRespond, WriteExec, WriteWait,
                WriteEnd, Handshakes
  <2>2. CASE read # "claim"
    BY <2>2 DEF ReadCycle, ReadNone, ReadStart, ReadPipe, ReadLatch, ReadWait, ReadEnd
  <2> QED BY <2>1, <2>2
<1> QED BY <1>1, <1>2, <1>3, <1>4, <1>5 DEF Handshakes

\* While a hart claims, nothing but lines and the claim itself changes what
\* the arbitration sees, and nothing is completed.
LEMMA QuietWhileClaiming ==
  ASSUME Handshakes, read = "claim", ConfigCycle
  PROVE  ~completePulse /\ UNCHANGED <<prio, enable, threshold>>
BY DEF Handshakes, ConfigCycle, Sets, WriteExec

\* Two arbitrations over the same registers answer the same.
LEMMA SameArbitration ==
  ASSUME TypeOK, ScanIsArbitration, ScanIsArbitration',
         UNCHANGED <<pending, prio, enable, threshold>>
  PROVE  ClaimId' = ClaimId
<1>1. \A s \in Sources : Eligible(s)' <=> Eligible(s)
  BY DEF Eligible
<1>2. Sources \subseteq Nat /\ \A s \in Sources : prio[s] \in Nat
  BY PlicConstants DEF TypeOK, Prios, Sources
<1>3. CASE ~\E s \in Sources : Eligible(s)
  BY <1>1, <1>3 DEF ScanIsArbitration
<1>4. CASE \E s \in Sources : Eligible(s)
  <2>1. /\ ClaimId \in Sources /\ Eligible(ClaimId)
        /\ \A s \in Sources : Eligible(s) =>
             prio[s] < prio[ClaimId] \/ (prio[s] = prio[ClaimId] /\ ClaimId <= s)
    BY <1>4 DEF ScanIsArbitration
  <2>2. /\ ClaimId' \in Sources /\ Eligible(ClaimId')
        /\ \A s \in Sources : Eligible(s) =>
             prio[s] < prio[ClaimId'] \/ (prio[s] = prio[ClaimId'] /\ ClaimId' <= s)
    BY <1>1, <1>4 DEF ScanIsArbitration
  <2> HIDE DEF ClaimId, Eligible
  <2>3. prio[ClaimId] = prio[ClaimId']
    BY <1>2, <2>1, <2>2
  <2> QED BY <1>2, <2>1, <2>2, <2>3
<1> QED BY <1>3, <1>4

LEMMA ClaimsStep ==
  ASSUME ClaimsUndisturbed, TypeOK, ScanIsArbitration, ScanIsArbitration', ClaimInv, Next
  PROVE  ClaimInv'
<1> USE DEF Next
<1>1. Handshakes'
  BY HandshakesStep DEF ClaimInv
\* The gateways keep what is in service, but for what is completed.
<1>2. \A s \in Sources : inService[s] /\ ~Complete(s) => inService'[s]
  BY DEF GatewayCycle, TypeOK
<1>3. Settled'
  <2> SUFFICES ASSUME (read = "claim" /\ arDoneD1 /\ ~rvalid)', NEW s \in Sources,
                      irq'[s], ~inService'[s]
               PROVE  pending'[s]
    BY DEF Settled
  <2>1. read = "claim" /\ arDone /\ ~arDoneD1 /\ ~rvalid
    BY DEF ClaimInv, Handshakes, ReadCycle, ReadNone, ReadStart, ReadPipe, ReadLatch, Latch,
           ReadWait, ReadEnd
  <2>2. irq[s]
    BY <2>1 DEF LineCycle, TypeOK
  <2>3. ~Complete(s)
    BY <2>1, QuietWhileClaiming DEF ClaimInv, Complete
  <2>4. ~inService[s]
    BY <1>2, <2>3
  <2>5. ~Claim(s)
    BY <2>1 DEF Claim, ClaimInv, Handshakes
  <2> QED BY <2>2, <2>4, <2>5 DEF GatewayCycle, TypeOK
<1>4. ClaimMatches'
  <2> SUFFICES ASSUME claimPulse' PROVE ClaimId' = rdata'
    BY DEF ClaimMatches
  <2>1. read = "claim" /\ arDoneD1 /\ ~rvalid
    BY DEF ReadCycle, Latch
  <2>2. rdata' = ClaimId
    BY <2>1 DEF ClaimInv, Handshakes, ReadCycle, ReadNone, ReadStart, ReadPipe, ReadLatch, Latch,
                ReadWait, ReadEnd
  <2>3. UNCHANGED <<prio, enable, threshold>>
    BY <2>1, QuietWhileClaiming DEF ClaimInv
  <2>4. \A s \in Sources : pending'[s] = pending[s]
    <3> TAKE s \in Sources
    <3>1. ~Claim(s)
      BY <2>1 DEF Claim, ClaimInv, Handshakes
    <3>2. irq[s] /\ ~inService[s] => pending[s]
      BY <2>1 DEF ClaimInv, Settled
    <3>3. pending[s] \in BOOLEAN
      BY DEF TypeOK
    <3> QED BY <3>1, <3>2, <3>3 DEF GatewayCycle
  <2>5. pending' = pending
    <3>1. pending' = [s \in Sources |-> pending'[s]]
      BY DEF GatewayCycle
    <3>2. pending = [s \in Sources |-> pending[s]]
      BY DEF TypeOK
    <3> QED BY <2>4, <3>1, <3>2
  <2> QED BY <2>2, <2>3, <2>5, SameArbitration
\* A claim puts what software read in service.
<1>5. claimPulse /\ rdata # 0 => inService'[rdata]
  <2> SUFFICES ASSUME claimPulse, rdata # 0 PROVE inService'[rdata]
    OBVIOUS
  <2>1. rdata \in Sources /\ Claim(rdata)
    BY DEF ClaimInv, ClaimMatches, Claim, TypeOK, Ids, Sources
  <2>2. ~Complete(rdata)
    BY QuietWhileClaiming DEF ClaimInv, Handshakes, Complete
  <2> QED BY <2>1, <2>2 DEF GatewayCycle
<1>6. read = "claim" /\ rvalid /\ rdata # 0 => inService'[rdata]
  <2> SUFFICES ASSUME read = "claim", rvalid, rdata # 0, ~claimPulse PROVE inService'[rdata]
    BY <1>5
  <2>1. rdata \in Sources /\ inService[rdata]
    BY DEF ClaimInv, Claimed, TypeOK, Ids, Sources
  <2>2. ~Complete(rdata)
    BY QuietWhileClaiming DEF ClaimInv, Complete
  <2> QED BY <1>2, <2>1, <2>2
<1>7. Claimed'
  <2> SUFFICES ASSUME (read = "claim" /\ rvalid /\ ~claimPulse /\ rdata # 0)'
               PROVE  inService'[rdata']
    BY DEF Claimed
  <2>1. read = "claim" /\ rvalid /\ rdata' = rdata
    BY DEF ReadCycle, ReadNone, ReadStart, ReadPipe, ReadLatch, Latch, ReadWait, ReadEnd,
           ClaimInv, Handshakes
  <2> QED BY <1>6, <2>1
<1>8. HeldIsInService'
  <2> SUFFICES ASSUME NEW s \in held' PROVE inService'[s]
    BY DEF HeldIsInService
  <2>1. CASE s \in held
    <3>1. s \in Sources /\ inService[s]
      BY <2>1 DEF ClaimInv, HeldIsInService, TypeOK
    <3>2. ~Complete(s)
      BY DEF HeldCycle, Complete
    <3> QED BY <1>2, <3>1, <3>2
  <2>2. CASE s \notin held
    <3>1. Takes /\ s = rdata
      BY <2>2 DEF HeldCycle
    <3> QED BY <1>6, <3>1 DEF Takes
  <2> QED BY <2>1, <2>2
<1> QED BY <1>1, <1>3, <1>4, <1>7, <1>8 DEF ClaimInv

LEMMA ClaimInvHolds == ASSUME ClaimsUndisturbed PROVE Spec => []ClaimInv
<1>1. /\ TypeOK /\ ScanIsArbitration /\ ScanIsArbitration' /\ ClaimInv /\ [Next]_vars
      => ClaimInv'
  <2> SUFFICES ASSUME TypeOK, ScanIsArbitration, ScanIsArbitration', ClaimInv, [Next]_vars
               PROVE  ClaimInv'
    OBVIOUS
  <2>1. CASE Next
    BY <2>1, ClaimsStep
  <2>2. CASE UNCHANGED vars
    BY <2>2 DEF vars, lines, gateways, config, writing, reading, ClaimInv, Handshakes, Settled,
                ClaimMatches, ClaimId, Winner, Eligible, Beats, Claimed, HeldIsInService
  <2> QED BY <2>1, <2>2
<1> QED BY ClaimsStart, TypeCorrect, EncoderArbitrates, <1>1, PTL DEF Spec

\* If no line rises in the one cycle in which that changes the arbitration
\* under a claim, the gateway a claim takes is the one software was told
\* (plic_regfile.v:237-250), however the configuration changes, and whatever
\* is completed, between claims.
THEOREM ClaimsMatch == ASSUME ClaimsUndisturbed PROVE Spec => []ClaimMatches
BY ClaimInvHolds, PTL DEF ClaimInv

\* Then what software holds is in service, and with ServedOnce it is not
\* handed out again before it is completed (plic_gateway.v:34-51).
THEOREM HeldStaysInService == ASSUME ClaimsUndisturbed PROVE Spec => []HeldIsInService
BY ClaimInvHolds, PTL DEF ClaimInv
=============================================================================
