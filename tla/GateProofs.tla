----------------------------- MODULE GateProofs -----------------------------
(* Proofs about Gate for any number of gates, cards, challenges and keys.    *)
EXTENDS Gate, SequenceTheorems, TLAPS

\* Removing an entry leaves a list of the same elements.
LEMMA RemoveAtType ==
  ASSUME NEW S, NEW s \in Seq(S), NEW i \in 1..Len(s)
  PROVE  RemoveAt(s, i) \in Seq(S)
<1>1. SubSeq(s, 1, i-1) \in Seq(S)
  <2>1. \A j \in 1..(i-1) : s[j] \in S
    OBVIOUS
  <2>2. QED BY <2>1
<1>2. SubSeq(s, i+1, Len(s)) \in Seq(S)
  <2>1. \A j \in (i+1)..Len(s) : s[j] \in S
    OBVIOUS
  <2>2. QED BY <2>1
<1>3. QED BY <1>1, <1>2 DEF RemoveAt

\* What the checks of an accepted presentation say about it.
LEMMA AcceptedCall ==
  ASSUME TypeOK, NEW g \in GateIds, NEW c \in Calls,
         gates[g] # NoGate, Accepts(gates[g], c, NowSeconds)
  PROVE  /\ gates[g] \in GateRecords
         /\ c.presented_r1 \in R1s
         /\ c.presented_r1 \notin gates[g].seen
         /\ [idi |-> c.idi, attested_at |-> c.attested_at] \in Claims
         /\ [idi |-> c.idi, attested_at |-> c.attested_at] \in ProvenClaims(c.presented_r1)
<1>1. gates[g] \in GateRecords
  BY DEF TypeOK
<1>2. c \in WireCalls
  BY ConstantsAssumption
<1>3. c.presented_r1 \in R1s /\ c.presented_r1 \notin gates[g].seen
  BY <1>2 DEF Accepts, ChallengeMatches, WireCalls
<1>4. c.idi \in Idis /\ c.attested_at \in Nat
  BY <1>2 DEF Accepts, WellFormed, WireCalls
<1>5. /\ c.proof # NoProof
      /\ Len(c.proof.inputs) = 3
      /\ c.proof.inputs[1].limb = c.idi
      /\ c.proof.inputs[2].limb = c.presented_r1
      /\ c.proof.inputs[3].limb = c.attested_at
  BY DEF Accepts, WellFormed, ChallengeMatches, EnvelopeConsistent, PairingHolds
<1>6. [idi |-> c.idi, attested_at |-> c.attested_at] \in ProvenClaims(c.presented_r1)
  BY <1>5 DEF ProvenClaims
<1>7. QED BY <1>1, <1>3, <1>4, <1>6 DEF Claims

-----------------------------------------------------------------------------
LEMMA TypeInit == Init => TypeOK
<1> SUFFICES ASSUME Init PROVE TypeOK
  OBVIOUS
<1>1. clock_ms \in 0..MaxClockMs /\ operators \subseteq Admins
  BY ConstantsAssumption DEF Init
<1>2. gates \in [GateIds -> GateRecords \cup {NoGate}]
  BY DEF Init
<1>3. receipts \in [GateIds -> [R1s -> Seq(Claims)]]
  BY DEF Init
<1>4. QED BY <1>1, <1>2, <1>3 DEF TypeOK

LEMMA TypeStep == TypeOK /\ [Next]_vars => TypeOK'
<1> SUFFICES ASSUME TypeOK, [Next]_vars PROVE TypeOK'
  OBVIOUS
<1>1. ASSUME NEW g \in GateIds, NEW c \in Calls, Verify(g, c) PROVE TypeOK'
  <2>1. /\ gates[g] \in GateRecords
        /\ c.presented_r1 \in R1s
        /\ [idi |-> c.idi, attested_at |-> c.attested_at] \in Claims
    BY <1>1, AcceptedCall DEF Verify
  <2>2. gates' \in [GateIds -> GateRecords \cup {NoGate}]
    <3>1. [gates[g] EXCEPT !.seen = @ \cup {c.presented_r1}] \in GateRecords
      BY <2>1 DEF GateRecords
    <3>2. QED BY <1>1, <3>1 DEF Verify, TypeOK
  <2>3. receipts' \in [GateIds -> [R1s -> Seq(Claims)]]
    <3>1. receipts[g][c.presented_r1] \in Seq(Claims)
      BY <2>1 DEF TypeOK
    <3>2. Append(receipts[g][c.presented_r1],
                 [idi |-> c.idi, attested_at |-> c.attested_at]) \in Seq(Claims)
      BY <2>1, <3>1
    <3>3. QED BY <1>1, <3>2 DEF Verify, TypeOK
  <2>4. QED BY <1>1, <2>2, <2>3 DEF Verify, TypeOK
<1>2. ASSUME NEW g \in GateIds, NEW vk \in Vks, NEW list \in InitLists, NEW drift \in Drifts,
             CreateGate(g, vk, list, drift)
      PROVE TypeOK'
  <2>1. [verifier_key |-> vk, seen |-> {}, allowlist |-> list,
         allow_any |-> (list = << >>), max_clock_drift_seconds |-> drift] \in GateRecords
    <3>1. list \in Seq(Idis)
      BY ConstantsAssumption
    <3>2. (list = << >>) \in BOOLEAN
      OBVIOUS
    <3>3. QED BY <3>1, <3>2 DEF GateRecords
  <2>2. QED BY <1>2, <2>1 DEF CreateGate, TypeOK
<1>3. ASSUME NEW g \in GateIds, NEW idi \in Idis, Allow(g, idi) PROVE TypeOK'
  <2>1. gates[g] \in GateRecords
    BY <1>3 DEF Allow, TypeOK
  <2>2. Append(gates[g].allowlist, idi) \in Seq(Idis)
    BY <2>1 DEF GateRecords
  <2>3. gates'[g] \in GateRecords
    BY <1>3, <2>1, <2>2 DEF Allow, TypeOK, GateRecords
  <2>4. gates' = [gates EXCEPT ![g] = gates'[g]]
    BY <1>3 DEF Allow, TypeOK
  <2>5. QED BY <1>3, <2>3, <2>4 DEF Allow, TypeOK
<1>4. ASSUME NEW g \in GateIds, NEW idi \in Idis, Disallow(g, idi) PROVE TypeOK'
  <2>1. gates[g] \in GateRecords
    BY <1>4 DEF Disallow, TypeOK
  <2>2. PICK i \in 1..Len(gates[g].allowlist) :
          gates' = [gates EXCEPT ![g].allowlist = RemoveAt(@, i)]
    BY <1>4 DEF Disallow
  <2>3. RemoveAt(gates[g].allowlist, i) \in Seq(Idis)
    BY <2>1, RemoveAtType DEF GateRecords
  <2>4. [gates[g] EXCEPT !.allowlist = RemoveAt(@, i)] \in GateRecords
    BY <2>1, <2>3 DEF GateRecords
  <2>5. QED BY <1>4, <2>2, <2>4 DEF Disallow, TypeOK
<1>5. ASSUME NEW g \in GateIds, NEW drift \in Drifts, SetMaxClockDrift(g, drift) PROVE TypeOK'
  <2>1. [gates[g] EXCEPT !.max_clock_drift_seconds = drift] \in GateRecords
    BY <1>5 DEF SetMaxClockDrift, TypeOK, GateRecords
  <2>2. QED BY <1>5, <2>1 DEF SetMaxClockDrift, TypeOK
<1>6. ASSUME NEW a \in Admins, GrantOperator(a) \/ RevokeOperator(a) PROVE TypeOK'
  BY <1>6 DEF GrantOperator, RevokeOperator, TypeOK
<1>7. CASE Tick
  BY <1>7, ConstantsAssumption DEF Tick, TypeOK
<1>8. CASE UNCHANGED vars
  BY <1>8 DEF vars, TypeOK
<1>9. QED
  BY <1>1, <1>2, <1>3, <1>4, <1>5, <1>6, <1>7, <1>8
  DEF Next, Payers, Administration, Roles

\* The state keeps its shape, for every deployment.
THEOREM TypeCorrect == Spec => []TypeOK
<1>1. Init => TypeOK
  BY TypeInit
<1>2. TypeOK /\ [Next]_vars => TypeOK'
  BY TypeStep
<1>3. QED BY <1>1, <1>2, PTL DEF Spec

-----------------------------------------------------------------------------
(* The dedup store and the receipts, challenge by challenge. With TypeOK,    *)
(* SeenMatchesReceipts is inductive: an accepted challenge was not in seen,  *)
(* so it has no receipt, and the step adds one of each.                      *)

LEMMA SeenInit == Init => SeenMatchesReceipts
BY DEF Init, SeenMatchesReceipts

\* A step that leaves every receipt, every dedup store and the set of created
\* gates alone keeps the two in agreement.
LEMMA SeenFrame ==
  ASSUME SeenMatchesReceipts, receipts' = receipts,
         \A g \in GateIds : gates'[g] # NoGate <=> gates[g] # NoGate,
         \A g \in GateIds : gates[g] # NoGate => gates'[g].seen = gates[g].seen
  PROVE  SeenMatchesReceipts'
BY DEF SeenMatchesReceipts

LEMMA SeenStep == TypeOK /\ SeenMatchesReceipts /\ [Next]_vars => SeenMatchesReceipts'
<1> SUFFICES ASSUME TypeOK, SeenMatchesReceipts, [Next]_vars PROVE SeenMatchesReceipts'
  OBVIOUS
<1>0. TypeOK'
  BY TypeStep
<1>1. ASSUME NEW g \in GateIds, NEW c \in Calls, Verify(g, c) PROVE SeenMatchesReceipts'
  <2>1. /\ gates[g] \in GateRecords
        /\ c.presented_r1 \in R1s
        /\ c.presented_r1 \notin gates[g].seen
    BY <1>1, AcceptedCall DEF Verify
  <2>2. gates'[g] # NoGate /\ gates'[g].seen = gates[g].seen \cup {c.presented_r1}
    <3>1. [gates[g] EXCEPT !.seen = @ \cup {c.presented_r1}] \in GateRecords
      BY <2>1 DEF GateRecords
    <3>2. gates'[g] = [gates[g] EXCEPT !.seen = @ \cup {c.presented_r1}]
      BY <1>1 DEF Verify, TypeOK
    <3>3. QED BY <2>1, <3>1, <3>2, NoGateAssumption DEF GateRecords
  <2>3. receipts[g][c.presented_r1] \in Seq(Claims) /\ Len(receipts[g][c.presented_r1]) = 0
    BY <1>1, <2>1 DEF SeenMatchesReceipts, TypeOK, Verify
  <2>4. Len(receipts'[g][c.presented_r1]) = 1
    BY <1>1, <2>1, <2>3 DEF Verify, TypeOK
  <2>5. \A r \in R1s : r # c.presented_r1 => receipts'[g][r] = receipts[g][r]
    BY <1>1, <2>1 DEF Verify, TypeOK
  <2>6. \A h \in GateIds : h # g => gates'[h] = gates[h] /\ receipts'[h] = receipts[h]
    BY <1>1 DEF Verify, TypeOK
  <2>7. ASSUME NEW r \in R1s
        PROVE Len(receipts'[g][r]) = IF gates'[g] # NoGate /\ r \in gates'[g].seen THEN 1 ELSE 0
    <3>1. CASE r = c.presented_r1
      BY <2>2, <2>4, <3>1, Zenon
    <3>2. CASE r # c.presented_r1
      <4>1. receipts'[g][r] = receipts[g][r]
        BY <2>5, <3>2
      <4>2. r \in gates'[g].seen <=> r \in gates[g].seen
        BY <2>2, <3>2
      <4>3. gates[g] # NoGate
        BY <1>1 DEF Verify
      <4>4. Len(receipts[g][r]) = IF r \in gates[g].seen THEN 1 ELSE 0
        BY <4>3 DEF SeenMatchesReceipts
      <4>5. QED BY <2>2, <4>1, <4>2, <4>4, Zenon
    <3>3. QED BY <3>1, <3>2
  <2>8. ASSUME NEW h \in GateIds, NEW r \in R1s, h # g
        PROVE Len(receipts'[h][r]) = IF gates'[h] # NoGate /\ r \in gates'[h].seen THEN 1 ELSE 0
    BY <2>6, <2>8 DEF SeenMatchesReceipts
  <2>9. QED BY <2>7, <2>8 DEF SeenMatchesReceipts
<1>2. ASSUME NEW g \in GateIds, NEW vk \in Vks, NEW list \in InitLists, NEW drift \in Drifts,
             CreateGate(g, vk, list, drift)
      PROVE SeenMatchesReceipts'
  <2>1. gates'[g].seen = {}
    BY <1>2 DEF CreateGate, TypeOK
  <2>2. \A r \in R1s : Len(receipts[g][r]) = 0
    BY <1>2 DEF CreateGate, SeenMatchesReceipts
  <2>3. \A h \in GateIds : h # g => gates'[h] = gates[h]
    BY <1>2 DEF CreateGate, TypeOK
  <2>4. receipts' = receipts
    BY <1>2 DEF CreateGate
  <2>5. QED BY <2>1, <2>2, <2>3, <2>4 DEF SeenMatchesReceipts
<1>3. ASSUME NEW g \in GateIds, NEW idi \in Idis, Allow(g, idi) PROVE SeenMatchesReceipts'
  <2>1. gates[g] \in GateRecords /\ gates'[g] \in GateRecords \cup {NoGate}
    BY <1>0, <1>3 DEF Allow, TypeOK
  <2>2. gates'[g].seen = gates[g].seen /\ gates'[g] # NoGate
    <3>1. gates'[g].seen = gates[g].seen
      BY <1>3, <2>1 DEF Allow, TypeOK, GateRecords
    <3>2. Append(gates[g].allowlist, idi) \in Seq(Idis)
      BY <2>1 DEF GateRecords
    <3>3. gates'[g] \in GateRecords
      BY <1>3, <2>1, <3>2 DEF Allow, TypeOK, GateRecords
    <3>4. QED BY <3>1, <3>3, NoGateAssumption
  <2>3. receipts' = receipts /\ \A h \in GateIds : h # g => gates'[h] = gates[h]
    BY <1>3 DEF Allow, TypeOK
  <2>4. QED BY <1>3, <2>2, <2>3, SeenFrame DEF Allow
<1>4. ASSUME NEW g \in GateIds, NEW idi \in Idis, Disallow(g, idi) PROVE SeenMatchesReceipts'
  <2>1. gates[g] \in GateRecords
    BY <1>4 DEF Disallow, TypeOK
  <2>2. PICK i \in 1..Len(gates[g].allowlist) :
          gates' = [gates EXCEPT ![g].allowlist = RemoveAt(@, i)]
    BY <1>4 DEF Disallow
  <2>3. gates'[g].seen = gates[g].seen /\ gates'[g] # NoGate
    <3>1. gates'[g] = [gates[g] EXCEPT !.allowlist = RemoveAt(@, i)]
      BY <2>2 DEF TypeOK
    <3>2. RemoveAt(gates[g].allowlist, i) \in Seq(Idis)
      BY <2>1, RemoveAtType DEF GateRecords
    <3>3. gates'[g] \in GateRecords
      BY <2>1, <3>1, <3>2 DEF GateRecords
    <3>4. QED BY <2>1, <3>1, <3>3, NoGateAssumption DEF GateRecords
  <2>4. receipts' = receipts /\ \A h \in GateIds : h # g => gates'[h] = gates[h]
    BY <1>4, <2>2 DEF Disallow, TypeOK
  <2>5. QED BY <1>4, <2>3, <2>4, SeenFrame DEF Disallow
<1>5. ASSUME NEW g \in GateIds, NEW drift \in Drifts, SetMaxClockDrift(g, drift)
      PROVE SeenMatchesReceipts'
  <2>1. gates[g] \in GateRecords
    BY <1>5 DEF SetMaxClockDrift, TypeOK
  <2>2. gates'[g] = [gates[g] EXCEPT !.max_clock_drift_seconds = drift]
    BY <1>5 DEF SetMaxClockDrift, TypeOK
  <2>3. gates'[g] # NoGate /\ gates'[g].seen = gates[g].seen
    <3>1. gates'[g] \in GateRecords
      BY <2>1, <2>2 DEF GateRecords
    <3>2. QED BY <2>1, <2>2, <3>1, NoGateAssumption DEF GateRecords
  <2>4. receipts' = receipts /\ \A h \in GateIds : h # g => gates'[h] = gates[h]
    BY <1>5 DEF SetMaxClockDrift, TypeOK
  <2>5. QED BY <1>5, <2>3, <2>4, SeenFrame DEF SetMaxClockDrift
<1>6. ASSUME NEW a \in Admins, GrantOperator(a) \/ RevokeOperator(a) PROVE SeenMatchesReceipts'
  BY <1>6 DEF GrantOperator, RevokeOperator, SeenMatchesReceipts
<1>7. CASE Tick
  BY <1>7 DEF Tick, SeenMatchesReceipts
<1>8. CASE UNCHANGED vars
  BY <1>8 DEF vars, SeenMatchesReceipts
<1>9. QED
  BY <1>1, <1>2, <1>3, <1>4, <1>5, <1>6, <1>7, <1>8
  DEF Next, Payers, Administration, Roles

\* Single spend: a challenge is in a gate's dedup store exactly when that gate
\* issued one receipt for it, whatever operators, payers and the clock do.
THEOREM SingleSpendCorrect == Spec => []SeenMatchesReceipts
<1>1. Init => TypeOK /\ SeenMatchesReceipts
  BY TypeInit, SeenInit
<1>2. (TypeOK /\ SeenMatchesReceipts) /\ [Next]_vars => (TypeOK /\ SeenMatchesReceipts)'
  BY TypeStep, SeenStep
<1>3. QED BY <1>1, <1>2, PTL DEF Spec

-----------------------------------------------------------------------------
(* What a step may do to the receipts.                                       *)

\* A step leaves the receipts alone, or it is the first acceptance of one
\* challenge at one gate, of a claim proved about that challenge.
LEMMA ReceiptStep ==
  ASSUME TypeOK, SeenMatchesReceipts, [Next]_vars
  PROVE  \/ receipts' = receipts
         \/ \E g \in GateIds, r \in R1s :
              /\ receipts[g][r] = << >>
              /\ \E claim \in ProvenClaims(r) :
                   receipts' = [receipts EXCEPT ![g][r] = << claim >>]
<1>1. ASSUME NEW g \in GateIds, NEW c \in Calls, Verify(g, c)
      PROVE \E r \in R1s :
              /\ receipts[g][r] = << >>
              /\ \E claim \in ProvenClaims(r) :
                   receipts' = [receipts EXCEPT ![g][r] = << claim >>]
  <2> DEFINE r == c.presented_r1
             claim == [idi |-> c.idi, attested_at |-> c.attested_at]
  <2>1. r \in R1s /\ r \notin gates[g].seen /\ claim \in Claims /\ claim \in ProvenClaims(r)
    BY <1>1, AcceptedCall DEF Verify
  <2>2. receipts[g][r] = << >>
    <3>1. Len(receipts[g][r]) = 0
      BY <2>1 DEF SeenMatchesReceipts
    <3>2. receipts[g][r] \in Seq(Claims)
      BY <2>1 DEF TypeOK
    <3>3. QED BY <3>1, <3>2, EmptySeq
  <2>3. Append(<< >>, claim) = << claim >>
    OBVIOUS
  <2>4. receipts' = [receipts EXCEPT ![g][r] = << claim >>]
    <3>1. receipts' = [receipts EXCEPT ![g][r] = Append(@, claim)]
      BY <1>1 DEF Verify
    <3>2. receipts' = [receipts EXCEPT ![g][r] = Append(receipts[g][r], claim)]
      BY <3>1
    <3>3. QED BY <2>2, <2>3, <3>2
  <2>5. QED BY <2>1, <2>2, <2>4
<1>2. CASE Administration \/ Roles \/ Tick \/ UNCHANGED vars
  BY <1>2 DEF Administration, CreateGate, Allow, Disallow, SetMaxClockDrift, Roles,
     GrantOperator, RevokeOperator, Tick, vars
<1>3. QED BY <1>1, <1>2 DEF Next, Payers

\* Every receipt states what a proof about its challenge states.
THEOREM ReceiptsProvenCorrect == Spec => []ReceiptsAreProven
<1>1. Init => ReceiptsAreProven
  BY DEF Init, ReceiptsAreProven
<1>2. ASSUME TypeOK, SeenMatchesReceipts, ReceiptsAreProven, [Next]_vars
      PROVE  ReceiptsAreProven'
  <2>1. CASE receipts' = receipts
    BY <1>2, <2>1 DEF ReceiptsAreProven, ProvenClaims
  <2>2. ASSUME NEW g \in GateIds, NEW r \in R1s, NEW claim \in ProvenClaims(r),
               receipts' = [receipts EXCEPT ![g][r] = << claim >>]
        PROVE ReceiptsAreProven'
    <3>1. ASSUME NEW h \in GateIds, NEW q \in R1s, NEW i \in DOMAIN receipts'[h][q]
          PROVE receipts'[h][q][i] \in ProvenClaims(q)
      <4>1. CASE h = g /\ q = r
        <5>1. receipts'[h][q] = << claim >>
          BY <2>2, <4>1, <1>2 DEF TypeOK
        <5>2. QED BY <3>1, <4>1, <5>1
      <4>2. CASE h # g \/ q # r
        <5>1. receipts'[h][q] = receipts[h][q]
          BY <2>2, <4>2, <1>2 DEF TypeOK
        <5>2. QED BY <1>2, <3>1, <5>1 DEF ReceiptsAreProven
      <4>3. QED BY <4>1, <4>2
    <3>2. QED BY <3>1 DEF ReceiptsAreProven, ProvenClaims
  <2>3. QED BY <1>2, <2>1, <2>2, ReceiptStep
<1>3. QED BY <1>1, <1>2, TypeCorrect, SingleSpendCorrect, PTL DEF Spec

\* The gates implement the abstract single-spend register: their initial state
\* is an initial state of it, and every step is a spend or a stutter.
THEOREM ImplementsSingleSpend == Spec => Refinement
<1>1. Init => SS!Init
  BY DEF Init, SS!Init
<1>2. ASSUME TypeOK, SeenMatchesReceipts, [Next]_vars
      PROVE  [SS!Next]_receipts
  <2>1. ASSUME NEW g \in GateIds, NEW r \in R1s, receipts[g][r] = << >>,
               NEW claim \in ProvenClaims(r),
               receipts' = [receipts EXCEPT ![g][r] = << claim >>]
        PROVE SS!Next
    BY <2>1 DEF SS!Next, SS!Spend
  <2>2. QED BY <1>2, <2>1, ReceiptStep
<1>3. QED BY <1>1, <1>2, TypeCorrect, SingleSpendCorrect, PTL DEF Spec, Refinement, SS!Spec

-----------------------------------------------------------------------------
(* Who a gate lets in.                                                        *)

\* Removing an entry adds none, and shortens the list.
LEMMA RemoveAtRemoves ==
  ASSUME NEW S, NEW s \in Seq(S), NEW i \in 1..Len(s)
  PROVE  /\ Len(RemoveAt(s, i)) < Len(s)
         /\ \A e : Contains(RemoveAt(s, i), e) => Contains(s, e)
<1> DEFINE front == SubSeq(s, 1, i - 1)
           back == SubSeq(s, i + 1, Len(s))
<1>1. front \in Seq(S) /\ Len(front) = i - 1 /\ \A j \in 1..(i - 1) : front[j] = s[j]
  <2>1. \A j \in 1..(i - 1) : s[j] \in S
    OBVIOUS
  <2>2. QED BY <2>1
<1>2. /\ back \in Seq(S) /\ Len(back) = Len(s) - i
      /\ \A j \in 1..(Len(s) - i) : back[j] = s[i + j]
  <2>1. \A j \in (i + 1)..Len(s) : s[j] \in S
    OBVIOUS
  <2>2. QED BY <2>1
<1>3. RemoveAt(s, i) = front \o back
  BY DEF RemoveAt
<1> HIDE DEF front, back
<1>4. Len(RemoveAt(s, i)) = Len(s) - 1
  <2>1. Len(RemoveAt(s, i)) = Len(front) + Len(back)
    BY <1>1, <1>2, <1>3, ConcatProperties
  <2>2. Len(front) + Len(back) = (i - 1) + (Len(s) - i)
    BY <1>1, <1>2
  <2>3. i \in Int /\ Len(s) \in Int
    OBVIOUS
  <2>4. QED BY <2>1, <2>2, <2>3
<1>5. ASSUME NEW e, NEW j \in 1..Len(s) - 1, RemoveAt(s, i)[j] = e
      PROVE  \E k \in 1..Len(s) : s[k] = e
  <2>1. CASE j < i
    <3>1. j \in 1..(i - 1)
      BY <1>5, <2>1
    <3>2. RemoveAt(s, i)[j] = s[j]
      BY <1>1, <1>2, <1>3, <3>1
    <3>3. QED BY <1>5, <3>2
  <2>2. CASE j >= i
    <3>1. j - (i - 1) \in 1..(Len(s) - i)
      BY <1>5, <2>2
    <3>2. RemoveAt(s, i)[j] = back[j - (i - 1)]
      BY <1>1, <1>2, <1>3, <1>5, <2>2, <3>1
    <3>3. RemoveAt(s, i)[j] = s[j + 1] /\ j + 1 \in 1..Len(s)
      BY <1>2, <1>5, <2>2, <3>1, <3>2
    <3>4. QED BY <1>5, <3>3
  <2>3. QED BY <1>5, <2>1, <2>2
<1>6. QED BY <1>4, <1>5 DEF Contains

\* What ClosedStaysClosed says of one gate, before and after a step.
StaysClosed(gate, later) ==
  /\ ~later.allow_any
  /\ Admitted(later) \subseteq
       Admitted(gate) \cup
         (IF Len(later.allowlist) > Len(gate.allowlist) THEN {Last(later.allowlist)} ELSE {})

\* A gate whose list and openness a step leaves alone.
LEMMA SameAdmitted ==
  ASSUME NEW gate, NEW later, ~gate.allow_any, ~later.allow_any,
         later.allowlist = gate.allowlist
  PROVE  StaysClosed(gate, later)
BY DEF StaysClosed, Admitted, Admits

LEMMA ClosedStep ==
  ASSUME TypeOK, [Next]_vars, NEW h \in GateIds, gates[h] # NoGate, ~gates[h].allow_any
  PROVE  StaysClosed(gates[h], gates'[h])
<1>0. /\ gates[h] \in GateRecords /\ gates[h].allowlist \in Seq(Idis)
      /\ DOMAIN gates = GateIds
  BY DEF TypeOK, GateRecords
<1>1. ASSUME NEW g \in GateIds, NEW c \in Calls, Verify(g, c)
      PROVE  StaysClosed(gates[h], gates'[h])
  <2>1. gates'[h] = IF h = g THEN [gates[h] EXCEPT !.seen = @ \cup {c.presented_r1}]
                    ELSE gates[h]
    BY <1>0, <1>1 DEF Verify
  <2>2. gates'[h].allowlist = gates[h].allowlist /\ ~gates'[h].allow_any
    BY <1>0, <2>1 DEF GateRecords
  <2>3. QED BY <2>2, SameAdmitted
<1>2. ASSUME NEW g \in GateIds, NEW vk \in Vks, NEW list \in InitLists, NEW drift \in Drifts,
             CreateGate(g, vk, list, drift)
      PROVE  StaysClosed(gates[h], gates'[h])
  <2>1. h # g /\ gates'[h] = gates[h]
    BY <1>0, <1>2 DEF CreateGate
  <2>2. QED BY <2>1, SameAdmitted
<1>3. ASSUME NEW g \in GateIds, NEW idi \in Idis, Allow(g, idi)
      PROVE  StaysClosed(gates[h], gates'[h])
  <2>1. CASE h # g
    <3>1. gates'[h] = gates[h]
      BY <1>0, <1>3, <2>1 DEF Allow
    <3>2. QED BY <3>1, SameAdmitted
  <2>2. CASE h = g
    <3> DEFINE list == gates[h].allowlist
               later == gates'[h].allowlist
    <3>1. later = Append(list, idi) /\ ~gates'[h].allow_any
      BY <1>0, <1>3, <2>2 DEF Allow, GateRecords
    <3>2. /\ Len(list) \in Nat /\ Len(later) = Len(list) + 1 /\ Last(later) = idi
          /\ \A j \in 1..Len(list) : later[j] = list[j]
      BY <1>0, <3>1 DEF Last
    <3>3. Len(later) > Len(list)
      BY <3>2
    <3> HIDE DEF list, later
    <3>4. \A e : Contains(later, e) => Contains(list, e) \/ e = Last(later)
      BY <3>2 DEF Contains, Last
    <3>5. QED BY <3>1, <3>3, <3>4 DEF StaysClosed, Admitted, Admits, list, later
  <2>3. QED BY <2>1, <2>2
<1>4. ASSUME NEW g \in GateIds, NEW idi \in Idis, Disallow(g, idi)
      PROVE  StaysClosed(gates[h], gates'[h])
  <2>1. CASE h # g
    <3>1. gates'[h] = gates[h]
      BY <1>0, <1>4, <2>1 DEF Disallow
    <3>2. QED BY <3>1, SameAdmitted
  <2>2. CASE h = g
    <3>1. PICK i \in 1..Len(gates[h].allowlist) :
            gates' = [gates EXCEPT ![h].allowlist = RemoveAt(@, i)]
      BY <1>4, <2>2 DEF Disallow
    <3>2. /\ gates'[h].allowlist = RemoveAt(gates[h].allowlist, i)
          /\ ~gates'[h].allow_any
      BY <1>0, <3>1 DEF GateRecords
    <3>3. /\ Len(gates'[h].allowlist) < Len(gates[h].allowlist)
          /\ \A e : Contains(gates'[h].allowlist, e) => Contains(gates[h].allowlist, e)
      BY <1>0, <3>2, RemoveAtRemoves
    <3>4. QED BY <3>2, <3>3 DEF StaysClosed, Admitted, Admits
  <2>3. QED BY <2>1, <2>2
<1>5. ASSUME NEW g \in GateIds, NEW drift \in Drifts, SetMaxClockDrift(g, drift)
      PROVE  StaysClosed(gates[h], gates'[h])
  <2>1. gates'[h] = IF h = g THEN [gates[h] EXCEPT !.max_clock_drift_seconds = drift]
                    ELSE gates[h]
    BY <1>0, <1>5 DEF SetMaxClockDrift
  <2>2. gates'[h].allowlist = gates[h].allowlist /\ ~gates'[h].allow_any
    BY <1>0, <2>1 DEF GateRecords
  <2>3. QED BY <2>2, SameAdmitted
<1>6. CASE Roles \/ Tick \/ UNCHANGED vars
  <2>1. gates' = gates
    BY <1>6 DEF Roles, GrantOperator, RevokeOperator, Tick, vars
  <2>2. QED BY <2>1, SameAdmitted
<1>7. QED
  BY <1>1, <1>2, <1>3, <1>4, <1>5, <1>6 DEF Next, Payers, Administration

\* A closed gate never opens again, and admits nobody it was not told to.
THEOREM ClosedStaysClosedCorrect == Spec => ClosedStaysClosed
<1>1. ASSUME TypeOK, [Next]_vars
      PROVE  [\A g \in GateIds :
                gates[g] # NoGate /\ ~gates[g].allow_any =>
                  /\ ~gates'[g].allow_any
                  /\ Admitted(gates'[g]) \subseteq
                       Admitted(gates[g]) \cup
                         (IF Len(gates'[g].allowlist) > Len(gates[g].allowlist)
                            THEN {Last(gates'[g].allowlist)} ELSE {})]_vars
  BY <1>1, ClosedStep DEF StaysClosed
<1>2. QED BY <1>1, TypeCorrect, PTL DEF Spec, ClosedStaysClosed
=============================================================================
