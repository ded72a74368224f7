-------------------------------- MODULE Gate --------------------------------
(* The shared Sui objects of the package felica_oracle: FeliCa attestation   *)
(* gates (gate.move), the wire checks they run (felica_auth.move,            *)
(* zk_verifier.move) and their administration (suicash_gate.move). Each      *)
(* action is one Move call of one transaction. A call that aborts reverts    *)
(* its transaction, which leaves every object as it was, so only the         *)
(* accepting paths are actions.                                              *)
EXTENDS Integers, Sequences, FiniteSets, SequencesExt

CONSTANTS
  GateIds,      \* object ids create_gate may hand out
  Idis,         \* 8-byte card identifiers
  R1s,          \* 8-byte holder challenges
  Vks,          \* Groth16 verifying keys
  Admins,       \* addresses that may hold a role
  Publisher,    \* the publisher of the package, its root admin
  ShortBytes,   \* a byte string that is not 8 bytes long
  NoProof,      \* proof points that satisfy no pairing equation
  NoGate,       \* the id is not in use yet
  Calls,        \* argument lists of verify that payers present
  InitLists,    \* allowlists a deployment is created with
  Drifts,       \* drift bounds in seconds
  MsPerSecond,  \* 1000 in suicash_gate.move
  MaxClockMs,   \* bound: the chain's clock stops here
  MaxAllowlist  \* bound: entries of one allowlist

\* One 32-byte public input: the 8 bytes of its limb, and whether one of the
\* 24 bytes above them is not zero. A limb reads as bytes or as a little-endian
\* number, which are told apart here by where they stand.
Scalars == [limb : Idis \cup R1s \cup Nat, high : BOOLEAN]

\* What a Groth16 proof proves: these three inputs under this key.
Statements == [vk : Vks, inputs : Seq(Scalars)]

WireCalls == [idi : Idis \cup {ShortBytes}, attested_at : Nat,
              proof : Statements \cup {NoProof}, public_inputs : Seq(Scalars),
              presented_r1 : R1s \cup {ShortBytes}]

ASSUME ConstantsAssumption ==
  /\ Publisher \in Admins
  /\ Calls \subseteq WireCalls
  /\ InitLists \subseteq Seq(Idis)
  /\ Drifts \subseteq Nat
  /\ MsPerSecond \in Nat \ {0}
  /\ MaxClockMs \in Nat
  /\ MaxAllowlist \in Nat

ASSUME ShortBytesAssumption == ShortBytes \notin Idis \cup R1s

Claims == [idi : Idis, attested_at : Nat]

GateRecords == [verifier_key : Vks, seen : SUBSET R1s, allowlist : Seq(Idis),
                allow_any : BOOLEAN, max_clock_drift_seconds : Drifts]

ASSUME NoGateAssumption == NoGate \notin GateRecords

VARIABLES
  clock_ms,   \* the chain's Clock object
  operators,  \* holders of the role Operator
  gates,      \* gate id -> the shared Gate, or NoGate
  receipts    \* gate id -> r1 -> AttestationVerified events, in order

vars == <<clock_ms, operators, gates, receipts>>

NowSeconds == clock_ms \div MsPerSecond

Init ==
  /\ clock_ms = 0
  /\ operators = {Publisher}
  /\ gates = [g \in GateIds |-> NoGate]
  /\ receipts = [g \in GateIds |-> [r \in R1s |-> << >>]]

-----------------------------------------------------------------------------
(* The checks of a presentation, named after the Move functions.             *)

WellFormed(c) == c.idi # ShortBytes /\ Len(c.public_inputs) = 3

ClockDriftOk(c, now, max) ==
  (IF c.attested_at > now THEN c.attested_at - now ELSE now - c.attested_at) <= max

Admits(gate, idi) == gate.allow_any \/ Contains(gate.allowlist, idi)

Canonical(scalar) == ~scalar.high

ChallengeMatches(c) ==
  /\ c.presented_r1 # ShortBytes
  /\ Canonical(c.public_inputs[2])
  /\ c.public_inputs[2].limb = c.presented_r1

\* Mutant: the idi of the envelope is not compared with the proven one.
EnvelopeWithoutIdi(c) ==
  /\ \A i \in 1..3 : Canonical(c.public_inputs[i])
  /\ c.public_inputs[3].limb = c.attested_at

EnvelopeConsistent(c) ==
  /\ \A i \in 1..3 : Canonical(c.public_inputs[i])
  /\ c.public_inputs[1].limb = c.idi
  /\ c.public_inputs[3].limb = c.attested_at

PairingHolds(vk, c) ==
  /\ c.proof # NoProof
  /\ c.proof.vk = vk
  /\ c.proof.inputs = c.public_inputs

\* Mutant: the dedup store is not consulted.
AcceptsReplays(gate, c, now) ==
  /\ WellFormed(c)
  /\ ClockDriftOk(c, now, gate.max_clock_drift_seconds)
  /\ Admits(gate, c.idi)
  /\ ChallengeMatches(c)
  /\ EnvelopeConsistent(c)
  /\ PairingHolds(gate.verifier_key, c)

Accepts(gate, c, now) ==
  /\ WellFormed(c)
  /\ ClockDriftOk(c, now, gate.max_clock_drift_seconds)
  /\ Admits(gate, c.idi)
  /\ ChallengeMatches(c)
  /\ c.presented_r1 \notin gate.seen
  /\ EnvelopeConsistent(c)
  /\ PairingHolds(gate.verifier_key, c)

-----------------------------------------------------------------------------
(* Payers: suicash_gate::verify, open to everybody.                          *)

\* Mutant: an accepted challenge is not burned.
VerifyWithoutBurn(g, c) ==
  /\ gates[g] # NoGate
  /\ Accepts(gates[g], c, NowSeconds)
  /\ receipts' = [receipts EXCEPT ![g][c.presented_r1] =
                    Append(@, [idi |-> c.idi, attested_at |-> c.attested_at])]
  /\ UNCHANGED <<clock_ms, operators, gates>>

Verify(g, c) ==
  /\ gates[g] # NoGate
  /\ Accepts(gates[g], c, NowSeconds)
  /\ gates' = [gates EXCEPT ![g].seen = @ \cup {c.presented_r1}]
  /\ receipts' = [receipts EXCEPT ![g][c.presented_r1] =
                    Append(@, [idi |-> c.idi, attested_at |-> c.attested_at])]
  /\ UNCHANGED <<clock_ms, operators>>

-----------------------------------------------------------------------------
(* Administration. An Auth cannot outlive its transaction, so holding the    *)
(* role when the transaction runs is the guard.                              *)

CreateGate(g, vk, list, drift) ==
  /\ gates[g] = NoGate
  /\ gates' = [gates EXCEPT ![g] =
                 [verifier_key |-> vk, seen |-> {}, allowlist |-> list,
                  allow_any |-> (list = << >>), max_clock_drift_seconds |-> drift]]
  /\ UNCHANGED <<clock_ms, operators, receipts>>

Allow(g, idi) ==
  /\ gates[g] # NoGate /\ operators # {}
  /\ Len(gates[g].allowlist) < MaxAllowlist
  /\ gates' = [gates EXCEPT ![g].allow_any = FALSE,
                            ![g].allowlist = Append(@, idi)]
  /\ UNCHANGED <<clock_ms, operators, receipts>>

\* Mutant: an empty list means that every card is admitted.
DisallowOpensEmpty(g, idi) ==
  /\ gates[g] # NoGate /\ operators # {}
  /\ Contains(gates[g].allowlist, idi)
  /\ LET list == RemoveFirst(gates[g].allowlist, idi)
     IN gates' = [gates EXCEPT ![g].allowlist = list, ![g].allow_any = (list = << >>)]
  /\ UNCHANGED <<clock_ms, operators, receipts>>

Disallow(g, idi) ==
  /\ gates[g] # NoGate /\ operators # {}
  /\ \E i \in 1..Len(gates[g].allowlist) :
       /\ gates[g].allowlist[i] = idi
       /\ \A j \in 1..(i - 1) : gates[g].allowlist[j] # idi
       /\ gates' = [gates EXCEPT ![g].allowlist = RemoveAt(@, i)]
  /\ UNCHANGED <<clock_ms, operators, receipts>>

\* Mutant: the bound is kept in milliseconds.
SetMaxClockDriftMs(g, drift) ==
  /\ gates[g] # NoGate /\ operators # {}
  /\ gates' = [gates EXCEPT ![g].max_clock_drift_seconds = drift * MsPerSecond]
  /\ UNCHANGED <<clock_ms, operators, receipts>>

SetMaxClockDrift(g, drift) ==
  /\ gates[g] # NoGate /\ operators # {}
  /\ gates' = [gates EXCEPT ![g].max_clock_drift_seconds = drift]
  /\ UNCHANGED <<clock_ms, operators, receipts>>

\* The root admin's access_control::grant_role and revoke_role.
GrantOperator(a) ==
  /\ operators' = operators \cup {a}
  /\ UNCHANGED <<clock_ms, gates, receipts>>

RevokeOperator(a) ==
  /\ a \in operators
  /\ operators' = operators \ {a}
  /\ UNCHANGED <<clock_ms, gates, receipts>>

\* Consensus moves the clock on.
Tick ==
  /\ clock_ms < MaxClockMs
  /\ clock_ms' = clock_ms + 1
  /\ UNCHANGED <<operators, gates, receipts>>

-----------------------------------------------------------------------------
Payers == \E g \in GateIds, c \in Calls : Verify(g, c)

Administration ==
  \E g \in GateIds :
    \/ \E vk \in Vks, list \in InitLists, drift \in Drifts : CreateGate(g, vk, list, drift)
    \/ \E idi \in Idis : Allow(g, idi) \/ Disallow(g, idi)
    \/ \E drift \in Drifts : SetMaxClockDrift(g, drift)

Roles == \E a \in Admins : GrantOperator(a) \/ RevokeOperator(a)

Next == Payers \/ Administration \/ Roles \/ Tick

Spec == Init /\ [][Next]_vars

-----------------------------------------------------------------------------
(* Properties.                                                               *)

\* The shape of the state.
TypeOK ==
  /\ clock_ms \in 0..MaxClockMs
  /\ operators \subseteq Admins
  /\ gates \in [GateIds -> GateRecords \cup {NoGate}]
  /\ receipts \in [GateIds -> [R1s -> Seq(Claims)]]

\* The dedup store of a gate and the receipts it issued agree: a challenge is in
\* seen exactly when one presentation of it was accepted there, so nothing is
\* burned by a rejected presentation and nothing accepted escapes the store,
\* whatever the operators and the clock did in between (gate.move:93-101).
SeenMatchesReceipts ==
  \A g \in GateIds, r \in R1s :
    Len(receipts[g][r]) = IF gates[g] # NoGate /\ r \in gates[g].seen THEN 1 ELSE 0

\* The claims proved about a challenge, under some key somebody pins.
ProvenClaims(r) ==
  {[idi |-> c.proof.inputs[1].limb, attested_at |-> c.proof.inputs[3].limb] :
     c \in {d \in Calls : d.proof # NoProof /\ Len(d.proof.inputs) = 3
                            /\ d.proof.inputs[2].limb = r}}

\* Every receipt says what some proof proves about its challenge: no envelope
\* rewritten around a genuine proof, no challenge of another session and no
\* second encoding of a scalar gets a receipt (felica_auth.move:105-134).
ReceiptsAreProven ==
  \A g \in GateIds, r \in R1s :
    \A i \in DOMAIN receipts[g][r] : receipts[g][r][i] \in ProvenClaims(r)

\* A gate that was closed once stays closed, and a step that lets in a card it
\* did not admit is one that listed that card: removing the last entry of a list
\* or retuning the drift never opens the gate (gate.move:52-58, 150-157).
Admitted(gate) == {i \in Idis : Admits(gate, i)}

ClosedStaysClosed ==
  [][\A g \in GateIds :
       gates[g] # NoGate /\ ~gates[g].allow_any =>
         /\ ~gates'[g].allow_any
         /\ Admitted(gates'[g]) \subseteq
              Admitted(gates[g]) \cup
                (IF Len(gates'[g].allowlist) > Len(gates[g].allowlist)
                   THEN {Last(gates'[g].allowlist)} ELSE {})]_vars

\* The gates implement the abstract single-spend register.
SS == INSTANCE SingleSpend WITH
        Gates <- GateIds, Challenges <- R1s, spent <- receipts,
        Provable <- [r \in R1s |-> ProvenClaims(r)]

Refinement == SS!Spec

\* gate.move:155-157 says of disallow that it aborts "rather than silently
\* succeeding: a disallow that quietly does nothing is a revocation that reads
\* as applied". So a disallow that succeeds leaves its card not admitted.
RevocationApplies ==
  [][\A g \in GateIds, idi \in Idis :
       Disallow(g, idi) => ~Admits(gates'[g], idi)]_vars
=============================================================================
