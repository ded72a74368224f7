---------------------------- MODULE CardSession ----------------------------
(* The mutual authentication of a FeliCa card and the oracle as both compute *)
(* it: the challenge blocks, the oracle's checks (server/src/oracle), and    *)
(* the statement its prover proves (prover/src). A block is symbolic: the    *)
(* 3DES key pair that made it, the card the pair is diversified for, and the *)
(* random number inside. Only that pair and card open it to that number.     *)
EXTENDS Naturals, FiniteSets

CONSTANTS
  Cards,  \* cards of the system the oracle is keyed for
  R1s,    \* numbers clients ask with, R1
  R2s     \* numbers cards draw, R2

Randoms == R1s \cup R2s

\* An 8-byte number is its first two bytes and its last six, the transaction
\* identifier. What cards draw is fresh, and nobody else's 48 bits hit it. An R1
\* is whatever the client sends: two of them may agree in their last six bytes.
ASSUME RandomsAssumption ==
  /\ \A r \in Randoms : r = [head |-> r.head, tail |-> r.tail]
  /\ \A r \in R2s, s \in Randoms : r.tail = s.tail => r = s
  /\ R1s \cap R2s = {}

\* L = GSK xor IDm, alpha and beta are derived from L and USK: a pair is known
\* by its name and by the card.
KeyPairs == {"alpha_l", "l_beta"}
Blocks == [pair : KeyPairs, idm : Cards, number : Randoms]

Encrypt(pair, idm, r) == [pair |-> pair, idm |-> idm, number |-> r]

C1A(idm, r1) == Encrypt("alpha_l", idm, r1)
C1B(idm, r1) == Encrypt("l_beta", idm, r1)
C2A(idm, r2) == Encrypt("l_beta", idm, r2)
C2B(idm, r2) == Encrypt("alpha_l", idm, r2)

\* Decryption of a block: the drawn number in it, or none when the block was
\* made for another card or under the other pair and opens to noise.
Openings(pair, idm, block) == {r \in Randoms : Encrypt(pair, idm, r) = block}

\* The 32-byte AUTH2 answer: TN 0, TID, IDi and a MAC, encrypted under R2. The
\* card's IDm and IDi name it one to one.
Auth2s == [key : Randoms, tid : {r.tail : r \in Randoms}, idi : Cards]
Auth2(card, r1, r2) == [key |-> r2, tid |-> r1.tail, idi |-> card]

VerifyAuth2(r2, auth2) == auth2.key = r2

\* Mutant: the transaction identifier is not compared with R1.
SessionWithoutTid(idm, c1b, c2a, auth2) ==
  {[idi |-> auth2.idi, r1 |-> r1] :
     r1 \in {r \in Openings("l_beta", idm, c1b) :
               \E r2 \in Openings("l_beta", idm, c2a) : VerifyAuth2(r2, auth2)}}

\* attest's check of a transcript: the verified session, or none.
VerifySession(idm, c1b, c2a, auth2) ==
  {[idi |-> auth2.idi, r1 |-> r1] :
     r1 \in {r \in Openings("l_beta", idm, c1b) :
               /\ \E r2 \in Openings("l_beta", idm, c2a) : VerifyAuth2(r2, auth2)
               /\ auth2.tid = r.tail}}

\* The circuit's constraints C1 to C6 on the public inputs idi and r1 and the
\* private transcript; D1 to D3 derive the key pairs from gsk, usk and idm.
CircuitSatisfied(idi, r1, idm, c1b, c2a, r2, auth2) ==
  /\ Encrypt("l_beta", idm, r1) = c1b
  /\ Encrypt("l_beta", idm, r2) = c2a
  /\ VerifyAuth2(r2, auth2)
  /\ auth2.tid = r1.tail
  /\ auth2.idi = idi

\* Mutant: the prover takes R1 from the card's challenge.
ProveFromC2a(idm, c1b, c2a, auth2, attested_at) ==
  {[idi |-> auth2.idi, r1 |-> r1, attested_at |-> attested_at] :
     r1 \in {r \in Openings("l_beta", idm, c2a) : VerifyAuth2(r, auth2)}}

\* The prover opens the transcript again, takes IDi from AUTH2, and proves
\* what the circuit accepts.
Prove(idm, c1b, c2a, auth2, attested_at) ==
  {[idi |-> auth2.idi, r1 |-> r1, attested_at |-> attested_at] :
     r1 \in {r \in Openings("l_beta", idm, c1b) :
               \E r2 \in Openings("l_beta", idm, c2a) :
                 CircuitSatisfied(auth2.idi, r, idm, c1b, c2a, r2, auth2)}}
=============================================================================
