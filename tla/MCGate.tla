------------------------------- MODULE MCGate -------------------------------
(* Small instance of Gate: two gates (a deployment and its re-creation), two *)
(* cards, two challenges, and every kind of presentation the checks tell     *)
(* apart.                                                                    *)
EXTENDS Gate

CONSTANTS g1, g2, cardA, cardB, rA, rB, keyPinned, keyOther, publisher, operator

MCGateIds == {g1, g2}
MCIdis == {cardA, cardB}
MCR1s == {rA, rB}
MCVks == {keyPinned, keyOther}
MCAdmins == {publisher, operator}

Limb(x) == [limb |-> x, high |-> FALSE]
Inputs(idi, r, t) == << Limb(idi), Limb(r), Limb(t) >>

\* The oracle's answer for card idi, challenge r, time t.
Genuine(idi, r, t) ==
  [idi |-> idi, attested_at |-> t, presented_r1 |-> r, public_inputs |-> Inputs(idi, r, t),
   proof |-> [vk |-> keyPinned, inputs |-> Inputs(idi, r, t)]]

\* Card A attested for rA at second 0 and card B for rB at second 2, and the
\* ways a presentation of them can go wrong.
MCCalls ==
  LET a == Genuine(cardA, rA, 0)
      b == Genuine(cardB, rB, 2)
  IN {a, b,
      [a EXCEPT !.idi = cardB],                             \* envelope names another card
      [b EXCEPT !.attested_at = 1],                         \* envelope freshens the time
      [a EXCEPT !.presented_r1 = rB],                       \* another session's challenge
      [a EXCEPT !.presented_r1 = rB, !.public_inputs[2] = Limb(rB)],
      [a EXCEPT !.public_inputs[2].high = TRUE],            \* second encoding of rA
      [a EXCEPT !.proof = NoProof],
      [b EXCEPT !.proof.vk = keyOther],
      [a EXCEPT !.idi = ShortBytes],
      [a EXCEPT !.presented_r1 = ShortBytes],
      [b EXCEPT !.public_inputs = << Limb(cardB), Limb(rB) >>]}

MCInitLists == { << >>, << cardA >> }
MCDrifts == {0, 1}
=============================================================================
