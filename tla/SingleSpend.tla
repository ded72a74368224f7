---------------------------- MODULE SingleSpend ----------------------------
(* What the on-chain gates promise, without keys, allowlists, clocks or wire *)
(* formats: at one gate a holder challenge is spent at most once, for ever,  *)
(* and only on a claim somebody proved about that challenge.                 *)
EXTENDS Sequences

CONSTANTS
  Gates,       \* the gates of the deployment
  Challenges,  \* the holder challenges r1
  Provable     \* challenge -> the claims that were proved about it

VARIABLE spent \* gate -> challenge -> the claims accepted for it, in order

Init == spent = [g \in Gates |-> [r \in Challenges |-> << >>]]

\* One accepted presentation. There is no action for a second one.
Spend(g, r) ==
  /\ spent[g][r] = << >>
  /\ \E c \in Provable[r] : spent' = [spent EXCEPT ![g][r] = << c >>]

Next == \E g \in Gates, r \in Challenges : Spend(g, r)

Spec == Init /\ [][Next]_spent
=============================================================================
