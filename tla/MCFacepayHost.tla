--------------------------- MODULE MCFacepayHost ---------------------------
(* A small instance of FacepayHost. A behaviour has one of several budgets,  *)
(* each about one kind of trouble.                                          *)
EXTENDS FacepayHost

CONSTANTS cardA, cardB

MCIdis == {cardA, cardB}
MCAmounts == {1}
MCBalance == [c \in MCIdis |-> 1]

Budget(m, g, p, s, c, d, r) ==
  [moves |-> m, glitches |-> g, modes |-> p, sims |-> s, connects |-> c, drops |-> d,
   reports |-> r]

MCBudgets ==
  { Budget(2, 0, 1, 0, 1, 1, 1),    \* swaps, a payment, a lost link
    Budget(1, 1, 1, 0, 1, 0, 2),    \* a failed poll and two reports
    Budget(1, 0, 1, 1, 1, 0, 1),    \* a simulated card and a payment
    Budget(1, 0, 0, 2, 1, 0, 0),    \* simulated cards and removals
    Budget(0, 0, 1, 1, 2, 1, 1),    \* a payment over the second of two links
    Budget(1, 0, 1, 0, 3, 2, 0) }   \* connections
=============================================================================
