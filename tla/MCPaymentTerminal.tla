-------------------------- MODULE MCPaymentTerminal --------------------------
(* Small instances of PaymentTerminal. The cards are alike, and so are the     *)
(* operators, so runs of safety properties take them up to a permutation. A    *)
(* run covers several combinations of the bounds at once.                      *)
EXTENDS PaymentTerminal, TLC

CONSTANTS cardA, cardB, cli, gui

MCIdis == {cardA, cardB}
MCOperators == {cli, gui}
MCOneOperator == {cli}
MCAmounts == {1}
MCBalance == [c \in MCIdis |-> 1]
MCAlike == Permutations(MCIdis) \cup Permutations(MCOperators)

\* What is left of the bounds when it has so many moves, commands, connections
\* and drops to go.
ToGo(m, o, c, d) == [moves |-> MaxMoves - m, ops |-> MaxOps - o,
                     connects |-> MaxConnects - c, drops |-> MaxDrops - d]

MCAll == {ToGo(MaxMoves, MaxOps, MaxConnects, MaxDrops)}

\* Cards that are swapped, a page that loads again, and operators that cross.
MCStarts == {ToGo(2, 1, 1, 1), ToGo(2, 0, 2, 0), ToGo(1, 1, 2, 1), ToGo(1, 2, 2, 0),
             ToGo(0, 3, 2, 1)}
=============================================================================
