--------------------------- MODULE MCAdminConsole ---------------------------
(* A small instance of AdminConsole. A behaviour has one of several budgets, *)
(* each about one kind of trouble.                                           *)
EXTENDS AdminConsole

CONSTANTS guiA, guiB, terminal, cardA

MCGuis == {guiA, guiB}
MCTerminals == {terminal}
MCIdis == {cardA}
MCAmounts == {1}

Budget(k, c, o, t, b, s, e, g) ==
  [clicks |-> k, cards |-> c, commands |-> o, terminals |-> t, breaks |-> b, starts |-> s,
   ends |-> e, guis |-> g]

MCBudgets ==
  { Budget(2, 0, 0, 0, 1, 0, 0, 1),    \* clicks and a broken link
    Budget(1, 2, 0, 0, 1, 0, 0, 1),    \* cards, a click, a broken link
    Budget(1, 0, 1, 0, 0, 1, 0, 1),    \* an operator at the CLI
    Budget(0, 1, 0, 1, 1, 0, 0, 1),    \* a terminal that comes and goes
    Budget(2, 0, 0, 0, 0, 0, 0, 2),    \* two GUIs, two clicks
    Budget(1, 0, 0, 0, 0, 1, 1, 1),    \* a click on a daemon that is gone
    Budget(0, 0, 0, 0, 0, 1, 2, 2) }   \* processes
=============================================================================
