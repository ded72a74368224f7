--------------------------- MODULE MCOracleServer ---------------------------
(* Small instances of OracleServer. A behaviour has one of several budgets,  *)
(* each about one kind of trouble.                                          *)
EXTENDS OracleServer

Number(head, tail) == [head |-> head, tail |-> tail]

\* The first two agree in their last six bytes.
MCR1s == {Number("h", "t1"), Number("g", "t1"), Number("h", "t2")}
MCR2s == {Number("h", "u1"), Number("h", "u2")}

Budget(p, c, m, t) == [places |-> p, challenges |-> c, mixed |-> m, ticks |-> t]

MCBudgets ==
  { Budget(2, 2, 1, 0),    \* two sessions and a transcript made of both
    Budget(2, 2, 0, 1),    \* two readers, and calls that time out
    Budget(1, 2, 0, 2) }   \* a call that times out and is made again

MCOrphans == { Budget(2, 2, 0, 1) }
=============================================================================
