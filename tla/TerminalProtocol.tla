-------------------------- MODULE TerminalProtocol --------------------------
(* The events a host sends to the payment terminal (terminal.ts). The reports *)
(* that matter to a host are the faceOk's, which are the card they name.      *)
EXTENDS Integers

CONSTANTS
  Idis,      \* card identifiers
  Amounts,   \* amounts in MIST that an operator asks for
  None       \* null: no card, no amount, nobody

ASSUME ProtocolAssumption ==
  /\ Amounts \subseteq Nat
  /\ None \notin Idis \cup Nat

Modes == Amounts \cup {None}
Cards == [idi : Idis, registered : BOOLEAN]
Results == [ok : BOOLEAN, amount : Amounts \cup {0}]

Messages ==
  [type : {"detecting", "cardRemoved"}] \cup [type : {"mode"}, payment : Modes]
    \cup [type : {"card"}, card : Cards] \cup [type : {"paymentResult"}, result : Results]

Detecting == [type |-> "detecting"]
CardRemoved == [type |-> "cardRemoved"]
ModeMsg(mode) == [type |-> "mode", payment |-> mode]
CardMsg(card) == [type |-> "card", card |-> card]
ResultMsg(result) == [type |-> "paymentResult", result |-> result]
=============================================================================
