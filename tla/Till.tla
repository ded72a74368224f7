-------------------------------- MODULE Till --------------------------------
(* What a payment daemon promises, without readers, threads, messages and     *)
(* pages: a session of a card, which the oracle attested, is offered once at  *)
(* most, is taken for one payment at most, of the amount that is asked for    *)
(* then, and pays once at most, from the wallet of its own card.              *)
EXTENDS Integers, Sequences

CONSTANTS
  Cards,    \* cards, each with a wallet
  Amounts,  \* amounts that can be asked for
  None,     \* null
  Opening,  \* wallet of a card -> what it holds at first
  Numbers   \* numbers of sessions

VARIABLES
  asked,     \* the amount asked for, or None
  sessions,  \* the attested sessions: the card each is of
  fresh,     \* the last session was not offered yet
  current,   \* the session on offer, or 0
  taken,     \* sessions taken for a payment, with its amount
  spent,     \* session -> the transfers it paid for
  balance    \* wallet of a card -> what it holds

vars == <<asked, sessions, fresh, current, taken, spent, balance>>

Init ==
  /\ asked = None
  /\ sessions = << >> /\ fresh = FALSE /\ current = 0
  /\ taken = {} /\ spent = [n \in Numbers |-> << >>]
  /\ balance = Opening

\* The operator asks for an amount, or for none.
Ask(amount) ==
  /\ asked' = amount
  /\ UNCHANGED <<sessions, fresh, current, taken, spent, balance>>

Attest(c) ==
  /\ ~fresh
  /\ sessions' = Append(sessions, c) /\ fresh' = TRUE
  /\ UNCHANGED <<asked, current, taken, spent, balance>>

\* A session comes on offer once, and what was on offer goes.
Offer ==
  /\ fresh
  /\ current' = Len(sessions) /\ fresh' = FALSE
  /\ UNCHANGED <<asked, sessions, taken, spent, balance>>

\* The card is gone, or another takes its place.
Withdraw ==
  /\ current' = 0
  /\ UNCHANGED <<asked, sessions, fresh, taken, spent, balance>>

\* The holder's face was seen.
Take ==
  /\ asked # None /\ current # 0
  /\ \A t \in taken : t.session # current
  /\ taken' = taken \cup {[session |-> current, amount |-> asked]}
  /\ current' = 0
  /\ UNCHANGED <<asked, sessions, fresh, spent, balance>>

Pay(t) ==
  LET payer == sessions[t.session] IN
  /\ spent[t.session] = << >>
  /\ balance[payer] >= t.amount
  /\ spent' = [spent EXCEPT ![t.session] = << [wallet |-> payer, amount |-> t.amount] >>]
  /\ balance' = [balance EXCEPT ![payer] = @ - t.amount]
  /\ UNCHANGED <<asked, sessions, fresh, current, taken>>

Next ==
  \/ \E amount \in Amounts \cup {None} : Ask(amount)
  \/ \E c \in Cards : Attest(c)
  \/ Offer \/ Withdraw \/ Take
  \/ \E t \in taken : Pay(t)

Spec == Init /\ [][Next]_vars
=============================================================================
