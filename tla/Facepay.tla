------------------------------- MODULE Facepay -------------------------------
(* The host daemon facepay: the thread that reads cards, the operators'       *)
(* threads (CLI and admin GUI), the thread of the terminal's WebSocket, and a *)
(* thread per payment. They share one Mutex<Shared>; an action is one region  *)
(* under the lock, one send, or one call of a helper process, and between two *)
(* of them any other thread may run.                                          *)
EXTENDS TerminalProtocol, Sequences, FiniteSets, SequencesExt

CONSTANTS
  Operators,    \* threads that run set_pay_mode
  MerchantSet,  \* FACEPAY_MERCHANT is not empty
  InitBalance,  \* wallet of a card -> MIST
  MaxMoves,     \* bound: cards put on or taken off the reader
  MaxOps,       \* bound: operator commands
  MaxConnects,  \* bound: connections of the terminal
  MaxDrops,     \* bound: connections lost
  MaxQueue,     \* bound: events on their way to the terminal
  Starts        \* bound: how much of the others is used up when a behaviour starts

ASSUME FacepayAssumption ==
  /\ MerchantSet \in BOOLEAN
  /\ InitBalance \in [Idis -> Nat]
  /\ {MaxMoves, MaxOps, MaxConnects, MaxDrops, MaxQueue} \subseteq Nat
  /\ Starts \subseteq [moves : 0..MaxMoves, ops : 0..MaxOps, connects : 0..MaxConnects,
                      drops : 0..MaxDrops]

VARIABLES
  reader,     \* the card on the reader
  loop,       \* card_loop: its step, the card it polled, what it holds of it
  last_idm,   \* card_loop: the card it last announced
  shared,     \* Shared, less the client list
  connected,  \* the terminal's sender is in clients
  toTerm,     \* events on their way to the terminal
  fromTerm,   \* reports on their way to the daemon
  ops,        \* the operators' threads; crossed is history
  jobs,       \* the payment threads, in the order they were spawned
  issued,     \* r1 -> the card the oracle attested it for, r1 numbered by age
  burned,     \* r1 -> the transfers whose transaction burned it
  balance,    \* wallet of a card -> MIST
  used        \* how much of each bound is used up

daemonVars == <<loop, last_idm, shared, ops, jobs>>
linkVars == <<connected, toTerm, fromTerm>>
chainVars == <<issued, burned, balance>>
facepayVars == <<reader, daemonVars, linkVars, chainVars, used>>

MaxR1 == 1..MaxMoves
Attestations == [idi : Idis, r1 : MaxR1]
Transfers == [wallet : Idis, amount : Amounts]

ASSUME NoneAssumption == None \notin Cards \cup Results \cup Attestations

FacepayInit ==
  /\ reader = None
  /\ loop = [pc |-> "poll", card |-> None, att |-> None, registered |-> FALSE]
  /\ last_idm = None
  /\ shared = [pay_mode |-> None, current_idi |-> None, current_att |-> None,
               last_card |-> None, last_payment |-> None]
  /\ connected = FALSE /\ toTerm = << >> /\ fromTerm = << >>
  /\ ops = [o \in Operators |-> [pc |-> "idle", mode |-> None, crossed |-> FALSE]]
  /\ jobs = << >>
  /\ issued = << >>
  /\ burned = [r \in MaxR1 |-> << >>]
  /\ balance = InitBalance
  /\ used \in Starts

-----------------------------------------------------------------------------
(* Messages to the terminal.                                                  *)

\* send_terminal: a client that is not connected gets nothing.
Send(m) ==
  /\ Len(toTerm) < MaxQueue
  /\ toTerm' = IF connected THEN Append(toTerm, m) ELSE toTerm
  /\ UNCHANGED <<connected, fromTerm>>

\* Mutant: a new client is not told the mode.
SnapshotWithoutMode ==
  (IF shared.last_card = None THEN << >> ELSE << CardMsg(shared.last_card) >>)
    \o (IF shared.last_payment = None THEN << >> ELSE << ResultMsg(shared.last_payment) >>)

\* What ws_handle sends a client as it registers it.
Snapshot ==
  << ModeMsg(shared.pay_mode) >>
    \o (IF shared.last_card = None THEN << >> ELSE << CardMsg(shared.last_card) >>)
    \o (IF shared.last_payment = None THEN << >> ELSE << ResultMsg(shared.last_payment) >>)

-----------------------------------------------------------------------------
(* card_loop.                                                                 *)

\* Somebody puts a card on the reader, takes it off, or swaps it.
MoveCard(c) ==
  /\ used.moves < MaxMoves /\ c # reader
  /\ reader' = c
  /\ used' = [used EXCEPT !.moves = @ + 1]
  /\ UNCHANGED <<daemonVars, linkVars, chainVars>>

\* A card other than the announced one: "detecting" goes out before the oracle
\* is asked.
Detect ==
  /\ loop.pc = "poll" /\ reader # None /\ reader # last_idm
  /\ loop' = [loop EXCEPT !.pc = "authenticate", !.card = reader]
  /\ Send(Detecting)
  /\ UNCHANGED <<reader, last_idm, shared, ops, jobs, chainVars, used>>

\* challenge, Auth1, settle and Auth2 went through: the card was there.
Authenticate ==
  /\ loop.pc = "authenticate" /\ reader = loop.card
  /\ loop' = [loop EXCEPT !.pc = "attest"]
  /\ UNCHANGED <<reader, last_idm, shared, ops, jobs, linkVars, chainVars, used>>

\* The oracle proved the session; the card may be gone by now.
Attest ==
  /\ loop.pc = "attest" /\ Len(issued) < MaxMoves
  /\ issued' = Append(issued, loop.card)
  /\ loop' = [loop EXCEPT !.pc = "balance",
                          !.att = [idi |-> loop.card, r1 |-> Len(issued) + 1]]
  /\ last_idm' = loop.card
  /\ UNCHANGED <<reader, shared, ops, jobs, linkVars, burned, balance, used>>

\* Mutant: a card that failed counts as announced.
AttestFailsRemembers ==
  /\ loop.pc \in {"authenticate", "attest"}
  /\ loop' = [loop EXCEPT !.pc = "poll", !.card = None]
  /\ last_idm' = loop.card
  /\ UNCHANGED <<reader, shared, ops, jobs, linkVars, chainVars, used>>

\* The card or the oracle failed: nothing is told to anybody.
AttestFails ==
  /\ loop.pc \in {"authenticate", "attest"}
  /\ loop' = [loop EXCEPT !.pc = "poll", !.card = None]
  /\ UNCHANGED <<reader, last_idm, shared, ops, jobs, linkVars, chainVars, used>>

\* on_card asks the helper for the balance; a failed helper counts as "0".
LookUpBalance ==
  /\ loop.pc = "balance"
  /\ \E found \in {balance[loop.card], 0} :
       loop' = [loop EXCEPT !.pc = "publish", !.registered = found > 0]
  /\ UNCHANGED <<reader, last_idm, shared, ops, jobs, linkVars, chainVars, used>>

FoundCard == [idi |-> loop.card, registered |-> loop.registered]

PublishCard ==
  /\ loop.pc = "publish"
  /\ shared' = [shared EXCEPT !.current_idi = loop.card, !.current_att = loop.att,
                              !.last_card = FoundCard]
  /\ loop' = [loop EXCEPT !.pc = "announce", !.att = None]
  /\ UNCHANGED <<reader, last_idm, ops, jobs, linkVars, chainVars, used>>

AnnounceCard ==
  /\ loop.pc = "announce"
  /\ Send(CardMsg(FoundCard))
  /\ loop' = [loop EXCEPT !.pc = "poll", !.card = None, !.registered = FALSE]
  /\ UNCHANGED <<reader, last_idm, shared, ops, jobs, chainVars, used>>

\* Mutant: the attestation of the card that left is kept.
ForgetCardKeepsAtt ==
  /\ loop.pc = "poll" /\ reader = None /\ last_idm # None
  /\ last_idm' = None
  /\ shared' = [shared EXCEPT !.current_idi = None, !.last_card = None]
  /\ loop' = [loop EXCEPT !.pc = "removed"]
  /\ UNCHANGED <<reader, ops, jobs, linkVars, chainVars, used>>

\* A slow poll error: the reader opened and saw no card. (A fast one, or one
\* with no card announced, changes nothing.)
ForgetCard ==
  /\ loop.pc = "poll" /\ reader = None /\ last_idm # None
  /\ last_idm' = None
  /\ shared' = [shared EXCEPT !.current_idi = None, !.current_att = None, !.last_card = None]
  /\ loop' = [loop EXCEPT !.pc = "removed"]
  /\ UNCHANGED <<reader, ops, jobs, linkVars, chainVars, used>>

AnnounceRemoval ==
  /\ loop.pc = "removed"
  /\ Send(CardRemoved)
  /\ loop' = [loop EXCEPT !.pc = "poll"]
  /\ UNCHANGED <<reader, last_idm, shared, ops, jobs, chainVars, used>>

-----------------------------------------------------------------------------
(* set_pay_mode, run by the CLI's thread and by the admin GUI's.              *)

\* History: whose mode is the host's, and was stored while another operator's
\* thread had still to send its own.
Stored(o, mode) ==
  [p \in Operators |->
     IF p = o THEN [pc |-> "send", mode |-> mode,
                    crossed |-> \E q \in Operators \ {o} : ops[q].pc = "send"]
     ELSE [ops[p] EXCEPT !.crossed = FALSE]]

SetPayMode(o, mode) ==
  /\ ops[o].pc = "idle" /\ used.ops < MaxOps
  /\ shared' = [shared EXCEPT !.pay_mode = mode]
  /\ ops' = Stored(o, mode)
  /\ used' = [used EXCEPT !.ops = @ + 1]
  /\ UNCHANGED <<reader, loop, last_idm, jobs, linkVars, chainVars>>

SendMode(o) ==
  /\ ops[o].pc = "send"
  /\ Send(ModeMsg(ops[o].mode))
  /\ ops' = [ops EXCEPT ![o].pc = "idle", ![o].mode = None]
  /\ UNCHANGED <<reader, loop, last_idm, shared, jobs, chainVars, used>>

-----------------------------------------------------------------------------
(* ws_handle, for the terminal's connection.                                  *)

\* Registration and snapshot: events of other threads queue up behind it. What
\* the old connection had on its way to the terminal is gone, what it had on its
\* way to the daemon is read by its thread or lost.
Connect ==
  /\ used.connects < MaxConnects
  /\ connected' = TRUE /\ toTerm' = Snapshot
  /\ fromTerm' \in {fromTerm, << >>}
  /\ used' = [used EXCEPT !.connects = @ + 1]
  /\ UNCHANGED <<reader, daemonVars, chainVars>>

\* The connection breaks.
Drop ==
  /\ connected /\ used.drops < MaxDrops
  /\ connected' = FALSE /\ toTerm' = << >>
  /\ fromTerm' \in {fromTerm, << >>}
  /\ used' = [used EXCEPT !.drops = @ + 1]
  /\ UNCHANGED <<reader, daemonVars, chainVars>>

\* Mutant: the payment is charged to the card the report names.
NewJobOfReport ==
  [idi |-> Head(fromTerm), amount |-> shared.pay_mode, att |-> shared.current_att,
   face |-> Head(fromTerm), ok |-> FALSE, answered |-> TRUE,
   pc |-> IF MerchantSet /\ shared.current_att # None THEN "balance" ELSE "emit"]

\* A faceOk: with a payment pending and a card current, the attestation is
\* taken and a payment thread starts. Without merchant or attestation that
\* thread goes straight to its failure.
NewJob ==
  [idi |-> shared.current_idi, amount |-> shared.pay_mode, att |-> shared.current_att,
   face |-> Head(fromTerm), ok |-> FALSE, answered |-> TRUE,
   pc |-> IF MerchantSet /\ shared.current_att # None THEN "balance" ELSE "emit"]

\* Mutant: the attestation is copied and not taken.
HandleFaceOkCopies ==
  /\ fromTerm # << >>
  /\ fromTerm' = Tail(fromTerm)
  /\ jobs' = IF shared.pay_mode # None /\ shared.current_idi # None
               THEN Append(jobs, NewJob) ELSE jobs
  /\ UNCHANGED <<reader, loop, last_idm, shared, ops, connected, toTerm, chainVars, used>>

\* Mutant: a payment starts although none is pending.
HandleFaceOkAnyMode ==
  /\ fromTerm # << >>
  /\ fromTerm' = Tail(fromTerm)
  /\ IF shared.current_idi # None
       THEN /\ jobs' = Append(jobs, NewJob)
            /\ shared' = [shared EXCEPT !.current_att = None]
       ELSE UNCHANGED <<jobs, shared>>
  /\ UNCHANGED <<reader, loop, last_idm, ops, connected, toTerm, chainVars, used>>

HandleFaceOk ==
  /\ fromTerm # << >>
  /\ fromTerm' = Tail(fromTerm)
  /\ IF shared.pay_mode # None /\ shared.current_idi # None
       THEN /\ jobs' = Append(jobs, NewJob)
            /\ shared' = [shared EXCEPT !.current_att = None]
       ELSE UNCHANGED <<jobs, shared>>
  /\ UNCHANGED <<reader, loop, last_idm, ops, connected, toTerm, chainVars, used>>

-----------------------------------------------------------------------------
(* run_payment, one thread per job.                                           *)

AdvanceJob(j, pc) == jobs' = [jobs EXCEPT ![j].pc = pc]

\* Mutant: a short balance ends the thread before it tells anybody.
CheckBalanceReturns(j) ==
  /\ jobs[j].pc = "balance"
  /\ \E found \in {balance[jobs[j].idi], 0} :
       AdvanceJob(j, IF found < jobs[j].amount THEN "returned" ELSE "pay")
  /\ UNCHANGED <<reader, loop, last_idm, shared, ops, linkVars, chainVars, used>>

\* The helper's balance, or 0 when the helper fails, decides.
CheckBalance(j) ==
  /\ jobs[j].pc = "balance"
  /\ \E found \in {balance[jobs[j].idi], 0} :
       AdvanceJob(j, IF found < jobs[j].amount THEN "emit" ELSE "pay")
  /\ UNCHANGED <<reader, loop, last_idm, shared, ops, linkVars, chainVars, used>>

\* The gate accepts the attestation and the same transaction transfers: what
\* Gate's theorem ImplementsSingleSpend allows. The answer may be lost.
PayExecutes(j) ==
  LET job == jobs[j] IN
  /\ job.pc = "pay"
  /\ burned[job.att.r1] = << >>
  /\ balance[job.idi] >= job.amount
  /\ burned' = [burned EXCEPT ![job.att.r1] =
                  << [wallet |-> job.idi, amount |-> job.amount] >>]
  /\ balance' = [balance EXCEPT ![job.idi] = @ - job.amount]
  /\ \E answered \in BOOLEAN :
       jobs' = [jobs EXCEPT ![j].pc = "emit", ![j].ok = answered, ![j].answered = answered]
  /\ UNCHANGED <<reader, loop, last_idm, shared, ops, linkVars, issued, used>>

\* Mutant: the helper's exit code is not looked at.
PayFailsUnseen(j) ==
  /\ jobs[j].pc = "pay"
  /\ jobs' = [jobs EXCEPT ![j].pc = "emit", ![j].ok = TRUE]
  /\ UNCHANGED <<reader, loop, last_idm, shared, ops, linkVars, chainVars, used>>

\* The gate aborts, the wallet is short, or the transaction is never sent.
PayFails(j) ==
  /\ jobs[j].pc = "pay"
  /\ AdvanceJob(j, "emit")
  /\ UNCHANGED <<reader, loop, last_idm, shared, ops, linkVars, chainVars, used>>

\* Without a merchant the failure names amount 0.
JobResult(job) == [ok |-> job.ok, amount |-> IF MerchantSet THEN job.amount ELSE 0]

\* emit_payment: kept under the lock, then sent.
KeepResult(j) ==
  /\ jobs[j].pc = "emit"
  /\ shared' = [shared EXCEPT !.last_payment = JobResult(jobs[j])]
  /\ AdvanceJob(j, "send")
  /\ UNCHANGED <<reader, loop, last_idm, ops, linkVars, chainVars, used>>

SendResult(j) ==
  /\ jobs[j].pc = "send"
  /\ Send(ResultMsg(JobResult(jobs[j])))
  /\ AdvanceJob(j, "done")
  /\ UNCHANGED <<reader, loop, last_idm, shared, ops, chainVars, used>>

-----------------------------------------------------------------------------
CardLoop ==
  \/ Detect \/ Authenticate \/ Attest \/ AttestFails \/ LookUpBalance
  \/ PublishCard \/ AnnounceCard \/ ForgetCard \/ AnnounceRemoval

Operate == \E o \in Operators : SendMode(o) \/ \E mode \in Modes : SetPayMode(o, mode)

RunPayment(j) ==
  CheckBalance(j) \/ PayExecutes(j) \/ PayFails(j) \/ KeepResult(j) \/ SendResult(j)

Payment == \E j \in DOMAIN jobs : RunPayment(j)
=============================================================================
