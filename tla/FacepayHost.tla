----------------------------- MODULE FacepayHost -----------------------------
(* The older host daemon facepay-host: the thread that reads cards, the       *)
(* operator's CLI with its simulated cards, a thread per connection of the    *)
(* terminal, a thread per payment. There is one sender to the terminal, and   *)
(* what the terminal was told is not told again when it connects. An action   *)
(* is one region under the lock, one send, or one call of a helper process.   *)
EXTENDS TerminalProtocol, Sequences

CONSTANTS
  MerchantSet,  \* FACEPAY_MERCHANT is not empty
  InitBalance,  \* wallet of a card -> MIST
  Budgets,      \* bounds: how often each kind of Kinds may happen in a behaviour
  MaxTaps,      \* bound: attestations used
  MaxQueue      \* bound: events on their way to the terminal

\* Cards moved, polls that fail although a card is there, pay and idle
\* commands, testcard and remove commands, connections, connections lost, faceOk reports.
Kinds == {"moves", "glitches", "modes", "sims", "connects", "drops", "reports"}

ASSUME HostAssumption ==
  /\ MerchantSet \in BOOLEAN
  /\ InitBalance \in [Idis -> Nat]
  /\ Budgets \subseteq [Kinds -> Nat]
  /\ {MaxTaps, MaxQueue} \subseteq Nat

VARIABLES
  reader,    \* the card on the reader
  loop,      \* felica_loop: its step, the card it polled, what it holds of it
  last_idm,  \* felica_loop: the card it last announced
  shared,    \* Shared; term_tx is the number of a connection, or 0
  cli,       \* the CLI's thread: what it has stored and not yet sent
  sims,      \* the threads of simulated cards
  conns,     \* the connections' threads, by connection
  toTerm,    \* events on their way to the page
  page,      \* the page: its connection, or 0, and what it was last told
  jobs,      \* the payment threads, in the order they were spawned
  issued,    \* r1 -> the card the oracle attested it for, r1 numbered by age
  burned,    \* r1 -> the transfers whose transaction burned it
  balance,   \* wallet of a card -> MIST
  history,   \* threads published at the same time; a card was simulated
  left       \* what is left of each bound

readerVars == <<loop, last_idm>>
linkVars == <<conns, toTerm, page>>
chainVars == <<issued, burned, balance>>
vars == <<reader, readerVars, shared, cli, sims, linkVars, jobs, chainVars, history, left>>

MaxR1 == 1..MaxTaps
Attestations == [idi : Idis, r1 : MaxR1]

ASSUME NoneAssumption == None \notin Attestations

FreshPage(link) == [link |-> link, mode |-> None, card |-> None, missed |-> FALSE]

Init ==
  /\ reader = None
  /\ loop = [pc |-> "poll", card |-> None, att |-> None]
  /\ last_idm = None
  /\ shared = [pay_mode |-> None, current_idi |-> None, current_att |-> None, term_tx |-> 0]
  /\ cli = [pc |-> "read", mode |-> None]
  /\ sims = << >>
  /\ conns = << >> /\ toTerm = << >> /\ page = FreshPage(0)
  /\ jobs = << >>
  /\ issued = << >>
  /\ burned = [r \in MaxR1 |-> << >>]
  /\ balance = InitBalance
  /\ history = [crossed |-> FALSE, simulated |-> FALSE]
  /\ left \in Budgets

Use(kind) ==
  /\ left[kind] > 0
  /\ left' = [left EXCEPT ![kind] = @ - 1]

-----------------------------------------------------------------------------
(* send_terminal: the sender's connection gets the message, and the page if   *)
(* that connection is the page's.                                             *)

Tellable == page.link # 0 /\ shared.term_tx = page.link

AboutCard(m) == m.type \in {"card", "cardRemoved"}

Send(m) ==
  /\ Len(toTerm) < MaxQueue
  /\ IF Tellable THEN toTerm' = Append(toTerm, m) /\ UNCHANGED page
     ELSE page' = [page EXCEPT !.missed = @ \/ AboutCard(m)] /\ UNCHANGED toTerm
  /\ UNCHANGED conns

CardEvent(c) == [type |-> "card", card |-> c]

\* Somebody has stored a card, or that there is none, and has not yet sent it.
Publishing ==
  \/ loop.pc \in {"announce", "removed"}
  \/ cli.pc = "removed"
  \/ \E i \in DOMAIN sims : sims[i].pc = "announce"

\* Stores the current card; if another thread is publishing, their events may
\* go out in the other order.
StoreCard(c, att, simulated) ==
  /\ shared' = [shared EXCEPT !.current_idi = c, !.current_att = att]
  /\ history' = [crossed |-> history.crossed \/ Publishing,
                 simulated |-> history.simulated \/ simulated]

-----------------------------------------------------------------------------
(* felica_loop.                                                               *)

MoveCard(c) ==
  /\ Use("moves") /\ c # reader
  /\ reader' = c
  /\ UNCHANGED <<readerVars, shared, cli, sims, linkVars, jobs, chainVars, history>>

\* Every round runs the whole session, also for the card announced already.
Poll ==
  /\ loop.pc = "poll" /\ reader # None
  /\ loop' = [loop EXCEPT !.pc = "session", !.card = reader]
  /\ UNCHANGED <<reader, last_idm, shared, cli, sims, linkVars, jobs, chainVars, history, left>>

\* challenge, Authentication1, settle and Authentication2 went through.
Authenticate ==
  /\ loop.pc = "session" /\ reader = loop.card
  /\ loop' = [loop EXCEPT !.pc = "attest"]
  /\ UNCHANGED <<reader, last_idm, shared, cli, sims, linkVars, jobs, chainVars, history, left>>

\* The oracle attested. For the card announced already the proof is thrown away.
ReadCard ==
  /\ loop.pc = "attest"
  /\ IF loop.card = last_idm
       THEN loop' = [loop EXCEPT !.pc = "poll", !.card = None] /\ UNCHANGED <<last_idm, issued>>
       ELSE /\ Len(issued) < MaxTaps
            /\ issued' = Append(issued, loop.card)
            /\ last_idm' = loop.card
            /\ loop' = [loop EXCEPT !.pc = "store",
                                    !.att = [idi |-> loop.card, r1 |-> Len(issued) + 1]]
  /\ UNCHANGED <<reader, shared, cli, sims, linkVars, jobs, burned, balance, history, left>>

SessionEnds(announced) ==
  /\ loop.pc \in {"session", "attest"}
  /\ loop' = [loop EXCEPT !.pc = "poll", !.card = None]
  /\ last_idm' = announced
  /\ UNCHANGED <<reader, shared, cli, sims, linkVars, jobs, chainVars, history, left>>

\* Mutant: a card whose session failed counts as announced.
ReadFailsRemembers == SessionEnds(loop.card)

\* The card left or the oracle failed; the next poll tries again.
ReadFails == SessionEnds(last_idm)

\* on_card after its balance lookup, run by felica_loop.
PublishCard ==
  /\ loop.pc = "store"
  /\ StoreCard(loop.card, loop.att, FALSE)
  /\ loop' = [loop EXCEPT !.pc = "announce", !.att = None]
  /\ UNCHANGED <<reader, last_idm, cli, sims, linkVars, jobs, chainVars, left>>

AnnounceCard ==
  /\ loop.pc = "announce"
  /\ Send(CardEvent(loop.card))
  /\ loop' = [loop EXCEPT !.pc = "poll", !.card = None]
  /\ UNCHANGED <<reader, last_idm, shared, cli, sims, jobs, chainVars, history, left>>

\* Any error of a poll reads as "no card".
NoCardFound ==
  /\ loop.pc = "poll" /\ last_idm # None
  /\ \/ reader = None /\ UNCHANGED left
     \/ reader # None /\ Use("glitches")

Forget(att, next) ==
  /\ NoCardFound
  /\ last_idm' = None
  /\ StoreCard(None, att, FALSE)
  /\ loop' = [loop EXCEPT !.pc = next]
  /\ UNCHANGED <<reader, cli, sims, linkVars, jobs, chainVars>>

\* Mutants: the attestation is kept; the terminal is not told.
ForgetCardKeepsAtt == Forget(shared.current_att, "removed")
ForgetCardSilently == Forget(None, "poll")

ForgetCard == Forget(None, "removed")

AnnounceRemoval ==
  /\ loop.pc = "removed"
  /\ Send(CardRemoved)
  /\ loop' = [loop EXCEPT !.pc = "poll"]
  /\ UNCHANGED <<reader, last_idm, shared, cli, sims, jobs, chainVars, history, left>>

-----------------------------------------------------------------------------
(* cli_loop: one thread, a command at a time. testcard starts a thread and    *)
(* goes on to the next command.                                               *)

SetMode(mode) ==
  /\ cli.pc = "read" /\ Use("modes")
  /\ shared' = [shared EXCEPT !.pay_mode = mode]
  /\ cli' = [pc |-> "mode", mode |-> mode]
  /\ UNCHANGED <<reader, readerVars, sims, linkVars, jobs, chainVars, history>>

SendMode ==
  /\ cli.pc = "mode"
  /\ Send(ModeMsg(cli.mode))
  /\ cli' = [pc |-> "read", mode |-> None]
  /\ UNCHANGED <<reader, readerVars, shared, sims, jobs, chainVars, history, left>>

TestCard(c) ==
  /\ cli.pc = "read" /\ Use("sims")
  /\ sims' = Append(sims, [pc |-> "store", card |-> c])
  /\ history' = [history EXCEPT !.simulated = TRUE]
  /\ UNCHANGED <<reader, readerVars, shared, cli, linkVars, jobs, chainVars>>

Remove ==
  /\ cli.pc = "read" /\ Use("sims")
  /\ StoreCard(None, None, TRUE)
  /\ cli' = [cli EXCEPT !.pc = "removed"]
  /\ UNCHANGED <<reader, readerVars, sims, linkVars, jobs, chainVars>>

SendRemoved ==
  /\ cli.pc = "removed"
  /\ Send(CardRemoved)
  /\ cli' = [cli EXCEPT !.pc = "read"]
  /\ UNCHANGED <<reader, readerVars, shared, sims, jobs, chainVars, history, left>>

StoreSim(i, att) ==
  /\ sims[i].pc = "store"
  /\ StoreCard(sims[i].card, att, TRUE)
  /\ sims' = [sims EXCEPT ![i].pc = "announce"]
  /\ UNCHANGED <<reader, readerVars, cli, linkVars, jobs, chainVars, left>>

\* Mutant: the attestation of the card before it is kept.
PublishSimKeepsAtt(i) == StoreSim(i, shared.current_att)

\* on_card after its balance lookup, run by a simulated card's thread.
PublishSim(i) == StoreSim(i, None)

AnnounceSim(i) ==
  /\ sims[i].pc = "announce"
  /\ Send(CardEvent(sims[i].card))
  /\ sims' = [sims EXCEPT ![i].pc = "done"]
  /\ UNCHANGED <<reader, readerVars, shared, cli, jobs, chainVars, history, left>>

-----------------------------------------------------------------------------
(* ws_handle.                                                                 *)

Register(new, term_tx, told) ==
  /\ page.link = 0 /\ Use("connects")
  /\ conns' = Append(conns, [up |-> TRUE, reports |-> 0, silenced |-> 0])
  /\ shared' = [shared EXCEPT !.term_tx = term_tx]
  /\ toTerm' = told
  /\ page' = IF new THEN FreshPage(Len(conns) + 1) ELSE [page EXCEPT !.link = Len(conns) + 1]
  /\ UNCHANGED <<reader, readerVars, cli, sims, jobs, chainVars, history>>

\* Mutants: only the first connection registers; the mode is not announced.
ConnectFirst(new) ==
  Register(new, IF shared.term_tx = 0 THEN Len(conns) + 1 ELSE shared.term_tx,
           << ModeMsg(shared.pay_mode) >>)
ConnectUntold(new) == Register(new, Len(conns) + 1, << >>)

\* The page connects, again or after it was loaded again. Its connection takes
\* the place of the sender, and the mode read under the lock goes first.
Connect(new) == Register(new, Len(conns) + 1, << ModeMsg(shared.pay_mode) >>)

Deliver ==
  /\ toTerm # << >>
  /\ LET m == Head(toTerm) IN
     page' = CASE m.type = "mode" -> [page EXCEPT !.mode = m.payment]
               [] m.type = "card" -> [page EXCEPT !.card = m.card]
               [] m.type = "cardRemoved" -> [page EXCEPT !.card = None]
               [] OTHER -> page
  /\ toTerm' = Tail(toTerm)
  /\ UNCHANGED <<reader, readerVars, shared, cli, sims, conns, jobs, chainVars, history, left>>

\* The page's end of the connection goes, with the events on their way to it.
Disconnect ==
  /\ page.link # 0 /\ Use("drops")
  /\ page' = [page EXCEPT !.link = 0,
                !.missed = @ \/ \E i \in DOMAIN toTerm : AboutCard(toTerm[i])]
  /\ toTerm' = << >>
  /\ UNCHANGED <<reader, readerVars, shared, cli, sims, conns, jobs, chainVars, history>>

\* The thread of a connection that is gone notices: on a Close frame it drops
\* the sender, whosever it is by now; on an error it returns and leaves it.
ConnectionEnds(i) ==
  /\ conns[i].up /\ page.link # i
  /\ \/ /\ shared' = [shared EXCEPT !.term_tx = 0]
        /\ conns' = [conns EXCEPT ![i].up = FALSE, ![i].silenced = Len(conns)]
     \/ /\ conns' = [conns EXCEPT ![i].up = FALSE]
        /\ UNCHANGED shared
  /\ UNCHANGED <<reader, readerVars, cli, sims, toTerm, page, jobs, chainVars, history, left>>

\* The page reports a face; which one, the host does not look at.
Report ==
  /\ page.link # 0 /\ Use("reports")
  /\ conns' = [conns EXCEPT ![page.link].reports = @ + 1]
  /\ UNCHANGED <<reader, readerVars, shared, cli, sims, toTerm, page, jobs, chainVars, history>>

\* run_payment ends at once without a merchant or an attestation. History: the
\* connection that asked, and how often a page was told the result.
NewJob(i) ==
  [idi |-> shared.current_idi, amount |-> shared.pay_mode, att |-> shared.current_att,
   ok |-> FALSE, link |-> i, told |-> 0,
   pc |-> IF MerchantSet /\ shared.current_att # None THEN "balance" ELSE "send"]

TakeReport(i, payable) ==
  /\ conns[i].up /\ conns[i].reports > 0
  /\ conns' = [conns EXCEPT ![i].reports = @ - 1]
  /\ IF payable
       THEN /\ jobs' = Append(jobs, NewJob(i))
            /\ shared' = [shared EXCEPT !.current_att = None]
       ELSE UNCHANGED <<jobs, shared>>
  /\ UNCHANGED <<reader, readerVars, cli, sims, toTerm, page, chainVars, history, left>>

\* Mutant: a payment starts although none is pending.
HandleFaceOkAnyMode(i) == TakeReport(i, shared.current_idi # None)

HandleFaceOk(i) == TakeReport(i, shared.pay_mode # None /\ shared.current_idi # None)

-----------------------------------------------------------------------------
(* run_payment, one thread per job.                                           *)

AskBalance(j, short) ==
  /\ jobs[j].pc = "balance"
  /\ \E found \in {balance[jobs[j].idi], 0} :
       jobs' = [jobs EXCEPT ![j].pc = IF found < jobs[j].amount THEN short ELSE "pay"]
  /\ UNCHANGED <<reader, readerVars, shared, cli, sims, linkVars, chainVars, history, left>>

\* Mutant: a short balance ends the thread without a word.
CheckBalanceReturns(j) == AskBalance(j, "done")

\* The helper's balance, or 0 when the helper fails, decides.
CheckBalance(j) == AskBalance(j, "send")

\* The transaction executes; the helper may not hear of it.
PayExecutes(j) ==
  LET job == jobs[j] IN
  /\ job.pc = "pay"
  /\ burned[job.att.r1] = << >>
  /\ balance[job.idi] >= job.amount
  /\ burned' = [burned EXCEPT ![job.att.r1] =
                  << [wallet |-> job.idi, amount |-> job.amount] >>]
  /\ balance' = [balance EXCEPT ![job.idi] = @ - job.amount]
  /\ \E heard \in BOOLEAN : jobs' = [jobs EXCEPT ![j].pc = "send", ![j].ok = heard]
  /\ UNCHANGED <<reader, readerVars, shared, cli, sims, linkVars, issued, history, left>>

PayFails(j) ==
  /\ jobs[j].pc = "pay"
  /\ jobs' = [jobs EXCEPT ![j].pc = "send"]
  /\ UNCHANGED <<reader, readerVars, shared, cli, sims, linkVars, chainVars, history, left>>

\* The result goes the way of every event: without a sender it is dropped.
SendResult(j) ==
  /\ jobs[j].pc = "send"
  /\ Send(ResultMsg([ok |-> jobs[j].ok, amount |-> IF MerchantSet THEN jobs[j].amount ELSE 0]))
  /\ jobs' = [jobs EXCEPT ![j].pc = "done", ![j].told = IF Tellable THEN @ + 1 ELSE @]
  /\ UNCHANGED <<reader, readerVars, shared, cli, sims, chainVars, history, left>>

-----------------------------------------------------------------------------
FelicaLoop ==
  \/ Poll \/ Authenticate \/ ReadCard \/ ReadFails \/ PublishCard \/ AnnounceCard
  \/ ForgetCard \/ AnnounceRemoval

Commands ==
  \/ \E mode \in Modes : SetMode(mode)
  \/ \E c \in Idis : TestCard(c)
  \/ Remove

Sending == SendMode \/ SendRemoved

Simulate == \E i \in DOMAIN sims : PublishSim(i) \/ AnnounceSim(i)

Link ==
  \/ \E new \in BOOLEAN : Connect(new)
  \/ Deliver \/ Disconnect \/ Report
  \/ \E i \in DOMAIN conns : ConnectionEnds(i) \/ HandleFaceOk(i)

RunPayment(j) == CheckBalance(j) \/ PayExecutes(j) \/ PayFails(j) \/ SendResult(j)

Next ==
  \/ \E c \in Idis \cup {None} : MoveCard(c)
  \/ FelicaLoop \/ Commands \/ Sending \/ Simulate \/ Link
  \/ \E j \in DOMAIN jobs : RunPayment(j)

MaxJobs == CHOOSE n \in {b.reports : b \in Budgets} : \A b \in Budgets : b.reports <= n

\* The daemon's threads run and the network delivers; a card that stays and an
\* oracle that is up do not fail for ever.
Fairness ==
  /\ WF_vars(FelicaLoop) /\ SF_vars(Authenticate) /\ SF_vars(ReadCard)
  /\ WF_vars(Sending) /\ WF_vars(Simulate) /\ WF_vars(Deliver)
  /\ \A j \in 1..MaxJobs : WF_vars(j \in DOMAIN jobs /\ RunPayment(j))

Spec == Init /\ [][Next]_vars /\ Fairness

-----------------------------------------------------------------------------
(* Properties.                                                                *)

\* The shape of the state.
TypeOK ==
  /\ reader \in Idis \cup {None} /\ last_idm \in Idis \cup {None}
  /\ loop \in [pc : {"poll", "session", "attest", "store", "announce", "removed"},
               card : Idis \cup {None}, att : Attestations \cup {None}]
  /\ shared \in [pay_mode : Modes, current_idi : Idis \cup {None},
                 current_att : Attestations \cup {None}, term_tx : Nat]
  /\ cli \in [pc : {"read", "mode", "removed"}, mode : Modes]
  /\ sims \in Seq([pc : {"store", "announce", "done"}, card : Idis])
  /\ conns \in Seq([up : BOOLEAN, reports : Nat, silenced : Nat])
  /\ page \in [link : Nat, mode : Modes, card : Idis \cup {None}, missed : BOOLEAN]
  /\ jobs \in Seq([idi : Idis, amount : Amounts, att : Attestations \cup {None},
                   ok : BOOLEAN, link : Nat, told : 0..1,
                   pc : {"balance", "pay", "send", "done"}])
  /\ balance \in [Idis -> Nat]

\* Money leaves a wallet only for the card whose session the burned proof
\* attests, and a simulated card, which has no proof, never pays, also when it
\* takes the place of a tapped card between the tap and the face (main.rs:362).
OnlyTappedCardsPay ==
  /\ \A r \in MaxR1 : \A i \in DOMAIN burned[r] :
       r \in DOMAIN issued /\ burned[r][i].wallet = issued[r]
  /\ \A j \in DOMAIN jobs : jobs[j].ok =>
       jobs[j].att # None /\ jobs[j].att.idi = jobs[j].idi /\ burned[jobs[j].att.r1] # << >>

\* An attestation lies in Shared only for the card that the card loop last
\* announced, except while that loop is about to publish the next one: neither
\* remove nor testcard nor a failed poll leaves one behind (main.rs:369-374).
AttestationOfLastTap ==
  shared.current_att # None =>
    /\ shared.current_att.idi = shared.current_idi
    /\ loop.pc # "store" => shared.current_idi = last_idm

\* A late Close dropped the sender of that connection.
Silenced(link) == \E i \in 1..link - 1 : conns[i].silenced = link

\* A page that is connected gets the host's events, unless the thread of an
\* older connection handled its Close after this one registered and dropped the
\* new sender (main.rs:168-171). An old connection that ends with an error, or
\* in time, silences nobody.
OnlyLateCloseSilences ==
  page.link # 0 =>
    \/ shared.term_tx = page.link
    \/ shared.term_tx = 0 /\ Silenced(page.link)

\* A page that hears the host, with nothing on its way to it, shows the mode
\* the host is in, whatever connections came and went (main.rs:145-151).
ModeShown ==
  (Tellable /\ toTerm = << >> /\ cli.pc # "mode") => page.mode = shared.pay_mode

\* Once all is told, a page that shows a card shows the current one, unless two
\* threads published at once (testcard's, remove's and the card loop's sends may
\* overtake each other, main.rs:364) or an event about a card was lost on a dead
\* connection, which a later connection does not make up for.
StaleCardHasACause ==
  (Tellable /\ toTerm = << >> /\ ~Publishing) =>
    page.card \in {None, shared.current_idi} \/ history.crossed \/ page.missed

\* A card that stays on the reader becomes the current one, and a card taken
\* away is forgotten, whatever sessions and polls failed before; only the
\* simulated commands may leave another (main.rs:400-429).
ReaderSettles ==
  \A c \in Idis \cup {None} :
    <>[](reader = c) => <>[](shared.current_idi = c \/ history.simulated)

\* Every payment ends, on whatever path, and the page that asked for it is told
\* the result, unless its connection was lost meanwhile or a late Close took its
\* sender: nobody keeps a result that send_terminal drops (main.rs:99-104, 168-171).
PaymentsAnswered ==
  \A j \in 1..MaxJobs :
    j \in DOMAIN jobs ~>
      /\ j \in DOMAIN jobs /\ jobs[j].pc = "done"
      /\ jobs[j].told = 1 \/ page.link # jobs[j].link \/ Silenced(jobs[j].link)
=============================================================================
