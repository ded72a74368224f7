--------------------------- MODULE PaymentTerminal ---------------------------
(* The terminal's page joined to the host daemon: events one way, faceOk      *)
(* reports the other, a person with cards on one side, operators on the other. *)
EXTENDS Facepay, Terminal

vars == <<facepayVars, terminalVars>>

Init == FacepayInit /\ TerminalInit

-----------------------------------------------------------------------------
Deliver ==
  /\ toTerm # << >>
  /\ Receive(Head(toTerm))
  /\ toTerm' = Tail(toTerm)
  /\ UNCHANGED <<connected, fromTerm, reader, daemonVars, chainVars, used>>

Capture == StartCapture /\ UNCHANGED facepayVars

\* report() without an open socket reaches nobody.
Answer ==
  /\ captures # << >>
  /\ \E out \in EngineOutcomes(Head(captures)) :
       /\ FinishCapture(out)
       /\ fromTerm' = IF connected THEN fromTerm \o FaceReports(out) ELSE fromTerm
  /\ UNCHANGED <<connected, toTerm, reader, daemonVars, chainVars, used>>

Tap == Leave /\ UNCHANGED facepayVars

Load == Reload /\ Connect

HostStep == (CardLoop \/ Operate \/ Payment \/ HandleFaceOk) /\ UNCHANGED terminalVars

Environment ==
  (Drop \/ \E c \in Idis \cup {None} : MoveCard(c)) /\ UNCHANGED terminalVars

Next == Deliver \/ Capture \/ Answer \/ Tap \/ Load \/ HostStep \/ Environment

Spec == Init /\ [][Next]_vars

-----------------------------------------------------------------------------
(* Safety.                                                                    *)

LoopSteps == {"poll", "authenticate", "attest", "balance", "publish", "announce", "removed"}
JobSteps == {"balance", "pay", "emit", "send", "done"}
Jobs == [idi : Idis, amount : Amounts, att : Attestations \cup {None}, face : Idis,
         ok : BOOLEAN, answered : BOOLEAN, pc : JobSteps]

\* The shape of the state.
TypeOK ==
  /\ TerminalTypeOK
  /\ reader \in Idis \cup {None} /\ last_idm \in Idis \cup {None}
  /\ loop \in [pc : LoopSteps, card : Idis \cup {None}, att : Attestations \cup {None},
               registered : BOOLEAN]
  /\ shared \in [pay_mode : Modes, current_idi : Idis \cup {None},
                 current_att : Attestations \cup {None}, last_card : Cards \cup {None},
                 last_payment : Results \cup {None}]
  /\ connected \in BOOLEAN
  /\ toTerm \in Seq(Messages) /\ fromTerm \in Seq(Idis)
  /\ ops \in [Operators -> [pc : {"idle", "send"}, mode : Modes, crossed : BOOLEAN]]
  /\ jobs \in Seq(Jobs)
  /\ issued \in Seq(Idis) /\ Len(issued) <= MaxMoves
  /\ burned \in [MaxR1 -> Seq(Transfers)]
  /\ balance \in [Idis -> Nat]
  /\ used \in [moves : 0..MaxMoves, ops : 0..MaxOps, connects : 0..MaxConnects,
               drops : 0..MaxDrops]

\* The wallet a transfer leaves is the one of the card whose session the proof
\* in the same transaction attests, across card swaps, removals and payments
\* that overlap: the IDi and the attestation of a payment were set together and
\* are taken together (facepay.rs:292-298, 647-652).
WalletMatchesProof ==
  \A r \in MaxR1 : \A i \in DOMAIN burned[r] :
    r \in DOMAIN issued /\ burned[r][i].wallet = issued[r]

\* A payment reported as made is on chain with its wallet and amount, and one
\* reported as failed is not, unless the chain's answer was lost; what the
\* terminal is shown as a success was one (facepay.rs:367-392).
ResultsAreTruthful ==
  /\ \A j \in DOMAIN jobs :
       LET job == jobs[j]
           made == << [wallet |-> job.idi, amount |-> job.amount] >>
       IN /\ job.ok => job.att # None /\ burned[job.att.r1] = made
          /\ (~job.ok /\ job.answered /\ job.att # None) => burned[job.att.r1] = << >>
  /\ \A result \in {ui.lcd} \cup {toTerm[i].result : i \in
                      {k \in DOMAIN toTerm : toTerm[k].type = "paymentResult"}} :
       (result # None /\ result.ok) =>
          \E j \in DOMAIN jobs : jobs[j].ok /\ jobs[j].amount = result.amount

\* Outside on_card and the removal, the current card is the one the card loop
\* last announced, and it has an attestation only while it is current: a swap
\* leaves the old card current until the new one is attested, and a removal
\* leaves nothing behind (facepay.rs:544-577).
CurrentIsAnnounced ==
  /\ loop.pc \in {"poll", "authenticate", "attest"} =>
       /\ shared.current_idi = last_idm
       /\ (shared.last_card = None) = (last_idm = None)
  /\ shared.current_att # None => shared.current_att.idi = shared.current_idi

\* A capture's screen, the prompt and the lcd are shown with their card or result.
\* So is what follows a face: the card on the page is the one whose holder is
\* enrolled, unless the answer was late: its capture had been left, or another
\* card had come up on its screen. A late answer still moves the page, to a balance
\* of no card or of another one (App.tsx:148-172, 222). And busy is the state of
\* the one capture in flight that the page waits for (FaceCapture.tsx:32-49).
ScreenHasItsData ==
  /\ ui.screen \in CaptureScreens \cup {"registerPrompt"} => ui.card # None
  /\ ui.screen = "lcd" => ui.lcd # None
  /\ ui.screen \in {"balance", "paying"} =>
       ui.late \/ (ui.card # None /\ ui.enrolledIdi = ui.card.idi)
  /\ Cardinality({i \in DOMAIN captures : captures[i].mine}) = IF ui.busy THEN 1 ELSE 0

\* With nothing on its way to it, a connected terminal knows what the host holds:
\* its card is the announced one, also after it loaded with a card on the reader
\* (facepay.rs:82-83), unless a tap or a failed face dismissed the card. A result
\* it holds is the host's last one, unless several payments ran, whose results may
\* cross. This is about what the page knows, not about the screen it shows: see
\* RemovedGoesIdle, and the result that hides the card after a load.
PageIsUpToDate ==
  (connected /\ toTerm = << >> /\ loop.pc \notin {"announce", "removed"}) =>
    /\ ui.card = IF ui.dismissed THEN None ELSE shared.last_card
    /\ (Len(jobs) <= 1 /\ \A j \in DOMAIN jobs : jobs[j].pc \notin {"emit", "send"}) =>
         ui.lcd \in {None, shared.last_payment}

\* With nothing on its way to it, a connected terminal shows the mode the host
\* is in, unless that mode was stored while another operator's thread had still
\* to send an earlier one, so that the two sends could cross. Connecting and
\* reloading while the mode is switched leave no old amount on the screen
\* (facepay.rs:230-249, 327-332).
ModeShown ==
  (connected /\ toTerm = << >> /\ \A o \in Operators : ops[o].pc = "idle") =>
    \/ ui.payMode = shared.pay_mode
    \/ \E o \in Operators : ops[o].crossed

\* What the daemon is to a merchant: a till. A session is on offer while its
\* attestation is current, and taken while a payment holds it. Threads, sends,
\* the link and the page only decide when the steps of the till are made, so
\* whatever they do in whatever order, a card pays what is asked for when its
\* holder's face is reported, once for a tap (facepay.rs:283-400).
SessionOf(att) == IF att = None THEN 0 ELSE att.r1
TakenSessions ==
  {[session |-> jobs[j].att.r1, amount |-> jobs[j].amount] :
     j \in {k \in DOMAIN jobs : jobs[k].att # None}}

HostTill == INSTANCE Till WITH
              Cards <- Idis, Opening <- InitBalance, Numbers <- MaxR1,
              asked <- shared.pay_mode, sessions <- issued, fresh <- (loop.att # None),
              current <- SessionOf(shared.current_att), taken <- TakenSessions,
              spent <- burned

KeepsTill == HostTill!Spec

-----------------------------------------------------------------------------
(* What the repository says and the code does not keep.                       *)

\* terminal.ts:38-39 has faceOk name the card whose holder's face matched; so
\* the wallet charged is that card's.
FaceMatchesPayer ==
  \A j \in DOMAIN jobs : jobs[j].ok => jobs[j].face = jobs[j].idi

\* terminal.ts:22: "Card removed / session ended -> back to idle". With no card on
\* the reader or announced, and nothing on its way to it, the page is idle, or
\* shows a payment's result.
RemovedGoesIdle ==
  (connected /\ toTerm = << >> /\ reader = None /\ last_idm = None /\ loop.pc = "poll") =>
    ui.screen \in {"waiting", "lcd"}

-----------------------------------------------------------------------------
(* Progress. The threads of the host run, helper processes end, the network   *)
(* and the page deliver; nobody has to move a card, tap or operate.           *)

Fairness ==
  /\ WF_vars(Deliver) /\ WF_vars(Answer)
  /\ WF_vars(HandleFaceOk /\ UNCHANGED terminalVars)
  /\ WF_vars(CardLoop /\ UNCHANGED terminalVars)
  /\ SF_vars(Authenticate /\ UNCHANGED terminalVars)
  /\ SF_vars(Attest /\ UNCHANGED terminalVars)
  /\ \A o \in Operators : WF_vars(SendMode(o) /\ UNCHANGED terminalVars)
  /\ \A j \in 1..MaxMoves + MaxConnects :
       WF_vars(j \in DOMAIN jobs /\ RunPayment(j) /\ UNCHANGED terminalVars)

LiveSpec == Spec /\ Fairness

\* A card left on the reader becomes the current card and stays it, and a card
\* taken away for good is forgotten, whatever failed attempts and swaps came
\* before (facepay.rs:537-583).
CardSettles ==
  \A c \in Idis \cup {None} : <>[](reader = c) => <>[](shared.current_idi = c)

\* Payments do not pile up: again and again every payment thread has ended,
\* with its result kept and sent (facepay.rs:339-400). A behaviour starts
\* finitely many, so each of them ends.
PaymentsEnd == []<>(\A j \in DOMAIN jobs : jobs[j].pc = "done")
=============================================================================
