# SuiCash, specified

SuiCash turns a FeliCa transit card into a Sui wallet. A tap authenticates the card to an oracle, the oracle answers with
a Groth16 proof that this card answered this challenge, a face on the payment terminal confirms the holder, and a host PC
pays on chain with a transaction that verifies the proof first. This directory specifies the parts of that chain that
keep state, checks them with TLC, and proves with TLAPS every safety property that a passing run checks.

## The system

| Component | Source | State it keeps | Operations |
|---|---|---|---|
| On-chain gate | `sui/felica_oracle/sources` | per gate: pinned key, burned challenges, allowlist, drift bound; the operator role | verify (anybody), create (root), allow, disallow, retune (operator) |
| Payment daemon `facepay` | `usb-poc/src/bin/facepay.rs` | `Mutex<Shared>`: pending amount, current card and attestation, clients, last card and last payment event; `last_idm` of the card loop | card loop, operators (CLI, GUI), WebSocket threads, one thread per payment |
| Payment helper | `usb-poc/facepay/sui-pay.mjs` | none; the chain | balance, pay |
| Terminal page | `face-auth-ui/src` | screen, card, mode, result, whose face is enrolled; captures in flight | host events, captures, taps, reload |
| Device shell | `face-auth-ui/device-shell` | one-person face store, blinking thread, camera and session, page and its pending requests | engine requests one by one, LED modes, camera start and stop, load, pause |
| Oracle server | `server/src` | key cache, proof slot; sessions are stateless | challenge, settle, attest |
| Reader client | `usb-poc/src/main.rs`, `card.rs`, `oracle.rs` | one run: the key it pinned, the card it polled, R1, the blocks and the attestation | ping, fetch the key, poll, Authentication1 and 2, verify |
| Older daemon | `facepay-host/src/main.rs` | like `facepay` with one terminal sender, and simulated cards | card loop, CLI, WebSocket |
| Admin GUI | `facepay-admin/src/main.rs` | command queue, mirror of the daemon's status, child process | connect, send, mirror |
| Prover | `prover/src` | none | prove, verify, conversions |
| Registration web | `regist-web/src` | wizard step, local storage | card number, face, wallet |

How they interact: the daemon's card loop runs a session between the card and the oracle and publishes the card and its
attestation under the lock; events go to every WebSocket client through a channel per client; the page answers with a
`faceOk`; the WebSocket thread then takes the attestation and starts a payment thread, which calls the helper, which
submits one transaction: `suicash_gate::verify`, then the transfer. The gate burns the challenge, so an attestation pays
once.

What is hard: the threads of the daemon meet only at the lock, and every send happens after it is released; the page's
captures outlive the screens that started them; the card on the reader changes at any time, also in the middle of a
session; the link to the terminal breaks and comes back; the chain's answer can be lost; and at the gate an attestation
is presented again, altered, late, or to a gate with another policy.

### What makes each component correct

- **Gate.** A holder challenge is burned at most once per gate and only by an accepted presentation; what is accepted was
  proved, for that card, that challenge and that time; a closed gate never opens; a revocation revokes; only a holder of
  the role changes policy.
- **facepay.** A payment uses the IDi and the attestation of one session; an attestation is in one place at a time; what
  is reported as paid is on chain; the current card is the one announced; a card that stays is announced, one that leaves
  is forgotten; every payment thread reports.
- **Terminal page.** No screen without its data; one capture at a time for the screen shown; the mode shown is the host's;
  the page agrees with the reader after a removal and after a reload.
- **Oracle server and reader.** An attestation stands for one session that happened, up to the two bytes of R1 that nothing
  binds to it; the native check and the prover agree;
  an answer belongs to the call that gets it; it is fresh; every call ends; the proofs that run are bounded.
- **Device shell.** The LED shows the colour asked for last on every pin that its write reached; the camera streams exactly while the page captures; an answer
  of the engine never makes a success of something else.
- **Older daemon.** Only tapped cards pay; a payment ends and its page is told; an attestation lies in the state only for the card tapped last; a page that is
  connected hears the daemon; a card shown that is not current has a known cause.
- **Admin GUI.** What it shows is what the daemon holds; a click is carried out once at most; GUIs do not add daemons to
  each other's; a GUI gets back to its daemon.
- **Reader client.** Exit code 0 stands for this run's session, and a faithful attestation is not rejected.
- **Registration web.** A wizard in one tab; its step follows from one record in local storage. Not modelled.

## The modules

```
SingleSpend <=implements= Gate <-- GateProofs                              MCGate
TerminalProtocol <-- Facepay  \
                 <-- Terminal  --> PaymentTerminal =implements=> Till      MCPaymentTerminal
                                     <-- PaymentSafetyProofs <-- PaymentPageProofs
                 <-- FacepayHost <-- FacepayHostProofs =implements=> Till  MCFacepayHost
AdminConsole <-- AdminConsoleProofs                                        MCAdminConsole
LedController, CameraHost, EngineBridge
                 --> DeviceShell <-- DeviceShellProofs                     MCDeviceShell
CardSession <-- OracleServer <-- OracleServerProofs                        MCOracleServer
            <-- ReaderClient <-- ReaderClientProofs                        MCReaderClient
```

**SingleSpend** is the abstract specification of the gates: per gate and challenge a sequence of accepted claims, and one
action that fills an empty one with a claim somebody proved. It has no action for a second presentation.

**Till** is the abstract specification of both payment daemons, without readers, threads, messages and pages: an amount is
asked for (`Ask`); a card's session is attested (`Attest`), comes on offer once (`Offer`) or is withdrawn (`Withdraw`); the
holder's face takes the session on offer for the amount asked for (`Take`), at most once; and what was taken pays at most
once, from the wallet of the session's card (`Pay`). The mapping is the same for both: a session is an attestation's `r1`,
fresh while the card loop holds it, on offer while it is `current_att`, taken while a payment thread holds it. Detecting,
announcing, every send, the link, the page, the balance lookup and the results are stuttering steps; so are a `faceOk` when
nothing is pending and a payment without an attestation.

**Gate** is the Move package. An action is one Move call in one transaction. A call that aborts reverts, so only accepting
paths are actions. `Verify` is `suicash_gate::verify` with `gate::verify_and_claim`; `Accepts` lists its checks in the
order of the code (framing, drift, allowlist, challenge, dedup, envelope, pairing), each an operator named after the Move
function. `CreateGate`, `Allow`, `Disallow`, `SetMaxClockDrift` are the administration; an `Auth` cannot outlive its
transaction, so their guard is that somebody holds the role. `receipts` is the sequence of `AttestationVerified` events
per gate and challenge. A scalar of the wire format is its 8-byte limb and a flag for the 24 bytes above; a proof is the
statement it proves; the pairing equation holds when key and inputs are that statement's.

**TerminalProtocol** holds the events of `terminal.ts`. **Facepay** is the daemon: `loop` with its program counter is
`card_loop` (Detect, Authenticate, Attest or AttestFails, LookUpBalance, PublishCard, AnnounceCard; ForgetCard,
AnnounceRemoval), `ops` are the threads that run `set_pay_mode` (SetPayMode under the lock, SendMode after it; the CLI and the GUI's
connection are two of them, and `crossed` remembers a mode stored while another had still to send its own), `Connect`,
`Drop` and `HandleFaceOk` are `ws_handle` and `handle_report`, `jobs` are the payment threads (CheckBalance, PayExecutes
or PayFails, KeepResult, SendResult). One action is one region under the lock, one send or one call of a process. The
chain is what a payment does to it: `burned` per challenge, wallets in `balance`. `PayExecutes` relies on what the gate
promises (SingleSpend): it needs an unburned challenge, and burns it in the same step as the transfer.

**Terminal** is the page. `ui` is the React state, `OnEvent` the handler of `subscribe` with one case per event, `captures`
the engine requests in flight with the card and the mode their closure holds, `store` the one person the engine remembers.
An answer runs `onFaceResult` on whatever screen is shown by then. Three fields are history: `late` marks a screen an
answer led to whose capture had been left or had got another card, `swapped` such a capture, `dismissed` a page that went
idle by a tap or a failed face. **PaymentTerminal** joins page and daemon: two queues,
people, operators, taps and reloads.

**CardSession** is the cryptography of a session over symbolic blocks: a block is the key pair, the card it is diversified
for and the number inside; `Openings` is decryption and yields nothing when the block belongs to another card or pair.
`VerifySession` is the server's native check, `Prove` with `CircuitSatisfied` the prover's. **OracleServer** is the server
with its readers. `R1` is a parameter of `challenge`, so a reader asks with any number, one used before or one that
agrees with another in the last six bytes included. The server keeps no session; its state is the semaphore (`permits`, `queue`), the proofs holding a
permit (`proving`) and those running without one (`orphans`). `Challenge`, `Authentication1`, `Settle`, `Authentication2`,
`Attest` are a reader's session, with the card's half taken from the emulator in the vendored library; `AttestMixed` is a
client that sends blocks of several sessions, as `server/tests/attest_flow.rs` does. `TimeOut` is the client's read
timeout, after which the server either drops the request's future (`RequestDropped`: a running proof is orphaned, its
permit is back) or does not notice (`RequestForsaken`).

**ReaderClient** is one run of `usb-poc` over the same cryptography, from its ping to its exit code: `run` is what
`main` holds in local variables, `Follows` the order of its steps. The world moves meanwhile: `MoveCard` puts another card
down, `Deploy` replaces the oracle with one of another key, clock or card system, `late` is a card's answer that its
command gave up on, which a later command reads and refuses unless it is of its kind, and an attestation may be of an earlier session.
`Verify` is the proof against the pinned key, `Statement` the comparisons after it, which end in exit code 0 or 3.

**FacepayHost** is the older daemon. It differs from Facepay where it matters: there is one sender to the terminal,
`term_tx`, which `ConnectionEnds` of any connection sets to null, also of one that a newer connection has replaced; an
event sent while it is null is gone; a connection is told the mode and nothing else; every round of the card loop runs the
whole session, also for the card announced already; and the operator simulates cards: `testcard` publishes one from a
thread of its own, `remove` a removal from the CLI's. `conns` are the connections' threads and remember (`silenced`) which connection their end disconnected; `history` says whether two threads
published at once and whether a card was simulated. A payment remembers the connection that asked for it (`link`) and
whether its result reached that page (`told`): `SendResult` drops it without a sender, as `send_terminal` does. The page is reduced to the mode and the card it was told last.

**AdminConsole** is the administrator's side: GUIs that look for a daemon, spawn one when none listens (`Spawn`, `Bind`)
and take it along when they end (`Die`), each with one connection, a queue of clicks and a mirror; and of facepay the part
that talks to all clients: `shared`, the client list and `work`, the sends every thread still has to make. A status is
built under the lock and sent after it (`facepay.rs:193`), so `stale` marks the GUIs whose last status was overtaken, and
`raced` that two daemons were being started at once. `StartExternal` is a daemon started by hand, at any time: nothing in
`facepay.rs:119-152` looks for another (`beside` remembers that there was one). `deaf` is a daemon that found the port taken
and reads cards anyway.

**DeviceShell** composes three modules and the page's screens. **LedController** writes three pins one after another, from
the thread that carries out commands and from a blinking thread it stops with a flag and an interrupt but does not wait
for. A `setValue` that throws ends its write in silence (`WriteThrows`, `BlinkerWriteThrows`); `missed` is the pins it may
not have reached. **CameraHost** has the preview started on the bridge's thread and stopped there or on the UI thread, while the
camera service answers through the UI thread's queue; `trouble` records what overlapped or failed. **EngineBridge** numbers
the page's requests from 1 in every page loaded and resolves an answer by its number; the page's count `n`, which the code
does not have, tells the pages apart.

## What TLC checks

| Run | Module, cfg | Properties | What it shows |
|---|---|---|---|
| gate | MCGate | TypeOK, SeenMatchesReceipts, ReceiptsAreProven, ClosedStaysClosed, Refinement | a challenge is burned once per gate by an accepted, proven presentation; policy never opens by accident; Gate implements SingleSpend |
| terminal | MCPaymentTerminal | TypeOK, WalletMatchesProof, ResultsAreTruthful, CurrentIsAnnounced, ScreenHasItsData, PageIsUpToDate, ModeShown, KeepsTill | swaps, two operators, lost links, loads and overlapping captures never mix cards, double an attestation or show a payment that was not made; what the page knows is what the host holds; the daemon implements Till |
| terminal_live | MCPaymentTerminalLive | CardSettles, PaymentsEnd | the card that stays on the reader becomes current, one taken away is forgotten; payment threads end |
| oracle | MCOracleServer | TypeOK, AttestedSessionsHappened, ProverAgrees, AnswersMatchCalls, FreshOnReceipt, AttestEnds | no attestation without one session behind it, whatever numbers clients choose and blocks they mix; the two verifiers agree; answers reach their call, fresh; no call waits for ever |
| host | MCFacepayHost | TypeOK, OnlyTappedCardsPay, AttestationOfLastTap, OnlyLateCloseSilences, ModeShown, StaleCardHasACause, ReaderSettles, PaymentsAnswered | simulated cards never pay; a connected page is silenced, or shows an old card, only for the causes named; cards settle; every payment ends and its page is told, unless its link or its sender was lost |
| console | MCAdminConsole | TypeOK, MirrorIsCurrent, CommandsAccounted, OneDaemonUnlessRaced, GuiComesBack | the mirror is current but for a status that was overtaken; clicks are carried out once at most; no GUI's daemon runs beside another GUI's or without the port unless two were being started at once; a GUI gets back |
| device | MCDeviceShell | TypeOK, LedIsTruthful, CameraFollowsPage, AnswersBelong | what the LED, the camera and the page's requests are left in when the device is quiet, and which crossings can leave them otherwise |
| reader | MCReaderClient | TypeOK, ExitCodeIsEarned | exit code 0 stands for this run's session, 3 is never given to a faithful attestation of it |

Runs that TLC finds violated. Each states what the repository says and shows the code doing otherwise:

| Run | The repository says | What happens |
|---|---|---|
| revocation | `gate.move:155`: a disallow must not read as applied when it is not | allow, allow, disallow: the card is still admitted |
| face_matches_payer | `terminal.ts:38`: faceOk names the holder who succeeded, who then pays | the report's card is ignored; after a swap the other card pays |
| removed_goes_idle | `terminal.ts:22`: cardRemoved brings the page back to idle | a card lifted before it is announced leaves the detecting screen standing: no removal is sent for it (`facepay.rs:549-579`) |
| proofs_bounded | `handler.rs:21`: one proof at a time, for the pod's memory | a client that hangs up frees the slot while its proof runs on |

Three further differences are described and not checked as runs:

- A page that loads while a card lies on the reader gets the last payment result after the card and shows that
  (`facepay.rs:242-248`), while the comment at `facepay.rs:82-83` has it react to the card. `PageIsUpToDate` says what it
  knows, which is the card; the screen hides it.
- `facepay-host/src/main.rs:59` says `term_tx` is set only while the terminal is connected. A connection that ends with an
  error (`main.rs:166`) leaves it set; one that ends with a Close clears it, also for a newer connection.
- A late answer of the face engine after the card was removed brings the page to its balance screen without a card
  (`App.tsx:148-172`, `222`). It is a second way to violate `RemovedGoesIdle`, and `ScreenHasItsData` excepts it by `late`.

Some properties allow for what the code really does, and name it:

- `ModeShown` of PaymentTerminal: a mode stored while another operator's send was still to come, so that the two may cross
  and the terminal keeps the older amount.
- `ScreenHasItsData`: a balance or paying screen that a late answer led to. `PageIsUpToDate`: a card the page dismissed.
- `ResultsAreTruthful`: a payment whose answer the chain gave and the helper did not hear.
- `LedIsTruthful`: a last write of a blinking thread that was told to stop, and the pins a throwing write may have missed.
- `CameraFollowsPage`: a load or a pause that crosses a start, a device opened twice, and a failure since the preview came on
  under a page that replaces another and does not start the preview anew.
- `OnlyLateCloseSilences`: the late Close of a replaced connection. `PaymentsAnswered`: the same, and a lost connection.
- `StaleCardHasACause`: two threads that publish at once, and events lost on a dead connection. `ReaderSettles`: simulated cards.
- `MirrorIsCurrent`: a status that was overtaken. `CommandsAccounted`: queued clicks that a broken link discards, on purpose
  (`facepay-admin/src/main.rs:127`).
- `OneDaemonUnlessRaced`: two daemons being started at the same moment, and one started by hand beside another.
- `AnswersBelong`: an old page's answer that resolves a new page's request of the same kind.
- `AttestedSessionsHappened`: the first two bytes of R1, which AUTH2 does not carry.

No document promises otherwise, so these are hazards and not findings; the properties say that nothing else goes wrong.
Where a hazard is exactly such an exception, no property covers it, and the list of hazards says so: a failed chain answer,
the card that stays current during a swap (`facepay.rs:544`), the repeated result, the late Close, the crossing of testcard
and remove, the blinking thread's last write, the camera's crossings, the overtaken status. Nor does a property cover the
paying screen entered with a mode the host has cleared, or the age of an attestation when it is used.

Every property has a mutant: an operator next to the one it replaces, marked `Mutant`, that is a plausible bug and breaks
the property in its run.

### Bounds, and why they are enough

- **gate**: two gates (a deployment and its re-creation), two cards, two challenges, two keys, two drift bounds, allowlists
  of two, two administrators, a clock of five half-seconds. Twelve presentations, one per kind the checks tell apart: two
  genuine ones, and one per check that must reject. Checks look at one presentation and one gate at a time, so a second
  challenge and a second card suffice to tell "this one" from "another"; a list of two holds a duplicate.
- **terminal**: two cards, two operators, and five combinations of what may happen (`Starts`: how much of the bounds is used up
  at the start): swaps with a command, a connection and a lost link; swaps with a page that loads again; a card and a command
  over two connections and a lost link; a card and two commands over two connections; three commands over two connections and a
  lost link. Together that is up to two moves of cards, three commands, two connections, one loss and a queue of two. A
  crossing of operators takes two commands, a load with a result to repeat takes a payment and two connections, a mistaken
  card one swap. The next events wait for room in the queue, as sends do not block in the code but no property depends on how
  many are queued. The cards are interchangeable, and so are the operators; 1.1 million states. `terminal_live` has one
  operator with one command, one connection, no loss and a queue of one, without symmetry, which liveness does not admit; 376
  thousand states. These runs, and the ones below, stop when their bounds are used up, so they are run without the deadlock
  check.
- **oracle**: two cards, two readers, one slot, a timeout of one, three numbers to ask with, two of which agree in their last
  six bytes, two numbers of the cards, and three budgets: two sessions and a transcript made of the blocks of both, which is
  what a forgery by mixing needs; two readers and calls that time out; a call that times out and is made again while its old
  request queues, is proved or is orphaned, over two ticks, which let an answer be older than the timeout if anything
  allowed it. 679 thousand states. The proofs below remove these bounds.
- **host**, **console**, **device**: each behaviour draws one of several budgets (`Budgets`), which says how often each kind
  of event may happen in it, and each budget is about one kind of trouble: swaps with a payment and a lost link, simulated
  cards with removals, three connections that replace each other, a click on a daemon that is gone, and so on; the MC modules
  name them. The product of all bounds would not end, and a hazard of this code needs two or three events. host has 200
  thousand states, console 221 thousand, device 2.3 million. One budget of device is for LED writes that throw. In device a budget mostly lets one of LED, camera and engine run:
  they meet only in the page's screen, and stopping one of them is a behaviour the safety properties quantify over anyway.
- **reader**: two cards, two keys, an earlier session besides the run's own, two events (a card moved, a deployment). A
  mistaken identity takes one swap and its return, a mistaken key one deployment; 1.3 million states.

### Fairness

The daemon's threads and the link (`HandleFaceOk`, `CardLoop`, `SendMode`, payment steps, `Deliver`, `Answer`) are weakly
fair: they are operating-system threads, helper processes that end, and a WebSocket. `Authenticate` and `Attest` are
strongly fair: a card that stays on the reader and an oracle that is up do not fail for ever, and the loop retries; without
it `AttestFails` could be chosen every time. Nothing is assumed of people: nobody has to move a card, tap or pay, and
captures need not be started. The older daemon's threads are fair in the same way (`FelicaLoop`, `Sending`, `Simulate`,
`Deliver` and the payment threads weakly, `Authenticate` and `ReadCard` strongly). At the console the daemon's and the GUI's
threads run (`Serve`, `WsThread`) and a process that was spawned gets to its bind (`Spawn`, `Bind`); nobody has to click, and
links may break as long as the budget lasts. In the oracle only the semaphore's hand-over (`Acquire`, tokio's semaphore is FIFO) and the
end of running proofs are weakly fair; readers, cards and dropped connections are not. DeviceShell and ReaderClient state
no fairness: their properties are safety.

## What is proved

For every value of the constants that satisfies the named assumptions (`ConstantsAssumption`, `ShortBytesAssumption`,
`NoGateAssumption`; `RandomsAssumption`, `ServerAssumption`, `ClientAssumption`; `ProtocolAssumption`, `FacepayAssumption`,
`HostAssumption` and the two `NoneAssumption`s; `ConsoleAssumption`; `DeviceAssumption`), every safety property of the passing
runs holds. The inductive invariants, and what they are needed for:

- **GateProofs.** `TypeCorrect`; `SingleSpendCorrect` (SeenMatchesReceipts); `ReceiptsProvenCorrect`
  (ReceiptsAreProven); `ImplementsSingleSpend` (Refinement). The inductive invariant is the type with both properties:
  that a presentation is accepted only when its challenge is not in `seen`, together with "in `seen` exactly when there is
  one receipt", gives that a second receipt is impossible, and an empty sequence before each step is what the refinement
  needs to map `Verify` to `Spend`. `AcceptedCall` is the lemma that collects what the checks say. `ClosedStaysClosedCorrect` needs no invariant but the type:
  `RemoveAtRemoves` and `StaysClosed` show that removing one entry of a list admits nobody new, and that a list that becomes
  empty stays a list.
- **OracleServerProofs.** `TypeCorrect`, `AttestedSessionsCorrect`, `ProverAgreesCorrect`. The invariant `IInv` is needed
  because the properties speak of the end of a request and their reasons lie at its start: `SlotsOK` says that every
  request in the queue or being proved is `Justified` (it passed the check, and its claim is about a session that
  happened), and that permits and proofs add up to the slots; `SessionsOK` says where an AUTH2 in a reader's hands comes
  from; `HistoryOK` that sessions lie in the past. `VerifiedSessionHappened` is the core: an AUTH2 names its session's R1
  by its last six bytes, and a number a card drew agrees with nobody's (`RandomsAssumption`), so
  whatever it is mixed with, the C1B in the transcript is one the card answered (`OpenedOK`) for a number with the same last six
  bytes: the transcript is that session's, up to the first two bytes of R1. Nothing is assumed of the numbers clients choose.
  `AnswersMatchCallsCorrect` and `FreshOnReceiptCorrect` add `CallsOK`: a reader has at most one request in flight, it is its
  last call's and stamped no earlier than that call, and no reader waits longer than its timeout. Removing and adding
  requests is handled by lemmas on `RemoveAt`, `Append` and `Tail`.
- **ReaderClientProofs.** `TypeCorrect`, `ExitCodeIsEarnedCorrect`. An exit code speaks of the whole run, so `HeldInv` says
  what a run holds from each of its steps on, until it fails: R1 is not an earlier session's and its challenge is for the
  card polled; C1B is the one settled for it; an AUTH2 that opened is of a session its card completed, or of the earlier one
  (`AuthHeld`); a statement is about this transcript or the earlier session (`ReplyHeld`), and once it verifies, faithful to
  the key pinned. The lemmas about blocks say that a block opens under one pair and for one card only (`OpeningsOf`) and
  that the tail of the run's R1 is nobody else's (`ClientAssumption`: one client's own draws), so what is late or of the earlier session fails one of the comparisons.
- **PaymentSafetyProofs.** `TypeCorrect` for PaymentTerminal. The type is inductive only with `LoopHolds`: what the card loop
  holds at each step (the attestation it is about to publish, the card it is about to announce).
  `CurrentIsAnnouncedCorrect`, from `AnnouncedInv`, which follows the card through the loop's steps.
  `WalletMatchesProofCorrect` and `AttestationHeldOnceCorrect`, from `HoldInv`, which follows an attestation from the loop to
  the current card, to a payment thread, to the chain: `BackedInv` (it is of a session that happened, for its own card),
  `ApartInv` (card loop, current card and payments all hold different ones), `JobsInv` (a payment that was made burned its
  own, one that was not has not) and `BurnedInv` (what is burned is held by the payment that burned it). `ResultsAreTruthfulCorrect`, from `ReportInv`, which has
  every message, kept result and screen on the way back from a job that paid.
  `ImplementsTill` (KeepsTill) needs of these that an attestation is nobody else's when it is taken (`ApartInv`) and is for
  the card whose wallet pays (`BackedInv`, `JobsInv`), and of the card loop that it holds none when it attests
  (`AnnouncedInv`) and that what it holds is the last session (`NewestInv`). One lemma per part of the daemon (`TillLoop`,
  `TillFaceOk`, `TillPayment`) maps its steps; `TakenMore` and `TakenKept` say what a step does to the sessions taken.
- **PaymentPageProofs.** `ScreenHasItsDataCorrect`: by `PageInv` a capture of the mounted instance runs only while its screen is
  shown, and there is one at most, so every way off that screen ends it and a late answer cannot make `busy` wrong.
  `ModeShownCorrect` and `PageIsUpToDateCorrect` rest on the same argument (`Holds`): the last event on
  its way to the terminal about the mode, the card or the result, or else the page when there is none, already has the
  host's, unless a thread is about to send it (`ModeInv`, `CardInv`, `LcdInv`). `ModeInv` holds for any number of operators: while no
  mode was stored over another's unsent one (`Crossed`), whoever has still to send holds the host's mode.
- **FacepayHostProofs.** `AttestationOfLastTapCorrect` (`TapInv`), `OnlyTappedCardsPayCorrect` (`PayInv`: every payment holds an
  attestation of a tap of its own card, and every transfer is from that card's wallet) and `OnlyLateCloseSilencesCorrect` (`LinkInv`: the page's
  connection is the newest, so whoever drops its sender is older), over `HostType`, for any number
  of cards, simulated cards and connections; of the page, `TypeCorrect`, `ModeShownCorrect` (`ModeInv`: the last mode on its
  way is the daemon's) and `StaleCardHasACauseCorrect` (`PublishInv`: while no two threads crossed, whoever is about to
  announce announces the current card; `CardInv`: so the last card event on its way leaves the page with it).
  `ImplementsTill`, with `ApartInv`: the attestations of card loop, Shared and payments are all different. That the simulated
  cards' threads and `remove` only ever withdraw is what makes two daemons of such different threads the same till.
- **AdminConsoleProofs.** `TypeCorrect`, `OneDaemonUnlessRacedCorrect` (`OneInv`, of two
  parts: `GuisInv`, that a GUI that is about to start a daemon, or has one, is the only such GUI, and `AllInv`, that while
  nobody was started by hand beside another it is the only daemon at all) and `CommandsAccountedCorrect`. The last has two parts. `OrderInv`: a GUI's commands are in the order of their
  clicks, by connection, then carried out before on the wire, the queue last; a link that breaks or a queue that is thrown
  away takes commands out and never puts one back. `FirstInv`: up to the first connection nothing was clicked, and while that
  one holds, what was carried out, is on the wire and is queued is every click (`Whole`).
  `MirrorIsCurrentCorrect`, from `MirrorInv`: what a connected GUI shows is what the daemon has, or the GUI is marked stale,
  or a thread still has a status to build or to send (`News`), or the card loop still has its card to tell (`Shown`); and the
  card loop never has more to tell than the present card (`CardWork`), nor the other threads anything but modes and statuses
  (`OtherWork`), so no news on its way can undo what a GUI shows.
- **DeviceShellProofs.** `TypeCorrect`, `LedIsTruthfulCorrect`, `CameraFollowsPageCorrect`, `AnswersBelongCorrect`, from one part of
  the invariant each. `LedInv`: a thread that is neither done nor interrupted is the one that blinks for the last command
  (`LastThreadBlinks`), and a pin that was written since that command, and not `missed`, is as it asks, but for blue, lit or put out by a
  thread that was stopped (`PinsFollow`). `CameraInv`: the tasks on the UI thread's queue are about devices in the order of their
  lives (`DevicesInv`), so while the preview is on, a device is open, opening, or about to be opened behind every close, or
  `trouble` names what crossed or failed (`ComingInv`, `WantedInv`); and the calls the page's effects still make lead to what
  its screen needs (`PageInv`). `BridgeInv`: requests in flight have numbers of their own within their page, and an answer
  says no more than requests of its kind are told.

Only model-checked: liveness (`CardSettles`, `PaymentsEnd`, `AttestEnds`, `ReaderSettles`, `PaymentsAnswered`,
`GuiComesBack`), which is out of the prover's reach, and the counterexamples of the violated runs. Till is checked by TLC for
facepay only (run terminal); for the older daemon it is proved.

Two of the proofs changed a model. `CameraFollowsPage` was not inductive, and with one event more TLC found it false: a page
that replaces another and does not start the preview anew inherits one that failed since; the property now says so, and the
run has a budget for it. And `ReaderClient` needs that the absence of a block is not a block, which its assumption now states.

## Abstractions, and what they leave out

- A card's IDm and IDi are one identifier: the gate and the daemon use the IDi, the reader the IDm, and the card keeps both.
- DES is ideal: a block opens only under its pair and card, and an AUTH2 only under its R2. Numbers that cards draw do not
  repeat, and their last six bytes are nobody else's; an R1 is what the client sends. In ReaderClient, where one honest client
  draws them, R1s differ in their last six bytes. The transaction number is 0, since no secure command follows Authentication2.
- The circuit's public inputs are IDi and R1. It leaves the system key, the user key and the IDm (`gsk`, `usk`, `idm`) as
  private witnesses that nothing constrains (`circuit.rs:355`); `Prove` is the oracle's, which puts its own keys there.
- Clocks: the gate's chain clock ticks in parts of a second. The readers and the oracle share one clock, and a client's
  timeout is punctual.
- In Facepay a session with the oracle is two steps that can fail; OracleServer is its detail. They are not composed yet.
- The helper's failures count as balance 0, as in the code. Losing the chain's answer makes a payment "failed" that was
  made; `ResultsAreTruthful` excepts exactly that case.
- The older daemon's page is what it was told last; its screens are Terminal's, which PaymentTerminal joins to facepay.
- In AdminConsole a GUI handles a message as it is sent: a connection delivers in order, and nothing a GUI does depends on
  when it reads. Cards are published there, not read; Facepay is the detail.
- A page that enters its paying screen when the host has just cleared the mode stays there; no document says otherwise.
- In PaymentTerminal an answer of the engine to a page that was reloaded is taken to be lost. That request ids restart, and
  so may collide, is EngineBridge's subject.
- The camera service, the engine's library and Android's UI thread are modelled by what their interfaces allow: a device
  opens, fails or is disconnected at any time, a request ends with any answer, tasks run in the order they were posted.
- Root transfer and role administration are the access_control library's; only who holds the role is kept.

Not modelled: the registration web, a wizard in one browser tab whose step follows from one record in local storage and
whose awaits carry an alive flag; Groth16 arithmetic, DES gate by gate, encodings, key generation (arithmetic, out of TLC's
reach); the shell's `onDestroy`, the loss of its surface and the pixels of frames; the GUI's log, last payment and detecting
flag; command lines, printing, configuration, deployment; `ping`, `verify` and `address` of the helper.

## Plan

Modelled so far: the gate, the payment path with its terminal, the oracle server and its sessions, the reader client, the
older daemon, the console and the device; proved: the safety of all of them. Left, in this order:

1. **Settlement**: Facepay's payments composed with Gate's clock and drift bound, so that the age of an attestation is
   followed from the tap to the chain (`facepay.rs:650`); with it, Till's `Pay` as a step of SingleSpend.
2. **Sessions composed**: Facepay's `Attest` implemented by OracleServer's session of the same reader.
3. **Registration web**: its wizard with the oracle and the chain, for what is kept when a step fails.

To check: `tlc -config MCGate.cfg MCGate.tla` and likewise for the others, all within five minutes on two cores; `tlapm` on
each module whose name ends in `Proofs`.
