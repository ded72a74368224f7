---------------------------- MODULE OracleServer ----------------------------
(* The oracle server, the readers that call it and the cards on them. A      *)
(* reader runs challenge, Authentication1, settle, Authentication2 and       *)
(* attest; any client may also send attest a transcript put together from    *)
(* blocks that cards answered. The server keeps no session. Its state is the *)
(* proof slots: a fair semaphore, the proofs that hold a permit, and the     *)
(* proofs that run on although the request that started them is gone.        *)
EXTENDS CardSession, Sequences, SequencesExt

CONSTANTS
  Readers,              \* reader processes, each with one call at a time
  NoCard,               \* the reader is empty; also a card without a session
  Nobody,               \* a request whose client has gone
  MaxConcurrentProofs,  \* MAX_CONCURRENT_PROOFS, 1 in handler.rs
  ReadTimeout,          \* a client's read timeout, in ticks
  Budgets               \* bounds: how often each kind of Kinds may happen in a behaviour

\* Cards put on a reader, calls of challenge, transcripts sent that no reader ran,
\* ticks of the clock.
Kinds == {"places", "challenges", "mixed", "ticks"}

ASSUME ServerAssumption ==
  /\ NoCard \notin Cards
  /\ Nobody \notin Readers
  /\ MaxConcurrentProofs \in Nat \ {0}
  /\ ReadTimeout \in Nat \ {0}
  /\ Budgets \subseteq [Kinds -> Nat]

VARIABLES
  on,         \* reader -> the card on it, or NoCard
  pending,    \* card -> its authentication context [r1, r2], or NoCard
  session,    \* reader -> its session, by step
  opened,     \* Authentication1 exchanges cards took part in
  completed,  \* Authentication2 exchanges cards took part in, with their time
  call,       \* reader -> the transcript of its last attest and when it was sent
  permits,    \* free permits of the semaphore
  queue,      \* attest requests waiting for a permit, in order
  proving,    \* proofs that hold a permit
  orphans,    \* proofs whose request was dropped and gave its permit back
  issued,     \* attestations the prover made
  now,        \* the clock of all parties
  left        \* what is left of each bound

vars == <<on, pending, session, call, opened, completed, permits, queue, proving,
          orphans, issued, now, left>>
card == <<on, pending>>
history == <<opened, completed>>
slots == <<permits, queue, proving, orphans, issued>>

Idle == [step |-> "idle"]
NoCall == [asked |-> << >>, since |-> 0]

Init ==
  /\ on = [k \in Readers |-> NoCard]
  /\ pending = [c \in Cards |-> NoCard]
  /\ session = [k \in Readers |-> Idle]
  /\ call = [k \in Readers |-> NoCall]
  /\ opened = {} /\ completed = {}
  /\ permits = MaxConcurrentProofs
  /\ queue = << >> /\ proving = << >> /\ orphans = 0 /\ issued = {}
  /\ now = 0
  /\ left \in Budgets

Spend(kind) == left[kind] > 0 /\ left' = [left EXCEPT ![kind] = @ - 1]

-----------------------------------------------------------------------------
(* People. A card that leaves the field loses its authentication context.    *)

Place(k, c) ==
  /\ on[k] = NoCard
  /\ \A j \in Readers : on[j] # c
  /\ Spend("places")
  /\ on' = [on EXCEPT ![k] = c]
  /\ UNCHANGED <<pending, session, call, history, slots, now>>

Lift(k) ==
  /\ on[k] # NoCard
  /\ on' = [on EXCEPT ![k] = NoCard]
  /\ pending' = [pending EXCEPT ![on[k]] = NoCard]
  /\ UNCHANGED <<session, call, history, slots, now, left>>

-----------------------------------------------------------------------------
(* A reader's session: a card exchange or a call of the oracle at a time.    *)

In(k, step) == session[k].step = step

Go(k, s) == session' = [session EXCEPT ![k] = s]

\* R1 is a parameter of the call: a client may ask with any number, also with
\* one that was used before.
Challenge(k, r1) ==
  /\ In(k, "idle") /\ on[k] # NoCard
  /\ Spend("challenges")
  /\ Go(k, [step |-> "challenged", idm |-> on[k], r1 |-> r1, c1a |-> C1A(on[k], r1)])
  /\ UNCHANGED <<card, call, history, slots, now>>

\* Only the addressed card answers.
Authentication1(k, r2) ==
  /\ In(k, "challenged") /\ on[k] = session[k].idm
  /\ r2 \in R2s \ {o.r2 : o \in opened}
  /\ \E r1 \in Openings("alpha_l", on[k], session[k].c1a) :
       /\ pending' = [pending EXCEPT ![on[k]] = [r1 |-> r1, r2 |-> r2]]
       /\ opened' = opened \cup {[card |-> on[k], r1 |-> r1, r2 |-> r2]}
       /\ Go(k, [step |-> "answered", idm |-> on[k], r1 |-> session[k].r1,
                 c1b |-> C1B(on[k], r1), c2a |-> C2A(on[k], r2)])
  /\ UNCHANGED <<on, call, completed, slots, now, left>>

Settle(k) ==
  /\ In(k, "answered")
  /\ LET s == session[k]
     IN /\ C1B(s.idm, s.r1) = s.c1b
        /\ \E r2 \in Openings("l_beta", s.idm, s.c2a) :
             Go(k, [step |-> "settled", idm |-> s.idm, c1b |-> s.c1b, c2a |-> s.c2a,
                    c2b |-> C2B(s.idm, r2)])
  /\ UNCHANGED <<card, call, history, slots, now, left>>

Authentication2(k) ==
  /\ In(k, "settled") /\ on[k] = session[k].idm
  /\ LET s == session[k]
         p == pending[s.idm]
     IN /\ p # NoCard
        /\ C2B(s.idm, p.r2) = s.c2b
        /\ completed' = completed \cup {[card |-> s.idm, r1 |-> p.r1, r2 |-> p.r2, at |-> now]}
        /\ Go(k, [step |-> "authenticated", idm |-> s.idm, c1b |-> s.c1b, c2a |-> s.c2a,
                  auth2 |-> Auth2(s.idm, p.r1, p.r2)])
  /\ UNCHANGED <<card, call, opened, slots, now, left>>

\* A call fails, the card does not answer, or the oracle rejects.
GiveUp(k) ==
  /\ session[k].step \in {"challenged", "answered", "settled", "authenticated"}
  /\ Go(k, Idle)
  /\ UNCHANGED <<card, call, history, slots, now, left>>

-----------------------------------------------------------------------------
(* attest: the transcript is verified and stamped, then waits for a permit.  *)

Submit(k, idm, c1b, c2a, auth2) ==
  /\ \E v \in VerifySession(idm, c1b, c2a, auth2) :
       queue' = Append(queue, [caller |-> k, verified |-> v,
                               transcript |-> <<idm, c1b, c2a, auth2>>, attested_at |-> now])
  /\ call' = [call EXCEPT ![k] = [asked |-> <<idm, c1b, c2a, auth2>>, since |-> now]]
  /\ Go(k, [step |-> "waiting"])
  /\ UNCHANGED <<card, history, permits, proving, orphans, issued, now>>

Attest(k) ==
  /\ In(k, "authenticated")
  /\ Submit(k, session[k].idm, session[k].c1b, session[k].c2a, session[k].auth2)
  /\ UNCHANGED left

\* The blocks cards answered that open under the pair L, beta, and AUTH2s.
Answers == {C1B(o.card, o.r1) : o \in opened} \cup {C2A(o.card, o.r2) : o \in opened}
Answers2 == {Auth2(s.card, s.r1, s.r2) : s \in completed}

AttestMixed(k, idm, c1b, c2a, auth2) ==
  /\ In(k, "idle") /\ Spend("mixed")
  /\ Submit(k, idm, c1b, c2a, auth2)

-----------------------------------------------------------------------------
(* prove_blocking.                                                           *)

Acquire ==
  /\ queue # << >> /\ permits > 0
  /\ permits' = permits - 1
  /\ proving' = Append(proving, Head(queue))
  /\ queue' = Tail(queue)
  /\ UNCHANGED <<card, session, call, history, orphans, issued, now, left>>

ProofOf(e) ==
  Prove(e.transcript[1], e.transcript[2], e.transcript[3], e.transcript[4], e.attested_at)

Answer(e, s) ==
  session' = IF e.caller = Nobody THEN session ELSE [session EXCEPT ![e.caller] = s]

\* A finished proof answers its request and gives the permit back.
ProofEnds(i) ==
  /\ \E a \in ProofOf(proving[i]) :
       /\ a.idi = proving[i].verified.idi
       /\ issued' = issued \cup {a}
       /\ Answer(proving[i], [step |-> "replied", att |-> a])
  /\ proving' = RemoveAt(proving, i)
  /\ permits' = permits + 1
  /\ UNCHANGED <<card, call, history, queue, orphans, now, left>>

\* Mutant: the permit is not given back when the proof fails.
ProofFailsKeepsPermit(i) ==
  /\ Answer(proving[i], Idle)
  /\ proving' = RemoveAt(proving, i)
  /\ UNCHANGED <<card, call, history, permits, queue, orphans, issued, now, left>>

\* The prover fails, panics, or disagrees with the verified session.
ProofFails(i) ==
  /\ Answer(proving[i], Idle)
  /\ proving' = RemoveAt(proving, i)
  /\ permits' = permits + 1
  /\ UNCHANGED <<card, call, history, queue, orphans, issued, now, left>>

OrphanEnds ==
  /\ orphans > 0
  /\ orphans' = orphans - 1
  /\ UNCHANGED <<card, session, call, history, permits, queue, proving, issued, now, left>>

-----------------------------------------------------------------------------
(* The client's side of a waiting call.                                      *)

Outstanding(k) == session[k].step \in {"waiting", "replied"}

Receive(k) ==
  /\ In(k, "replied")
  /\ Go(k, Idle)
  /\ UNCHANGED <<card, call, history, slots, now, left>>

Mine(k, e) == e.caller = k

\* Mutant: a request dropped in the queue gives back a permit it never had.
RequestDroppedReleases(k) ==
  \/ \E i \in DOMAIN queue :
       /\ Mine(k, queue[i])
       /\ queue' = RemoveAt(queue, i)
       /\ permits' = permits + 1
       /\ UNCHANGED <<proving, orphans>>
  \/ In(k, "replied") /\ UNCHANGED <<permits, queue, proving, orphans>>

\* The server notices and drops the request: its place in the queue or its
\* permit is free, but a proof that runs runs on.
RequestDropped(k) ==
  \/ \E i \in DOMAIN queue :
       /\ Mine(k, queue[i])
       /\ queue' = RemoveAt(queue, i)
       /\ UNCHANGED <<permits, proving, orphans>>
  \/ \E i \in DOMAIN proving :
       /\ Mine(k, proving[i])
       /\ proving' = RemoveAt(proving, i)
       /\ permits' = permits + 1
       /\ orphans' = orphans + 1
       /\ UNCHANGED queue
  \/ In(k, "replied") /\ UNCHANGED <<permits, queue, proving, orphans>>

\* Mutant: an answer to the abandoned call reaches the client's next call.
RequestStillAnswered(k) == UNCHANGED <<permits, queue, proving, orphans>>

\* Or it does not notice, and works on for nobody.
RequestForsaken(k) ==
  LET forsaken(e) == IF Mine(k, e) THEN [e EXCEPT !.caller = Nobody] ELSE e
  IN /\ queue' = [i \in DOMAIN queue |-> forsaken(queue[i])]
     /\ proving' = [i \in DOMAIN proving |-> forsaken(proving[i])]
     /\ UNCHANGED <<permits, orphans>>

\* The read timeout of the client: it closes the connection.
TimeOut(k) ==
  /\ Outstanding(k) /\ now - call[k].since >= ReadTimeout
  /\ RequestDropped(k) \/ RequestForsaken(k)
  /\ Go(k, Idle)
  /\ UNCHANGED <<card, call, history, issued, now, left>>

\* Mutant: clients without a read timeout.
TickUntimed ==
  /\ Spend("ticks")
  /\ now' = now + 1
  /\ UNCHANGED <<card, session, call, history, slots>>

\* Time passes. A client that has waited for its timeout leaves before it does.
Tick ==
  /\ Spend("ticks")
  /\ \A k \in Readers : Outstanding(k) => now - call[k].since < ReadTimeout
  /\ now' = now + 1
  /\ UNCHANGED <<card, session, call, history, slots>>

-----------------------------------------------------------------------------
People == \E k \in Readers : (\E c \in Cards : Place(k, c)) \/ Lift(k)

Sessions ==
  \E k \in Readers :
    \/ \E r1 \in R1s : Challenge(k, r1)
    \/ \E r2 \in R2s : Authentication1(k, r2)
    \/ Settle(k) \/ Authentication2(k) \/ Attest(k)
    \/ GiveUp(k) \/ Receive(k) \/ TimeOut(k)

Mixed ==
  /\ left["mixed"] > 0
  /\ \E k \in Readers, idm \in Cards, c1b, c2a \in Answers, auth2 \in Answers2 :
       AttestMixed(k, idm, c1b, c2a, auth2)

Proofs ==
  \/ Acquire
  \/ \E i \in DOMAIN proving : ProofEnds(i) \/ ProofFails(i)
  \/ OrphanEnds

Next == People \/ Sessions \/ Mixed \/ Proofs \/ Tick

Spec == Init /\ [][Next]_vars

\* The server's threads run; nothing is assumed of people and clients.
ServerFairness ==
  /\ WF_vars(Acquire)
  /\ WF_vars(\E i \in DOMAIN proving : ProofEnds(i) \/ ProofFails(i))

LiveSpec == Spec /\ ServerFairness

-----------------------------------------------------------------------------
(* Properties.                                                               *)

Transcripts == Cards \X Blocks \X Blocks \X Auth2s
Verified == [idi : Cards, r1 : R1s]
Attestations == [idi : Cards, r1 : R1s, attested_at : Nat]
Requests == [caller : Readers \cup {Nobody}, verified : Verified,
             transcript : Transcripts, attested_at : Nat]

SessionStates ==
  [step : {"idle", "waiting"}]
    \cup [step : {"challenged"}, idm : Cards, r1 : R1s, c1a : Blocks]
    \cup [step : {"answered"}, idm : Cards, r1 : R1s, c1b : Blocks, c2a : Blocks]
    \cup [step : {"settled"}, idm : Cards, c1b : Blocks, c2a : Blocks, c2b : Blocks]
    \cup [step : {"authenticated"}, idm : Cards, c1b : Blocks, c2a : Blocks, auth2 : Auth2s]
    \cup [step : {"replied"}, att : Attestations]

\* The shape of the state.
TypeOK ==
  /\ session \in [Readers -> SessionStates]
  /\ on \in [Readers -> Cards \cup {NoCard}]
  /\ pending \in [Cards -> [r1 : R1s, r2 : R2s] \cup {NoCard}]
  /\ call \in [Readers -> [asked : Transcripts, since : Nat] \cup {NoCall}]
  /\ opened \subseteq [card : Cards, r1 : R1s, r2 : R2s]
  /\ completed \subseteq [card : Cards, r1 : R1s, r2 : R2s, at : Nat]
  /\ queue \in Seq(Requests) /\ proving \in Seq(Requests)
  /\ permits \in 0..MaxConcurrentProofs
  /\ orphans \in Nat
  /\ issued \subseteq Attestations
  /\ now \in Nat /\ left \in [Kinds -> Nat]

\* An attestation stands for a session that the card it names completed before
\* the stamp, and its R1 is one that this card answered. The two agree in the
\* last six bytes of R1, which is all that AUTH2 carries of it; the first two are
\* the client's own (oracle/mod.rs:216, circuit.rs:568-571). No other transcript
\* put together from several sessions, also of the same card, is attested, and a
\* client whose numbers differ in their last six bytes gets its own session.
OneSession(a) ==
  \E s \in completed, o \in opened :
    /\ s.card = a.idi /\ s.at <= a.attested_at
    /\ o.card = a.idi /\ o.r1 = a.r1
    /\ o.r1.tail = s.r1.tail

AttestedSessionsHappened == \A a \in issued : OneSession(a)

\* The server's native check and the prover agree on every request that passed
\* the check: the prover can prove it, and for the card and R1 verified, so the
\* disagreement service.rs:119-128 guards against cannot arise.
InFlight == {queue[i] : i \in DOMAIN queue} \cup {proving[i] : i \in DOMAIN proving}

ProverAgrees ==
  \A e \in InFlight :
    ProofOf(e) = {[idi |-> e.verified.idi, r1 |-> e.verified.r1, attested_at |-> e.attested_at]}

\* A reader that gets an answer gets it for the transcript it sent last, also
\* after earlier calls of it timed out with their proofs still running.
AnswersMatchCalls ==
  \A k \in Readers : In(k, "replied") =>
    LET t == call[k].asked
    IN [idi |-> session[k].att.idi, r1 |-> session[k].att.r1]
         \in VerifySession(t[1], t[2], t[3], t[4])

\* However long the queue, an attestation is at most a read timeout old when
\* its reader gets it, because the stamp is taken after the call was sent
\* (service.rs:87, usb-poc oracle.rs:92): a drift bound above the timeout
\* leaves the rest of it for the payment.
FreshOnReceipt ==
  [][\A k \in Readers :
       Receive(k) => now - session[k].att.attested_at <= ReadTimeout]_vars

\* Every call of attest ends: no permit is lost to a failed proof or to a
\* client that left, so a waiting request gets its turn (handler.rs:112-125).
AttestEnds == \A k \in Readers : In(k, "waiting") ~> ~In(k, "waiting")

\* handler.rs:24: "One at a time matches the measured footprint": the proofs
\* that run never outnumber the permits.
ProofsAreBounded == Len(proving) + orphans <= MaxConcurrentProofs
=============================================================================
