----------------------------- MODULE ReaderClient -----------------------------
(* One run of usb-poc: it fetches the verifying key, polls a card, interrogates *)
(* it, authenticates it with the oracle's blocks and checks the attestation     *)
(* against the key and its own R1. Meanwhile cards are moved, the oracle is     *)
(* deployed again, calls fail, and what is answered may be late or of an        *)
(* earlier session. An action is one card command, one call or one check.       *)
EXTENDS CardSession

CONSTANTS
  Vks,       \* verifying keys the oracle may be deployed with
  None,      \* nothing; also a block that no card opens
  OldR1,     \* the numbers of a session that an earlier run had
  OldR2,
  Day,       \* 86400 seconds, in ticks
  MaxEvents  \* bound: cards moved and deployments

\* usb-poc draws its R1, so no two runs agree in the six bytes AUTH2 carries.
ASSUME ClientAssumption ==
  /\ OldR1 \in R1s /\ OldR2 \in R2s
  /\ \A r, s \in R1s : r.tail = s.tail => r = s
  /\ None \notin Blocks
  /\ Day \in Nat /\ MaxEvents \in Nat

VARIABLES
  on,       \* the card on the reader
  pending,  \* its authentication context [r1, r2]
  late,     \* an answer that no command has taken
  oracle,   \* holds the cards' keys, names their system, its key, its clock
  run,      \* the run: its step, its outcome and what it holds
  sessions, \* the sessions cards completed
  events    \* bound: cards moved and deployments so far

vars == <<on, pending, late, oracle, run, sessions, events>>

Now == Day + 1
Times == {0, Now, Now + Day, Now + Day + 1}
Oracles == [keyed : BOOLEAN, system : BOOLEAN, vk : Vks, clock : Times]

Session(c, r1, r2) == [card |-> c, r1 |-> r1, r2 |-> r2]
Frame(command, idm, data) == [command |-> command, idm |-> idm, data |-> data]
Answer1(c, r1, r2) == Frame("authentication1", c, <<C1B(c, r1), C2A(c, r2)>>)
Answer2(c, r1, r2) == Frame("authentication2", c, Auth2(c, r1, r2))

Follows == [ping |-> "verifying_key", verifying_key |-> "poll",
            poll |-> "request_system_code", request_system_code |-> "request_service",
            request_service |-> "request_code_list",
            request_code_list |-> "request_block_information",
            request_block_information |-> "challenge", challenge |-> "node_service",
            node_service |-> "authentication1", authentication1 |-> "settle",
            settle |-> "authentication2", authentication2 |-> "attest", attest |-> "verify",
            verify |-> "statement"]
Interrogation == {"request_system_code", "request_service", "request_code_list",
                  "request_block_information", "node_service"}

NewRun == [step |-> "ping", outcome |-> "none", vk |-> None, idm |-> None, r1 |-> None,
           c1a |-> None, answer1 |-> None, c2b |-> None, auth2 |-> None, reply |-> None]

\* An answer to Authentication1 or 2 of the earlier session may be late.
Init ==
  /\ on \in Cards \cup {None} /\ pending = None
  /\ oracle \in Oracles
  /\ run = NewRun
  /\ events = 0
  /\ \E c \in Cards :
       /\ sessions = {Session(c, OldR1, OldR2)}
       /\ late \in {None, Answer1(c, OldR1, OldR2), Answer2(c, OldR1, OldR2)}

-----------------------------------------------------------------------------
At(step) == run.step = step
Proceed(r) == run' = [r EXCEPT !.step = Follows[run.step]]
Ends(outcome) == run' = [run EXCEPT !.step = "done", !.outcome = outcome]

Event == events < MaxEvents /\ events' = events + 1

MoveCard(c) ==
  /\ Event /\ c # on
  /\ on' = c /\ pending' = None
  /\ UNCHANGED <<late, oracle, run, sessions>>

Deploy(o) ==
  /\ Event /\ o # oracle
  /\ oracle' = o
  /\ UNCHANGED <<on, pending, late, run, sessions>>

\* A call, the reader or the card fails; only the interrogation may.
Fail ==
  /\ run.step \notin Interrogation \cup {"statement", "done"}
  /\ Ends("failed")
  /\ UNCHANGED <<on, pending, late, oracle, sessions, events>>

Ping ==
  /\ At("ping")
  /\ Proceed(run)
  /\ UNCHANGED <<on, pending, late, oracle, sessions, events>>

FetchKey ==
  /\ At("verifying_key")
  /\ Proceed([run EXCEPT !.vk = oracle.vk])
  /\ UNCHANGED <<on, pending, late, oracle, sessions, events>>

Poll ==
  /\ At("poll") /\ on # None
  /\ Proceed([run EXCEPT !.idm = on])
  /\ UNCHANGED <<on, pending, late, oracle, sessions, events>>

\* The card answers, is not heard, or is heard too late; the command may also
\* take an answer that was left, and refuse it.
Interrogate ==
  /\ run.step \in Interrogation
  /\ Proceed(run)
  /\ late' \in {late, None} \cup {Frame(run.step, on, << >>) : x \in {on} \cap {run.idm}}
  /\ UNCHANGED <<on, pending, oracle, sessions, events>>

\* R1 is drawn; an oracle for another system ends the run.
Challenge(r1) ==
  /\ At("challenge") /\ oracle.system
  /\ r1 # OldR1
  /\ Proceed([run EXCEPT !.r1 = r1, !.c1a = IF oracle.keyed THEN C1A(run.idm, r1) ELSE None])
  /\ UNCHANGED <<on, pending, late, oracle, sessions, events>>

\* Mutant: any answer counts as the one to the command sent.
ExpectedAny(command, rx) == rx.idm = run.idm

\* expect_response_code, and the IDm that Authentication1 compares.
Expected(command, rx) ==
  rx.command = command /\ (command = "authentication1" => rx.idm = run.idm)

\* The command takes the card's answer, which may also be lost, or a late one.
Take(command, rx, held) == IF Expected(command, rx) THEN Proceed(held) ELSE Ends("failed")

Taken1(rx) == Take("authentication1", rx, [run EXCEPT !.answer1 = rx.data])
Taken2(rx) == Take("authentication2", rx, [run EXCEPT !.auth2 = rx.data])

\* The addressed card answers a C1A that it opens.
Authentication1 ==
  /\ At("authentication1")
  /\ \/ /\ on = run.idm
        /\ \E r1 \in Openings("alpha_l", on, run.c1a), r2 \in R2s \ {OldR2} :
             /\ pending' = [r1 |-> r1, r2 |-> r2]
             /\ Taken1(Answer1(on, r1, r2)) \/ Ends("failed")
        /\ UNCHANGED late
     \/ late # None /\ Taken1(late) /\ late' = None /\ UNCHANGED pending
  /\ UNCHANGED <<on, oracle, sessions, events>>

c1b == run.answer1[1]
c2a == run.answer1[2]

Settle ==
  /\ At("settle") /\ oracle.keyed
  /\ C1B(run.idm, run.r1) = c1b
  /\ \E r2 \in Openings("l_beta", run.idm, c2a) :
       Proceed([run EXCEPT !.c2b = C2B(run.idm, r2)])
  /\ UNCHANGED <<on, pending, late, oracle, sessions, events>>

Authentication2 ==
  /\ At("authentication2")
  /\ \/ /\ on = run.idm /\ pending # None
        /\ C2B(on, pending.r2) = run.c2b
        /\ sessions' = sessions \cup {Session(on, pending.r1, pending.r2)}
        /\ Taken2(Answer2(on, pending.r1, pending.r2)) \/ Ends("failed")
        /\ UNCHANGED late
     \/ late # None /\ Taken2(late) /\ late' = None /\ UNCHANGED sessions
  /\ UNCHANGED <<on, pending, oracle, events>>

Reply(statement, idi, attested_at, vk, readable) ==
  [idi |-> idi, attested_at |-> attested_at, statement |-> statement, vk |-> vk,
   readable |-> readable]
Faithful(statement, vk) == Reply(statement, statement.idi, statement.attested_at, vk, TRUE)

\* What the oracle proves for the run's transcript, if it accepts it.
Proven == {s \in Prove(run.idm, c1b, c2a, run.auth2, oracle.clock) :
             VerifySession(run.idm, c1b, c2a, run.auth2) # {}}
EarlierProven == {[idi |-> s.card, r1 |-> s.r1, attested_at |-> Now] : s \in
                    {t \in sessions : t.r1 = OldR1}}

\* attest answers for the transcript, or with an earlier session's attestation,
\* or with an envelope that its proof does not bear out.
Attest ==
  /\ At("attest")
  /\ \E s \in (IF oracle.keyed THEN Proven ELSE {}) \cup EarlierProven :
     \E idi \in Cards, attested_at \in {s.attested_at, Now}, readable \in BOOLEAN :
       Proceed([run EXCEPT !.reply = Reply(s, idi, attested_at, oracle.vk, readable)])
  /\ UNCHANGED <<on, pending, late, oracle, sessions, events>>

\* verify_attestation_detailed: the proof under the key that was fetched, and
\* the envelope against its public inputs.
Verify ==
  /\ At("verify")
  /\ IF run.reply = Faithful(run.reply.statement, run.vk) THEN Proceed(run) ELSE Ends("rejected")
  /\ UNCHANGED <<on, pending, late, oracle, sessions, events>>

AbsDiff(a, b) == IF a > b THEN a - b ELSE b - a

Plausible(at) == at # 0 /\ AbsDiff(Now, at) <= Day

\* Mutant: the statement is not compared with the run's R1.
CheckedWithoutR1(s) == Plausible(s.attested_at)

Checked(s) == s.r1 = run.r1 /\ Plausible(s.attested_at)

Statement ==
  /\ At("statement")
  /\ Ends(IF Checked(run.reply.statement) THEN "verified" ELSE "rejected")
  /\ UNCHANGED <<on, pending, late, oracle, sessions, events>>

Next ==
  \/ \E c \in Cards \cup {None} : MoveCard(c)
  \/ \E o \in Oracles : Deploy(o)
  \/ Fail \/ Ping \/ FetchKey \/ Poll \/ Interrogate
  \/ \E r1 \in R1s : Challenge(r1)
  \/ Authentication1 \/ Settle \/ Authentication2 \/ Attest \/ Verify \/ Statement

Spec == Init /\ [][Next]_vars

-----------------------------------------------------------------------------
(* Properties.                                                                *)

Statements == [idi : Cards, r1 : R1s, attested_at : Times]
Steps == DOMAIN Follows \cup {"statement", "done"}

\* The shape of the state.
TypeOK ==
  /\ on \in Cards \cup {None}
  /\ pending \in [r1 : R1s, r2 : R2s] \cup {None}
  /\ late = None \/ late.command \in Interrogation \cup {"authentication1", "authentication2"}
  /\ oracle \in Oracles
  /\ run.step \in Steps /\ run.outcome \in {"none", "verified", "rejected", "failed"}
  /\ run.vk \in Vks \cup {None} /\ run.idm \in Cards \cup {None}
  /\ run.r1 \in R1s \cup {None}
  /\ {run.c1a, run.c2b} \subseteq Blocks \cup {None}
  /\ run.answer1 = None \/ run.answer1 \in Blocks \X Blocks
  /\ run.auth2 = None \/ run.auth2 \in Auth2s
  /\ run.reply \in [idi : Cards, attested_at : Times, statement : Statements, vk : Vks,
                    readable : BOOLEAN] \cup {None}
  /\ sessions \subseteq [card : Cards, r1 : R1s, r2 : R2s]

\* Exit code 0 stands for this run's session: the card it polled completed
\* Authentication2 for the R1 it drew, the attestation names that card, was made
\* under the key fetched at the start, and is at most a day off, whatever was
\* swapped, deployed again, answered late or answered for another session. Exit
\* code 3 is never the answer to a faithful and timely attestation of this
\* run's transcript under that key (usb-poc main.rs:324-399).
ExitCodeIsEarned ==
  /\ run.outcome = "verified" =>
       LET s == run.reply.statement IN
       /\ \E t \in sessions : t.card = run.idm /\ t.r1 = run.r1
       /\ s.idi = run.idm /\ run.reply.idi = run.idm
       /\ run.reply.vk = run.vk
       /\ AbsDiff(Now, run.reply.attested_at) <= Day
  /\ run.outcome = "rejected" =>
       \/ run.reply # Faithful(run.reply.statement, run.vk)
       \/ ~Plausible(run.reply.attested_at)
       \/ run.reply.statement \notin
            Prove(run.idm, c1b, c2a, run.auth2, run.reply.attested_at)
=============================================================================
