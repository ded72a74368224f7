-------------------------- MODULE ReaderClientProofs --------------------------
(* ReaderClient for any cards, keys, drawn numbers and number of events: the   *)
(* shape of the state, and what the exit code of a run stands for.             *)
EXTENDS ReaderClient, TLAPS

Outcomes == {"none", "verified", "rejected", "failed"}
Replies ==
  [idi : Cards, attested_at : Times, statement : Statements, vk : Vks, readable : BOOLEAN]
Runs ==
  [step : Steps, outcome : Outcomes, vk : Vks \cup {None}, idm : Cards \cup {None},
   r1 : R1s \cup {None}, c1a : Blocks \cup {None}, answer1 : (Blocks \X Blocks) \cup {None},
   c2b : Blocks \cup {None}, auth2 : Auth2s \cup {None}, reply : Replies \cup {None}]
SessionRecords == [card : Cards, r1 : R1s, r2 : R2s]

\* What may still be on its way to a command that has given up: an answer of the
\* earlier session, or one to the interrogation.
LateFrames ==
  {Answer1(c, OldR1, OldR2) : c \in Cards} \cup {Answer2(c, OldR1, OldR2) : c \in Cards}
    \cup {Frame(x[1], x[2], << >>) : x \in Interrogation \X (Cards \cup {None})}

RunType == run \in Runs
CardType ==
  /\ on \in Cards \cup {None}
  /\ pending \in [r1 : R1s, r2 : R2s] \cup {None}
  /\ late \in LateFrames \cup {None}
  /\ sessions \subseteq SessionRecords
TypeInv == RunType /\ CardType /\ oracle \in Oracles

-----------------------------------------------------------------------------
(* What a run holds from each of its steps on, until it fails.                *)

Attested == {"verify", "statement"}
Authenticated == Attested \cup {"attest"}
Settled == Authenticated \cup {"authentication2"}
Answered == Settled \cup {"settle"}
Drawn == Answered \cup {"node_service", "authentication1"}
Polled ==
  Drawn \cup {"request_system_code", "request_service", "request_code_list",
              "request_block_information", "challenge"}

\* The run is at one of the steps, or was decided after them.
Past(steps) == run.step \in steps \/ run.outcome \in {"verified", "rejected"}

\* An AUTH2 the run took is of a session that its card completed, or old.
AuthHeld ==
  \E t \in SessionRecords :
    /\ run.auth2 = Auth2(t.card, t.r1, t.r2)
    /\ (t \in sessions /\ t.card = run.idm) \/ t.r1 = OldR1

\* A statement it was sent is about its own transcript, or about an old session.
ReplyHeld ==
  /\ run.reply \in Replies
  /\ LET s == run.reply.statement IN
       \/ s \in Prove(run.idm, c1b, c2a, run.auth2, s.attested_at)
       \/ s.r1 = OldR1

HeldInv ==
  /\ run.step # "done" => run.outcome = "none"
  /\ Past(Polled) => run.idm \in Cards
  /\ Past(Drawn) => run.r1 \in R1s \ {OldR1} /\ run.c1a \in {C1A(run.idm, run.r1), None}
  /\ Past(Answered) => run.answer1 \in Blocks \X Blocks
  /\ Past(Settled) => c1b = C1B(run.idm, run.r1)
  /\ Past(Authenticated) => AuthHeld
  /\ Past(Attested) => ReplyHeld
  /\ run.step = "statement" => run.reply = Faithful(run.reply.statement, run.vk)

IInv == TypeInv /\ HeldInv /\ ExitCodeIsEarned

-----------------------------------------------------------------------------
(* Lemmas about blocks, steps and frames.                                     *)

\* A block opens to the number it was made of, for its card and pair alone.
LEMMA OpeningsOf ==
  ASSUME NEW pair, NEW idm, NEW other, NEW card, NEW n,
         NEW r \in Openings(pair, idm, Encrypt(other, card, n))
  PROVE  r = n /\ idm = card /\ pair = other
BY DEF Openings, Encrypt

LEMMA BlocksType ==
  ASSUME NEW c \in Cards, NEW r1 \in R1s, NEW r2 \in R2s
  PROVE  /\ C1A(c, r1) \in Blocks /\ C1B(c, r1) \in Blocks
         /\ C2A(c, r2) \in Blocks /\ C2B(c, r2) \in Blocks
         /\ Auth2(c, r1, r2) \in Auth2s
BY DEF C1A, C1B, C2A, C2B, Auth2, Auth2s, Encrypt, Blocks, KeyPairs, Randoms

LEMMA TailIsNumber ==
  ASSUME NEW r \in Randoms, NEW s \in Randoms, r.tail = s.tail
  PROVE  r = s
BY RandomsAssumption, ClientAssumption DEF Randoms

LEMMA FollowsValues ==
  /\ Follows["ping"] = "verifying_key" /\ Follows["verifying_key"] = "poll"
  /\ Follows["poll"] = "request_system_code"
  /\ Follows["challenge"] = "node_service" /\ Follows["authentication1"] = "settle"
  /\ Follows["settle"] = "authentication2" /\ Follows["authentication2"] = "attest"
  /\ Follows["attest"] = "verify" /\ Follows["verify"] = "statement"
  /\ Follows["request_system_code"] = "request_service"
  /\ Follows["request_service"] = "request_code_list"
  /\ Follows["request_code_list"] = "request_block_information"
  /\ Follows["request_block_information"] = "challenge"
  /\ Follows["node_service"] = "authentication1"
  /\ \A s \in DOMAIN Follows : Follows[s] \in Steps
  /\ DOMAIN Follows = {"ping", "verifying_key", "poll", "request_system_code",
       "request_service", "request_code_list", "request_block_information", "challenge",
       "node_service", "authentication1", "settle", "authentication2", "attest", "verify"}
BY DEF Follows, Steps

LEMMA TypeParts == TypeInv => TypeOK
<1> SUFFICES ASSUME TypeInv PROVE TypeOK
  OBVIOUS
<1>1. run \in Runs
  BY DEF TypeInv, RunType
<1>2. late = None \/ late.command \in Interrogation \cup {"authentication1", "authentication2"}
  BY DEF TypeInv, CardType, LateFrames, Answer1, Answer2, Frame
<1>3. QED BY <1>1, <1>2 DEF TypeInv, CardType, TypeOK, Runs, Outcomes, Replies, SessionRecords

LEMMA InvInit == Init => IInv
<1> SUFFICES ASSUME Init PROVE IInv
  OBVIOUS
<1>1. TypeInv
  <2>1. NewRun \in Runs
    BY DEF NewRun, Runs, Steps, Follows, Outcomes
  <2>2. CardType
    BY ClientAssumption DEF Init, CardType, LateFrames, Session, SessionRecords
  <2>3. QED BY <2>1, <2>2 DEF Init, TypeInv, RunType
<1>2. run.step = "ping" /\ run.outcome = "none"
  BY DEF Init, NewRun
<1>3. HeldInv
  BY <1>2 DEF HeldInv, Past, Polled, Drawn, Answered, Settled, Authenticated, Attested
<1>4. ExitCodeIsEarned
  BY <1>2 DEF ExitCodeIsEarned
<1>5. QED BY <1>1, <1>3, <1>4 DEF IInv

-----------------------------------------------------------------------------
(* How the run goes on, or ends.                                              *)

LEMMA Proceeds ==
  ASSUME NEW r \in Runs, run.step \in DOMAIN Follows, Proceed(r)
  PROVE  /\ run' \in Runs /\ run'.step = Follows[run.step] /\ run'.outcome = r.outcome
         /\ run'.vk = r.vk /\ run'.idm = r.idm /\ run'.r1 = r.r1 /\ run'.c1a = r.c1a
         /\ run'.answer1 = r.answer1 /\ run'.c2b = r.c2b /\ run'.auth2 = r.auth2
         /\ run'.reply = r.reply
<1>1. Follows[run.step] \in Steps
  BY FollowsValues
<1>2. run' = [r EXCEPT !.step = Follows[run.step]]
  BY DEF Proceed
<1>3. QED BY <1>1, <1>2 DEF Runs

LEMMA Ended ==
  ASSUME RunType, NEW outcome \in Outcomes, Ends(outcome)
  PROVE  /\ run' \in Runs /\ run'.step = "done" /\ run'.outcome = outcome
         /\ run'.vk = run.vk /\ run'.idm = run.idm /\ run'.r1 = run.r1 /\ run'.c1a = run.c1a
         /\ run'.answer1 = run.answer1 /\ run'.c2b = run.c2b /\ run'.auth2 = run.auth2
         /\ run'.reply = run.reply
<1>1. "done" \in Steps
  BY DEF Steps
<1>2. run' = [run EXCEPT !.step = "done", !.outcome = outcome]
  BY DEF Ends
<1>3. QED BY <1>1, <1>2 DEF RunType, Runs

\* A step of somebody else.
LEMMA RunKept ==
  ASSUME IInv, UNCHANGED <<run, sessions>>, CardType', oracle' \in Oracles
  PROVE  IInv'
<1>1. TypeInv'
  BY DEF IInv, TypeInv, RunType
<1>2. HeldInv'
  BY DEF IInv, HeldInv, Past, AuthHeld, ReplyHeld, c1b, c2a
<1>3. ExitCodeIsEarned'
  BY DEF IInv, ExitCodeIsEarned, c1b, c2a
<1>4. QED BY <1>1, <1>2, <1>3 DEF IInv

\* A run that failed has nothing to answer for.
LEMMA RunFails ==
  ASSUME IInv, Ends("failed"), CardType', oracle' \in Oracles
  PROVE  IInv'
<1>1. run' \in Runs /\ run'.step = "done" /\ run'.outcome = "failed"
  BY Ended DEF IInv, TypeInv, Outcomes
<1>2. TypeInv'
  BY <1>1 DEF IInv, TypeInv, RunType
<1>3. HeldInv'
  BY <1>1 DEF HeldInv, Past, Polled, Drawn, Answered, Settled, Authenticated, Attested
<1>4. ExitCodeIsEarned'
  BY <1>1 DEF ExitCodeIsEarned
<1>5. QED BY <1>2, <1>3, <1>4 DEF IInv

\* Where a run has no outcome yet, what it holds is a matter of its step.
LEMMA Undecided ==
  ASSUME run' \in Runs, run'.step # "done", run'.outcome = "none"
  PROVE  ExitCodeIsEarned' /\ \A steps : Past(steps)' => run'.step \in steps
BY DEF ExitCodeIsEarned, Past

LEMMA Moves ==
  ASSUME IInv, NEW r \in Runs, r.outcome = run.outcome, run.step \in DOMAIN Follows,
         Proceed(r), CardType', oracle' \in Oracles
  PROVE  /\ HeldInv' => IInv'
         /\ run'.step = Follows[run.step] /\ run'.outcome = "none" /\ run.outcome = "none"
         /\ run'.vk = r.vk /\ run'.idm = r.idm /\ run'.r1 = r.r1 /\ run'.c1a = r.c1a
         /\ run'.answer1 = r.answer1 /\ run'.c2b = r.c2b /\ run'.auth2 = r.auth2
         /\ run'.reply = r.reply
<1>1. run.step # "done"
  BY FollowsValues
<1>2. run.outcome = "none"
  BY <1>1 DEF IInv, HeldInv
<1>3. /\ run' \in Runs /\ run'.step = Follows[run.step] /\ run'.outcome = r.outcome
      /\ run'.vk = r.vk /\ run'.idm = r.idm /\ run'.r1 = r.r1 /\ run'.c1a = r.c1a
      /\ run'.answer1 = r.answer1 /\ run'.c2b = r.c2b /\ run'.auth2 = r.auth2
      /\ run'.reply = r.reply
  BY Proceeds
<1>4. TypeInv'
  BY <1>3 DEF TypeInv, RunType
<1>5. ExitCodeIsEarned'
  BY <1>2, <1>3 DEF ExitCodeIsEarned
<1>6. QED BY <1>2, <1>3, <1>4, <1>5 DEF IInv

-----------------------------------------------------------------------------
(* The steps.                                                                 *)

LEMMA MoveCardStep == ASSUME IInv, NEW c \in Cards \cup {None}, MoveCard(c) PROVE IInv'
<1>1. CardType'
  BY DEF IInv, TypeInv, CardType, MoveCard
<1>2. QED BY <1>1, RunKept DEF MoveCard, IInv, TypeInv

LEMMA DeployStep == ASSUME IInv, NEW o \in Oracles, Deploy(o) PROVE IInv'
<1>1. CardType'
  BY DEF IInv, TypeInv, CardType, Deploy
<1>2. QED BY <1>1, RunKept DEF Deploy

LEMMA FailStep == ASSUME IInv, Fail PROVE IInv'
<1>1. CardType' /\ oracle' \in Oracles
  BY DEF IInv, TypeInv, CardType, Fail
<1>2. QED BY <1>1, RunFails DEF Fail

LEMMA PingStep == ASSUME IInv, Ping PROVE IInv'
<1>1. CardType' /\ oracle' \in Oracles
  BY DEF IInv, TypeInv, CardType, Ping
<1>2. run \in Runs /\ run.step \in DOMAIN Follows /\ Proceed(run) /\ run.step = "ping"
  BY FollowsValues DEF IInv, TypeInv, RunType, Ping, At
<1>3. (HeldInv' => IInv') /\ run'.step = "verifying_key" /\ run'.outcome = "none"
  BY <1>1, <1>2, Moves, FollowsValues
<1>4. HeldInv'
  BY <1>3 DEF HeldInv, Past, Polled, Drawn, Answered, Settled, Authenticated, Attested
<1>5. QED BY <1>3, <1>4

LEMMA FetchKeyStep == ASSUME IInv, FetchKey PROVE IInv'
<1> DEFINE r == [run EXCEPT !.vk = oracle.vk]
<1>1. CardType' /\ oracle' \in Oracles
  BY DEF IInv, TypeInv, CardType, FetchKey
<1>2. run.step \in DOMAIN Follows /\ Proceed(r) /\ run.step = "verifying_key"
  BY FollowsValues DEF FetchKey, At
<1>3. r \in Runs /\ r.outcome = run.outcome
  BY DEF IInv, TypeInv, RunType, Runs, Oracles
<1> HIDE DEF r
<1>4. (HeldInv' => IInv') /\ run'.step = "poll" /\ run'.outcome = "none"
  BY <1>1, <1>2, <1>3, Moves, FollowsValues
<1>5. HeldInv'
  BY <1>4 DEF HeldInv, Past, Polled, Drawn, Answered, Settled, Authenticated, Attested
<1>6. QED BY <1>4, <1>5

LEMMA PollStep == ASSUME IInv, Poll PROVE IInv'
<1> DEFINE r == [run EXCEPT !.idm = on]
<1>1. CardType' /\ oracle' \in Oracles
  BY DEF IInv, TypeInv, CardType, Poll
<1>2. run.step \in DOMAIN Follows /\ Proceed(r) /\ run.step = "poll" /\ on \in Cards
  BY FollowsValues DEF IInv, TypeInv, CardType, Poll, At
<1>3. r \in Runs /\ r.outcome = run.outcome /\ r.idm = on
  BY <1>2 DEF IInv, TypeInv, RunType, Runs
<1> HIDE DEF r
<1>4. /\ HeldInv' => IInv'
      /\ run'.step = "request_system_code" /\ run'.outcome = "none" /\ run'.idm \in Cards
  BY <1>1, <1>2, <1>3, Moves, FollowsValues
<1>5. HeldInv'
  BY <1>4 DEF HeldInv, Past, Polled, Drawn, Answered, Settled, Authenticated, Attested
<1>6. QED BY <1>4, <1>5

LEMMA InterrogateStep == ASSUME IInv, Interrogate PROVE IInv'
<1>1. late' \in LateFrames \cup {None}
  BY DEF IInv, TypeInv, CardType, Interrogate, LateFrames
<1>2. CardType' /\ oracle' \in Oracles
  BY <1>1 DEF IInv, TypeInv, CardType, Interrogate
<1>3. run \in Runs /\ run.step \in DOMAIN Follows /\ Proceed(run) /\ run.step \in Interrogation
  BY FollowsValues DEF IInv, TypeInv, RunType, Interrogate, Interrogation
<1>4. /\ (HeldInv' => IInv') /\ run'.step = Follows[run.step] /\ run'.outcome = "none"
      /\ run'.idm = run.idm /\ run'.r1 = run.r1 /\ run'.c1a = run.c1a
  BY <1>2, <1>3, Moves
<1>5. /\ run'.step \in {"request_service", "request_code_list", "request_block_information",
                        "challenge", "authentication1"}
      /\ run'.step = "authentication1" => run.step = "node_service"
  BY <1>3, <1>4, FollowsValues DEF Interrogation
<1>6. run.idm \in Cards
  BY <1>3 DEF IInv, HeldInv, Past, Polled, Drawn, Interrogation
<1>7. run.step = "node_service" =>
        run.r1 \in R1s \ {OldR1} /\ run.c1a \in {C1A(run.idm, run.r1), None}
  BY DEF IInv, HeldInv, Past, Drawn
<1>8. HeldInv'
  BY <1>4, <1>5, <1>6, <1>7
     DEF HeldInv, Past, Polled, Drawn, Answered, Settled, Authenticated, Attested
<1>9. QED BY <1>4, <1>8

LEMMA ChallengeStep == ASSUME IInv, NEW r1 \in R1s, Challenge(r1) PROVE IInv'
<1> DEFINE block == IF oracle.keyed THEN C1A(run.idm, r1) ELSE None
<1> DEFINE r == [run EXCEPT !.r1 = r1, !.c1a = block]
<1>1. CardType' /\ oracle' \in Oracles
  BY DEF IInv, TypeInv, CardType, Challenge
<1>2. run.step \in DOMAIN Follows /\ Proceed(r) /\ run.step = "challenge" /\ r1 # OldR1
  BY FollowsValues DEF Challenge, At
<1>3. run.idm \in Cards
  BY <1>2 DEF IInv, HeldInv, Past, Polled
<1>4. block \in {C1A(run.idm, r1), None} /\ block \in Blocks \cup {None}
  BY <1>3, BlocksType, ClientAssumption
<1> HIDE DEF block
<1>5. r \in Runs /\ r.outcome = run.outcome /\ r.r1 = r1 /\ r.c1a = block /\ r.idm = run.idm
  BY <1>4 DEF IInv, TypeInv, RunType, Runs
<1> HIDE DEF r
<1>6. /\ HeldInv' => IInv'
      /\ run'.step = "node_service" /\ run'.outcome = "none"
      /\ run'.idm = run.idm /\ run'.r1 = r1 /\ run'.c1a = block
  BY <1>1, <1>2, <1>5, Moves, FollowsValues
<1>7. HeldInv'
  BY <1>2, <1>3, <1>4, <1>6
     DEF HeldInv, Past, Polled, Drawn, Answered, Settled, Authenticated, Attested
<1>8. QED BY <1>6, <1>7

\* A late answer that is taken for one to Authentication1 or 2 is the earlier
\* session's.
LEMMA LateAnswers ==
  ASSUME CardType, late # None
  PROVE  /\ late.command = "authentication1" => \E c \in Cards : late = Answer1(c, OldR1, OldR2)
         /\ late.command = "authentication2" => \E c \in Cards : late = Answer2(c, OldR1, OldR2)
BY DEF CardType, LateFrames, Answer1, Answer2, Frame, Interrogation

\* The run goes on to settle with whatever two blocks it took for an answer.
LEMMA Settling ==
  ASSUME IInv, At("authentication1"), CardType', oracle' \in Oracles,
         NEW data \in Blocks \X Blocks, Proceed([run EXCEPT !.answer1 = data])
  PROVE  IInv'
<1> DEFINE r == [run EXCEPT !.answer1 = data]
<1>1. run.step \in DOMAIN Follows /\ Proceed(r) /\ run.step = "authentication1"
  BY FollowsValues DEF At
<1>2. /\ r \in Runs /\ r.outcome = run.outcome /\ r.answer1 = data
      /\ r.idm = run.idm /\ r.r1 = run.r1 /\ r.c1a = run.c1a
  BY DEF IInv, TypeInv, RunType, Runs
<1> HIDE DEF r
<1>3. /\ HeldInv' => IInv'
      /\ run'.step = "settle" /\ run'.outcome = "none" /\ run'.answer1 = data
      /\ run'.idm = run.idm /\ run'.r1 = run.r1 /\ run'.c1a = run.c1a
  BY <1>1, <1>2, Moves, FollowsValues
<1>4. /\ run.idm \in Cards /\ run.r1 \in R1s \ {OldR1}
      /\ run.c1a \in {C1A(run.idm, run.r1), None}
  BY <1>1 DEF IInv, HeldInv, Past, Polled, Drawn
<1>5. HeldInv'
  BY <1>3, <1>4 DEF HeldInv, Past, Polled, Drawn, Answered, Settled, Authenticated, Attested
<1>6. QED BY <1>3, <1>5

LEMMA Authentication1Step == ASSUME IInv, Authentication1 PROVE IInv'
<1> USE DEF IInv, TypeInv
<1>1. At("authentication1") /\ oracle' = oracle /\ sessions' = sessions /\ on' = on
  BY DEF Authentication1
<1>2. CASE /\ on = run.idm
           /\ \E r1 \in Openings("alpha_l", on, run.c1a), r2 \in R2s \ {OldR2} :
                /\ pending' = [r1 |-> r1, r2 |-> r2]
                /\ Taken1(Answer1(on, r1, r2)) \/ Ends("failed")
           /\ UNCHANGED late
  <2>1. PICK r1 \in Openings("alpha_l", on, run.c1a), r2 \in R2s \ {OldR2} :
          /\ pending' = [r1 |-> r1, r2 |-> r2]
          /\ Taken1(Answer1(on, r1, r2)) \/ Ends("failed")
    BY <1>2
  <2>2. /\ run.idm \in Cards /\ run.r1 \in R1s
        /\ run.c1a \in {C1A(run.idm, run.r1), None}
    BY <1>1 DEF HeldInv, Past, Polled, Drawn, At
  <2>3. r1 \in Randoms /\ Encrypt("alpha_l", on, r1) = run.c1a
    BY DEF Openings
  <2>4. Encrypt("alpha_l", on, r1) \in Blocks
    BY <2>2, <2>3, <1>2 DEF Encrypt, Blocks, KeyPairs
  <2>5. r1 = run.r1
    BY <2>2, <2>3, <2>4, <1>2, ClientAssumption DEF C1A, Encrypt
  <2>6. CardType'
    BY <2>1, <2>2, <2>5, <1>1, <1>2 DEF CardType
  <2>7. CASE Ends("failed")
    BY <2>6, <2>7, <1>1, RunFails
  <2>8. CASE Taken1(Answer1(on, r1, r2))
    <3>1. Answer1(on, r1, r2).data \in Blocks \X Blocks
      BY <2>2, <2>5, <1>2, BlocksType DEF Answer1, Frame
    <3>2. \/ Proceed([run EXCEPT !.answer1 = Answer1(on, r1, r2).data])
          \/ Ends("failed")
      BY <2>8 DEF Taken1, Take
    <3>3. QED BY <3>1, <3>2, <2>6, <1>1, RunFails, Settling
  <2>9. QED BY <2>1, <2>7, <2>8
<1>3. CASE late # None /\ Taken1(late) /\ late' = None /\ UNCHANGED pending
  <2>1. CardType'
    BY <1>1, <1>3 DEF CardType
  <2>2. \/ late.command = "authentication1" /\ Proceed([run EXCEPT !.answer1 = late.data])
        \/ Ends("failed")
    BY <1>3 DEF Taken1, Take, Expected
  <2>3. late.command = "authentication1" => late.data \in Blocks \X Blocks
    BY <1>3, LateAnswers, BlocksType, ClientAssumption DEF Answer1, Frame
  <2>4. QED BY <2>1, <2>2, <2>3, <1>1, RunFails, Settling
<1>4. QED BY <1>2, <1>3 DEF Authentication1

LEMMA SettleStep == ASSUME IInv, Settle PROVE IInv'
<1>1. PICK r2 \in Openings("l_beta", run.idm, c2a) :
        Proceed([run EXCEPT !.c2b = C2B(run.idm, r2)])
  BY DEF Settle
<1> DEFINE r == [run EXCEPT !.c2b = C2B(run.idm, r2)]
<1>2. CardType' /\ oracle' \in Oracles
  BY DEF IInv, TypeInv, CardType, Settle
<1>3. run.step \in DOMAIN Follows /\ run.step = "settle" /\ c1b = C1B(run.idm, run.r1)
  BY FollowsValues DEF Settle, At
<1>4. /\ run.idm \in Cards /\ run.r1 \in R1s \ {OldR1}
      /\ run.c1a \in {C1A(run.idm, run.r1), None} /\ run.answer1 \in Blocks \X Blocks
  BY <1>3 DEF IInv, HeldInv, Past, Polled, Drawn, Answered
<1>5. C2B(run.idm, r2) \in Blocks
  BY <1>4 DEF Openings, C2B, Encrypt, Blocks, KeyPairs
<1>6. /\ r \in Runs /\ r.outcome = run.outcome /\ r.answer1 = run.answer1
      /\ r.idm = run.idm /\ r.r1 = run.r1 /\ r.c1a = run.c1a
  BY <1>5 DEF IInv, TypeInv, RunType, Runs
<1>7. Proceed(r)
  BY <1>1
<1> HIDE DEF r
<1>8. /\ HeldInv' => IInv'
      /\ run'.step = "authentication2" /\ run'.outcome = "none" /\ run'.answer1 = run.answer1
      /\ run'.idm = run.idm /\ run'.r1 = run.r1 /\ run'.c1a = run.c1a
  BY <1>2, <1>3, <1>6, <1>7, Moves, FollowsValues
<1>9. HeldInv'
  BY <1>3, <1>4, <1>8
     DEF HeldInv, Past, Polled, Drawn, Answered, Settled, Authenticated, Attested, c1b
<1>10. QED BY <1>8, <1>9

\* The run goes on to attest with the AUTH2 it took.
LEMMA Attesting ==
  ASSUME IInv, At("authentication2"), CardType', oracle' \in Oracles,
         NEW auth2 \in Auth2s, Proceed([run EXCEPT !.auth2 = auth2]),
         \E t \in SessionRecords :
           /\ auth2 = Auth2(t.card, t.r1, t.r2)
           /\ (t \in sessions' /\ t.card = run.idm) \/ t.r1 = OldR1
  PROVE  IInv'
<1> DEFINE r == [run EXCEPT !.auth2 = auth2]
<1>1. run.step \in DOMAIN Follows /\ Proceed(r) /\ run.step = "authentication2"
  BY FollowsValues DEF At
<1>2. /\ r \in Runs /\ r.outcome = run.outcome /\ r.answer1 = run.answer1 /\ r.auth2 = auth2
      /\ r.idm = run.idm /\ r.r1 = run.r1 /\ r.c1a = run.c1a
  BY DEF IInv, TypeInv, RunType, Runs
<1> HIDE DEF r
<1>3. /\ HeldInv' => IInv'
      /\ run'.step = "attest" /\ run'.outcome = "none" /\ run'.answer1 = run.answer1
      /\ run'.idm = run.idm /\ run'.r1 = run.r1 /\ run'.c1a = run.c1a /\ run'.auth2 = auth2
  BY <1>1, <1>2, Moves, FollowsValues
<1>4. /\ run.idm \in Cards /\ run.r1 \in R1s \ {OldR1}
      /\ run.c1a \in {C1A(run.idm, run.r1), None} /\ run.answer1 \in Blocks \X Blocks
      /\ c1b = C1B(run.idm, run.r1)
  BY <1>1 DEF IInv, HeldInv, Past, Polled, Drawn, Answered, Settled
<1>5. AuthHeld'
  BY <1>3 DEF AuthHeld
<1>6. HeldInv'
  BY <1>3, <1>4, <1>5
     DEF HeldInv, Past, Polled, Drawn, Answered, Settled, Authenticated, Attested, c1b
<1>7. QED BY <1>3, <1>6

LEMMA Authentication2Step == ASSUME IInv, Authentication2 PROVE IInv'
<1> USE DEF IInv, TypeInv
<1>1. At("authentication2") /\ oracle' = oracle /\ pending' = pending /\ on' = on
  BY DEF Authentication2
<1>2. CASE /\ on = run.idm /\ pending # None
           /\ sessions' = sessions \cup {Session(on, pending.r1, pending.r2)}
           /\ Taken2(Answer2(on, pending.r1, pending.r2)) \/ Ends("failed")
           /\ UNCHANGED late
  <2> DEFINE t == Session(on, pending.r1, pending.r2)
  <2>1. run.idm \in Cards
    BY <1>1 DEF HeldInv, Past, Polled, Drawn, Answered, Settled, At
  <2>2. /\ pending.r1 \in R1s /\ pending.r2 \in R2s
        /\ t \in SessionRecords /\ t.card = on /\ t.r1 = pending.r1 /\ t.r2 = pending.r2
    BY <2>1, <1>2 DEF CardType, Session, SessionRecords
  <2>3. CardType' /\ t \in sessions'
    BY <2>2, <1>1, <1>2 DEF CardType
  <2> HIDE DEF t
  <2>4. CASE Ends("failed")
    BY <2>3, <2>4, <1>1, RunFails
  <2>5. CASE Taken2(Answer2(on, pending.r1, pending.r2))
    <3>1. Answer2(on, pending.r1, pending.r2).data = Auth2(t.card, t.r1, t.r2)
      BY <2>2 DEF Answer2, Frame
    <3>2. Auth2(t.card, t.r1, t.r2) \in Auth2s
      BY <2>1, <2>2, <1>2, BlocksType
    <3>3. Proceed([run EXCEPT !.auth2 = Auth2(t.card, t.r1, t.r2)]) \/ Ends("failed")
      BY <2>5, <3>1 DEF Taken2, Take
    <3>4. CASE Proceed([run EXCEPT !.auth2 = Auth2(t.card, t.r1, t.r2)])
      BY <3>2, <3>4, <2>2, <2>3, <1>1, <1>2, Attesting
    <3>5. QED BY <3>3, <3>4, <2>3, <1>1, RunFails
  <2>6. QED BY <1>2, <2>4, <2>5
<1>3. CASE late # None /\ Taken2(late) /\ late' = None /\ UNCHANGED sessions
  <2>1. CardType'
    BY <1>1, <1>3 DEF CardType
  <2>2. \/ late.command = "authentication2" /\ Proceed([run EXCEPT !.auth2 = late.data])
        \/ Ends("failed")
    BY <1>3 DEF Taken2, Take, Expected
  <2>3. CASE late.command = "authentication2" /\ Proceed([run EXCEPT !.auth2 = late.data])
    <3>1. PICK c \in Cards : late = Answer2(c, OldR1, OldR2)
      BY <2>3, <1>3, LateAnswers
    <3> DEFINE t == Session(c, OldR1, OldR2)
    <3>2. t \in SessionRecords /\ t.card = c /\ t.r1 = OldR1 /\ t.r2 = OldR2
      BY ClientAssumption DEF Session, SessionRecords
    <3> HIDE DEF t
    <3>3. late.data = Auth2(t.card, t.r1, t.r2)
      BY <3>1, <3>2 DEF Answer2, Frame
    <3>4. late.data \in Auth2s
      BY <3>2, <3>3, BlocksType, ClientAssumption
    <3>5. QED BY <2>1, <2>3, <3>2, <3>3, <3>4, <1>1, Attesting
  <2>4. QED BY <2>1, <2>2, <2>3, <1>1, RunFails
<1>4. QED BY <1>2, <1>3 DEF Authentication2

\* What the prover proves of a transcript whose C1B the run has checked.
LEMMA ProvenOfRun ==
  ASSUME NEW idm, NEW r1, NEW b, NEW auth2, NEW at, NEW s \in Prove(idm, C1B(idm, r1), b, auth2, at)
  PROVE  s = [idi |-> auth2.idi, r1 |-> r1, attested_at |-> at] /\ auth2.tid = r1.tail
<1>1. PICK r \in Openings("l_beta", idm, C1B(idm, r1)) :
        /\ s = [idi |-> auth2.idi, r1 |-> r, attested_at |-> at]
        /\ \E r2 \in Openings("l_beta", idm, b) :
             CircuitSatisfied(auth2.idi, r, idm, C1B(idm, r1), b, r2, auth2)
  BY DEF Prove
<1>2. r = r1
  BY OpeningsOf DEF C1B
<1>3. QED BY <1>1, <1>2 DEF CircuitSatisfied

LEMMA AttestStep == ASSUME IInv, Attest PROVE IInv'
<1>0. PICK s \in (IF oracle.keyed THEN Proven ELSE {}) \cup EarlierProven :
        \E idi \in Cards, attested_at \in {s.attested_at, Now}, readable \in BOOLEAN :
          Proceed([run EXCEPT !.reply = Reply(s, idi, attested_at, oracle.vk, readable)])
  BY DEF Attest
<1>1. PICK idi \in Cards, attested_at \in {s.attested_at, Now}, readable \in BOOLEAN :
        Proceed([run EXCEPT !.reply = Reply(s, idi, attested_at, oracle.vk, readable)])
  BY <1>0
<1> DEFINE reply == Reply(s, idi, attested_at, oracle.vk, readable)
<1> DEFINE r == [run EXCEPT !.reply = reply]
<1>2. CardType' /\ oracle' \in Oracles
  BY DEF IInv, TypeInv, CardType, Attest
<1>3. run.step \in DOMAIN Follows /\ run.step = "attest" /\ UNCHANGED sessions
  BY FollowsValues DEF Attest, At
<1>4. /\ run.idm \in Cards /\ run.r1 \in R1s \ {OldR1}
      /\ run.c1a \in {C1A(run.idm, run.r1), None} /\ run.answer1 \in Blocks \X Blocks
      /\ c1b = C1B(run.idm, run.r1) /\ AuthHeld
  BY <1>3 DEF IInv, HeldInv, Past, Polled, Drawn, Answered, Settled, Authenticated
<1>5. Now \in Times /\ oracle.clock \in Times /\ oracle.vk \in Vks
  BY DEF IInv, TypeInv, Oracles, Times
<1>6. ASSUME s \in Proven
      PROVE  s \in Statements /\ s \in Prove(run.idm, c1b, c2a, run.auth2, s.attested_at)
  <2>1. s \in Prove(run.idm, C1B(run.idm, run.r1), c2a, run.auth2, oracle.clock)
    BY <1>4, <1>6 DEF Proven
  <2>2. s = [idi |-> run.auth2.idi, r1 |-> run.r1, attested_at |-> oracle.clock]
    BY <2>1, ProvenOfRun
  <2>3. run.auth2.idi \in Cards
    BY <1>4 DEF AuthHeld, Auth2, SessionRecords
  <2>4. s \in Statements
    BY <1>4, <1>5, <2>2, <2>3 DEF Statements
  <2>5. s \in Prove(run.idm, c1b, c2a, run.auth2, s.attested_at)
    BY <1>4, <2>1, <2>2
  <2>6. QED BY <2>4, <2>5
<1>7. ASSUME s \in EarlierProven PROVE s \in Statements /\ s.r1 = OldR1
  <2>1. PICK t \in {x \in sessions : x.r1 = OldR1} :
          s = [idi |-> t.card, r1 |-> t.r1, attested_at |-> Now]
    BY <1>7 DEF EarlierProven
  <2>2. t.card \in Cards
    BY DEF IInv, TypeInv, CardType, SessionRecords
  <2>3. QED BY <1>5, <2>1, <2>2, ClientAssumption DEF Statements
<1>8. /\ s \in Statements
      /\ s \in Prove(run.idm, c1b, c2a, run.auth2, s.attested_at) \/ s.r1 = OldR1
  BY <1>6, <1>7
<1>9. reply \in Replies /\ reply.statement = s
  BY <1>5, <1>8 DEF Reply, Replies, Statements
<1> HIDE DEF reply
<1>10. /\ r \in Runs /\ r.outcome = run.outcome /\ r.answer1 = run.answer1
       /\ r.auth2 = run.auth2 /\ r.reply = reply
       /\ r.idm = run.idm /\ r.r1 = run.r1 /\ r.c1a = run.c1a
  BY <1>9 DEF IInv, TypeInv, RunType, Runs
<1>11. Proceed(r)
  BY <1>1 DEF reply
<1> HIDE DEF r
<1>12. /\ HeldInv' => IInv'
       /\ run'.step = "verify" /\ run'.outcome = "none" /\ run'.answer1 = run.answer1
       /\ run'.idm = run.idm /\ run'.r1 = run.r1 /\ run'.c1a = run.c1a
       /\ run'.auth2 = run.auth2 /\ run'.reply = reply
  BY <1>2, <1>3, <1>10, <1>11, Moves, FollowsValues
<1>13. AuthHeld'
  BY <1>3, <1>4, <1>12 DEF AuthHeld
<1>14. ReplyHeld'
  BY <1>8, <1>9, <1>12 DEF ReplyHeld, c1b, c2a
<1>15. HeldInv'
  BY <1>4, <1>12, <1>13, <1>14
     DEF HeldInv, Past, Polled, Drawn, Answered, Settled, Authenticated, Attested, c1b
<1>16. QED BY <1>12, <1>15

\* All that a run holds when it checks its attestation.
HeldLast ==
  /\ run.idm \in Cards /\ run.r1 \in R1s \ {OldR1}
  /\ run.c1a \in {C1A(run.idm, run.r1), None} /\ run.answer1 \in Blocks \X Blocks
  /\ c1b = C1B(run.idm, run.r1) /\ AuthHeld /\ ReplyHeld

LEMMA LastHeld == ASSUME HeldInv, run.step \in Attested PROVE HeldLast
BY DEF HeldInv, Past, Polled, Drawn, Answered, Settled, Authenticated, Attested, HeldLast

\* A check changes the step and the outcome alone.
LEMMA LastKept ==
  ASSUME HeldLast, UNCHANGED sessions,
         run'.idm = run.idm, run'.r1 = run.r1, run'.c1a = run.c1a, run'.answer1 = run.answer1,
         run'.auth2 = run.auth2, run'.reply = run.reply,
         run'.step = "done" \/ (run'.outcome = "none" /\ run'.step = "statement"
                                /\ run'.reply = Faithful(run'.reply.statement, run'.vk))
  PROVE  HeldInv'
<1>1. AuthHeld' /\ ReplyHeld'
  BY DEF HeldLast, AuthHeld, ReplyHeld, c1b, c2a
<1>2. c1b' = c1b
  BY DEF c1b
<1>3. QED BY <1>1, <1>2 DEF HeldLast, HeldInv, Past

LEMMA VerifyStep == ASSUME IInv, Verify PROVE IInv'
<1>1. CardType' /\ oracle' \in Oracles /\ UNCHANGED sessions
  BY DEF IInv, TypeInv, CardType, Verify
<1>2. run.step \in DOMAIN Follows /\ run.step = "verify" /\ run \in Runs /\ RunType
  BY FollowsValues DEF Verify, At, IInv, TypeInv, RunType
<1>3. HeldLast
  BY <1>2, LastHeld DEF IInv, Attested
<1>4. CASE run.reply = Faithful(run.reply.statement, run.vk)
  <2>1. Proceed(run)
    BY <1>4 DEF Verify
  <2>2. /\ HeldInv' => IInv'
        /\ run'.step = "statement" /\ run'.outcome = "none" /\ run'.vk = run.vk
        /\ run'.idm = run.idm /\ run'.r1 = run.r1 /\ run'.c1a = run.c1a
        /\ run'.answer1 = run.answer1 /\ run'.auth2 = run.auth2 /\ run'.reply = run.reply
    BY <1>1, <1>2, <2>1, Moves, FollowsValues
  <2>3. HeldInv'
    BY <1>1, <1>3, <1>4, <2>2, LastKept
  <2>4. QED BY <2>2, <2>3
<1>5. CASE run.reply # Faithful(run.reply.statement, run.vk)
  <2>1. Ends("rejected") /\ "rejected" \in Outcomes
    BY <1>5 DEF Verify, Outcomes
  <2>2. /\ run' \in Runs /\ run'.step = "done" /\ run'.outcome = "rejected"
        /\ run'.vk = run.vk /\ run'.idm = run.idm /\ run'.r1 = run.r1 /\ run'.c1a = run.c1a
        /\ run'.answer1 = run.answer1 /\ run'.auth2 = run.auth2 /\ run'.reply = run.reply
    BY <1>2, <2>1, Ended
  <2>3. HeldInv'
    BY <1>1, <1>3, <2>2, LastKept
  <2>4. TypeInv'
    BY <1>1, <2>2 DEF TypeInv, RunType
  <2>5. ExitCodeIsEarned'
    BY <1>5, <2>2 DEF ExitCodeIsEarned
  <2>6. QED BY <2>3, <2>4, <2>5 DEF IInv
<1>6. QED BY <1>4, <1>5

LEMMA StatementStep == ASSUME IInv, Statement PROVE IInv'
<1> DEFINE s == run.reply.statement
<1>1. CardType' /\ oracle' \in Oracles /\ UNCHANGED sessions
  BY DEF IInv, TypeInv, CardType, Statement
<1>2. run.step = "statement" /\ RunType
  BY DEF Statement, At, IInv, TypeInv
<1>3. HeldLast
  BY <1>2, LastHeld DEF IInv, Attested
<1>4. run.reply = Faithful(s, run.vk)
  BY <1>2 DEF IInv, HeldInv
<1>5. /\ run.reply.idi = s.idi /\ run.reply.attested_at = s.attested_at
      /\ run.reply.vk = run.vk
  BY <1>4 DEF Faithful, Reply
<1> DEFINE outcome == IF Checked(s) THEN "verified" ELSE "rejected"
<1>6. Ends(outcome) /\ outcome \in Outcomes
  BY DEF Statement, Outcomes
<1> HIDE DEF outcome
<1>7. /\ run' \in Runs /\ run'.step = "done" /\ run'.outcome = outcome
      /\ run'.vk = run.vk /\ run'.idm = run.idm /\ run'.r1 = run.r1 /\ run'.c1a = run.c1a
      /\ run'.answer1 = run.answer1 /\ run'.auth2 = run.auth2 /\ run'.reply = run.reply
  BY <1>2, <1>6, Ended
<1>8. HeldInv'
  BY <1>1, <1>3, <1>7, LastKept
<1>9. TypeInv'
  BY <1>1, <1>7 DEF TypeInv, RunType
<1>10. s \in Prove(run.idm, c1b, c2a, run.auth2, s.attested_at) =>
         /\ s = [idi |-> run.auth2.idi, r1 |-> run.r1, attested_at |-> s.attested_at]
         /\ run.auth2.tid = run.r1.tail
  BY <1>3, ProvenOfRun DEF HeldLast
<1>11. ASSUME Checked(s)
       PROVE  /\ \E t \in sessions : t.card = run.idm /\ t.r1 = run.r1
              /\ s.idi = run.idm
  <2>1. s.r1 = run.r1 /\ run.r1 # OldR1 /\ run.r1 \in R1s
    BY <1>3, <1>11 DEF Checked, HeldLast
  <2>2. s \in Prove(run.idm, c1b, c2a, run.auth2, s.attested_at)
    BY <1>3, <2>1 DEF HeldLast, ReplyHeld
  <2>3. s.idi = run.auth2.idi /\ run.auth2.tid = run.r1.tail
    BY <1>10, <2>2
  <2>4. PICK t \in SessionRecords :
          /\ run.auth2 = Auth2(t.card, t.r1, t.r2)
          /\ (t \in sessions /\ t.card = run.idm) \/ t.r1 = OldR1
    BY <1>3 DEF HeldLast, AuthHeld
  <2>5. run.auth2.tid = t.r1.tail /\ run.auth2.idi = t.card /\ t.r1 \in Randoms
    BY <2>4 DEF Auth2, SessionRecords, Randoms
  <2>6. t.r1 = run.r1
    BY <2>1, <2>3, <2>5, TailIsNumber DEF Randoms
  <2>7. QED BY <2>1, <2>3, <2>4, <2>5, <2>6
<1>12. ASSUME ~Checked(s)
       PROVE  \/ ~Plausible(run.reply.attested_at)
              \/ s \notin Prove(run.idm, c1b, c2a, run.auth2, run.reply.attested_at)
  <2>1. CASE ~Plausible(s.attested_at)
    BY <1>5, <2>1
  <2>2. CASE s.r1 # run.r1
    <3>1. s \notin Prove(run.idm, c1b, c2a, run.auth2, s.attested_at)
      BY <1>10, <2>2
    <3>2. QED BY <1>5, <3>1
  <2>3. QED BY <1>12, <2>1, <2>2 DEF Checked
<1>13. ExitCodeIsEarned'
  <2>1. CASE Checked(s)
    <3>1. outcome = "verified"
      BY <2>1 DEF outcome
    <3>2. AbsDiff(Now, run.reply.attested_at) <= Day
      BY <1>5, <2>1 DEF Checked, Plausible
    <3>3. QED BY <1>1, <1>5, <1>7, <1>11, <2>1, <3>1, <3>2 DEF ExitCodeIsEarned
  <2>2. CASE ~Checked(s)
    <3>1. outcome = "rejected"
      BY <2>2 DEF outcome
    <3>2. QED BY <1>7, <1>12, <2>2, <3>1 DEF ExitCodeIsEarned, c1b, c2a
  <2>3. QED BY <2>1, <2>2
<1>14. QED BY <1>8, <1>9, <1>13 DEF IInv

-----------------------------------------------------------------------------
(* The theorems.                                                              *)

LEMMA InvStep == IInv /\ [Next]_vars => IInv'
<1> SUFFICES ASSUME IInv, [Next]_vars PROVE IInv'
  OBVIOUS
<1>1. CASE UNCHANGED vars
  <2>1. CardType' /\ oracle' \in Oracles
    BY <1>1 DEF IInv, TypeInv, CardType, vars
  <2>2. QED BY <1>1, <2>1, RunKept DEF vars
<1>2. CASE Next
  BY <1>2, MoveCardStep, DeployStep, FailStep, PingStep, FetchKeyStep, PollStep,
     InterrogateStep, ChallengeStep, Authentication1Step, SettleStep, Authentication2Step,
     AttestStep, VerifyStep, StatementStep DEF Next
<1>3. QED BY <1>1, <1>2

LEMMA InvHolds == Spec => []IInv
BY InvInit, InvStep, PTL DEF Spec

\* The reader's client keeps the shape of its state, of the card's session and
\* of the attestation it was sent (usb-poc main.rs:144-399).
THEOREM TypeCorrect == Spec => []TypeOK
<1>1. IInv => TypeOK
  BY TypeParts DEF IInv
<1>2. QED BY <1>1, InvHolds, PTL

\* Exit code 0 stands for this run's session and this key, exit code 3 is never
\* the answer to a faithful and timely attestation of this run's transcript,
\* whatever was swapped, deployed again or answered late (main.rs:324-399).
THEOREM ExitCodeIsEarnedCorrect == Spec => []ExitCodeIsEarned
<1>1. IInv => ExitCodeIsEarned
  BY DEF IInv
<1>2. QED BY <1>1, InvHolds, PTL
=============================================================================
