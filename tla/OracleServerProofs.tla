-------------------------- MODULE OracleServerProofs --------------------------
(* Proofs about OracleServer for any number of cards, readers, drawn numbers *)
(* and proof slots.                                                          *)
EXTENDS OracleServer, SequenceTheorems, TLAPS

\* The claim a request will make when its proof is done.
Claim(e) == [idi |-> e.verified.idi, r1 |-> e.verified.r1, attested_at |-> e.attested_at]

\* The requests that passed the check of their transcript and whose claim is
\* about a session that happened.
Justified ==
  {e \in Requests :
     /\ e.verified \in VerifySession(e.transcript[1], e.transcript[2],
                                     e.transcript[3], e.transcript[4])
     /\ OneSession(Claim(e))}

\* The inductive invariant: the type invariant strengthened by where an R1 and
\* an AUTH2 come from, by the exchanges that cards take part in (OpenedOK), by
\* the sum of permits, and by what is justified.
CardsOK ==
  /\ on \in [Readers -> Cards \cup {NoCard}]
  /\ pending \in [Cards -> [r1 : R1s, r2 : R2s] \cup {NoCard}]
  /\ call \in [Readers -> [asked : Transcripts, since : Nat] \cup {NoCall}]
  /\ left \in [Kinds -> Nat]

\* The steps at which a reader holds the card's blocks.
Answered == {"answered", "settled", "authenticated"}

SessionsOK ==
  /\ session \in [Readers -> SessionStates]
  /\ \A k \in Readers : In(k, "challenged") => session[k].c1a = C1A(session[k].idm, session[k].r1)
  /\ \A k \in Readers : In(k, "authenticated") => session[k].auth2 \in Answers2
  /\ \A k \in Readers : session[k].step \in Answered =>
       session[k].c1b \in Answers /\ session[k].c2a \in Answers

HistoryOK ==
  /\ opened \subseteq [card : Cards, r1 : R1s, r2 : R2s]
  /\ completed \subseteq [card : Cards, r1 : R1s, r2 : R2s, at : Nat]
  /\ now \in Nat
  /\ \A s \in completed : s.at <= now

\* An Authentication1 is known by its R2; what follows is of one of them.
OpenedOK ==
  /\ \A o, p \in opened : o.r2 = p.r2 => o = p
  /\ \A c \in Cards : pending[c] # NoCard =>
       [card |-> c, r1 |-> pending[c].r1, r2 |-> pending[c].r2] \in opened
  /\ \A s \in completed : [card |-> s.card, r1 |-> s.r1, r2 |-> s.r2] \in opened

SlotsOK ==
  /\ permits \in Nat
  /\ permits + Len(proving) = MaxConcurrentProofs
  /\ orphans \in Nat
  /\ queue \in Seq(Justified) /\ proving \in Seq(Justified)
  /\ issued \subseteq Attestations
  /\ AttestedSessionsHappened

IInv == CardsOK /\ SessionsOK /\ HistoryOK /\ OpenedOK /\ SlotsOK

-----------------------------------------------------------------------------
(* Lemmas about blocks and transcripts.                                      *)

\* A block opens to at most one number.
LEMMA OpeningIsUnique ==
  ASSUME NEW pair, NEW idm, NEW b, NEW r \in Openings(pair, idm, b),
         NEW s \in Openings(pair, idm, b)
  PROVE  r = s
<1>1. Encrypt(pair, idm, r) = Encrypt(pair, idm, s)
  BY DEF Openings
<1>2. QED BY <1>1 DEF Encrypt

\* A transcript of blocks and an AUTH2 that cards gave, and that passes the
\* check: its C2A is of the session that the AUTH2 is of, so it is made for that
\* session's card, and so is its C1B, whose R1 has that session's last six bytes.
LEMMA VerifiedSessionHappened ==
  ASSUME HistoryOK, OpenedOK,
         NEW idm, NEW c1b \in Answers, NEW c2a \in Answers, NEW auth2 \in Answers2,
         NEW v \in VerifySession(idm, c1b, c2a, auth2)
  PROVE  /\ v \in Verified
         /\ OneSession([idi |-> v.idi, r1 |-> v.r1, attested_at |-> now])
<1>1. PICK s \in completed : auth2 = Auth2(s.card, s.r1, s.r2)
  BY DEF Answers2
<1>2. s \in [card : Cards, r1 : R1s, r2 : R2s, at : Nat] /\ s.at <= now
  BY DEF HistoryOK
<1>3. PICK r \in Openings("l_beta", idm, c1b), r2 \in Openings("l_beta", idm, c2a) :
        auth2.key = r2 /\ auth2.tid = r.tail /\ v = [idi |-> auth2.idi, r1 |-> r]
  BY DEF VerifySession, VerifyAuth2
<1>4. r2 = s.r2 /\ r.tail = s.r1.tail /\ v.idi = s.card /\ v.r1 = r
  BY <1>1, <1>3 DEF Auth2
<1>5. r \in Randoms /\ Encrypt("l_beta", idm, r) = c1b /\ Encrypt("l_beta", idm, r2) = c2a
  BY <1>3 DEF Openings
<1>6. \A b \in Answers : \E o \in opened :
        b = Encrypt("l_beta", o.card, o.r1) \/ b = Encrypt("l_beta", o.card, o.r2)
  BY DEF Answers, C1B, C2A
<1>7. opened \subseteq [card : Cards, r1 : R1s, r2 : R2s]
  BY DEF HistoryOK
<1>8. idm = s.card
  <2>1. PICK p \in opened : c2a = Encrypt("l_beta", p.card, p.r1)
                               \/ c2a = Encrypt("l_beta", p.card, p.r2)
    BY <1>6
  <2>2. p.card = idm /\ (p.r1 = s.r2 \/ p.r2 = s.r2)
    BY <1>4, <1>5, <2>1 DEF Encrypt
  <2>3. p.r2 = s.r2
    BY <1>2, <1>7, <2>2, RandomsAssumption
  <2>4. [card |-> s.card, r1 |-> s.r1, r2 |-> s.r2] \in opened
    BY DEF OpenedOK
  <2>5. p = [card |-> s.card, r1 |-> s.r1, r2 |-> s.r2]
    BY <2>3, <2>4 DEF OpenedOK
  <2>6. QED BY <2>2, <2>5
<1>9. PICK o \in opened : o.card = s.card /\ o.r1 = r
  <2>1. PICK o \in opened : c1b = Encrypt("l_beta", o.card, o.r1)
                               \/ c1b = Encrypt("l_beta", o.card, o.r2)
    BY <1>6
  <2>2. o.card = s.card /\ (o.r1 = r \/ o.r2 = r)
    BY <1>5, <1>8, <2>1 DEF Encrypt
  <2>3. r \notin R2s
    BY <1>2, <1>4, RandomsAssumption DEF Randoms
  <2>4. o.r2 \in R2s
    BY <1>7
  <2>5. QED BY <2>2, <2>3, <2>4
<1>10. v \in Verified
  BY <1>2, <1>3, <1>4, <1>7, <1>9 DEF Verified
<1>11. QED BY <1>2, <1>4, <1>9, <1>10 DEF OneSession

\* The proof of a justified request claims what was verified.
LEMMA ProofClaims ==
  ASSUME NEW e \in Justified, NEW a \in ProofOf(e)
  PROVE  a = Claim(e)
<1> DEFINE t == e.transcript
<1>1. PICK r \in Openings("l_beta", t[1], t[2]) :
        a = [idi |-> t[4].idi, r1 |-> r, attested_at |-> e.attested_at]
  BY DEF ProofOf, Prove
<1>2. PICK q \in Openings("l_beta", t[1], t[2]) : e.verified = [idi |-> t[4].idi, r1 |-> q]
  BY DEF Justified, VerifySession
<1>3. r = q
  BY OpeningIsUnique
<1>4. QED BY <1>1, <1>2, <1>3 DEF Claim

\* Removing an element of a sequence leaves one less, from the same set.
LEMMA RemoveAtType ==
  ASSUME NEW S, NEW s \in Seq(S), NEW i \in DOMAIN s
  PROVE  RemoveAt(s, i) \in Seq(S) /\ Len(RemoveAt(s, i)) = Len(s) - 1
<1>0. i \in 1..Len(s) /\ Len(s) \in Nat
  OBVIOUS
<1>1. SubSeq(s, 1, i-1) \in Seq(S) /\ Len(SubSeq(s, 1, i-1)) = i - 1
  <2>1. \A j \in 1..(i-1) : s[j] \in S
    BY <1>0
  <2>2. QED BY <1>0, <2>1
<1>2. SubSeq(s, i+1, Len(s)) \in Seq(S) /\ Len(SubSeq(s, i+1, Len(s))) = Len(s) - i
  <2>1. \A j \in (i+1)..Len(s) : s[j] \in S
    BY <1>0
  <2>2. QED BY <1>0, <2>1
<1>3. /\ SubSeq(s, 1, i-1) \o SubSeq(s, i+1, Len(s)) \in Seq(S)
      /\ Len(SubSeq(s, 1, i-1) \o SubSeq(s, i+1, Len(s)))
           = Len(SubSeq(s, 1, i-1)) + Len(SubSeq(s, i+1, Len(s)))
  BY <1>1, <1>2, ConcatProperties
<1>4. (i - 1) + (Len(s) - i) = Len(s) - 1
  BY <1>0
<1>5. QED BY <1>1, <1>2, <1>3, <1>4 DEF RemoveAt

-----------------------------------------------------------------------------
(* What a step keeps.                                                        *)

\* Sessions that happened stay in the history, so what they justify stays
\* justified.
LEMMA HistoryGrows ==
  ASSUME opened \subseteq opened' /\ completed \subseteq completed'
  PROVE  /\ \A a : OneSession(a) => OneSession(a)'
         /\ Seq(Justified) \subseteq Seq(Justified)'
         /\ Answers \subseteq Answers' /\ Answers2 \subseteq Answers2'
<1>1. \A a : OneSession(a) => OneSession(a)'
  BY DEF OneSession
<1>2. Justified \subseteq Justified'
  BY <1>1 DEF Justified
<1>3. Seq(Justified) \subseteq Seq(Justified)'
  BY <1>2, SeqMonotonic
<1>4. Answers \subseteq Answers' /\ Answers2 \subseteq Answers2'
  BY DEF Answers, Answers2
<1>5. QED BY <1>1, <1>3, <1>4

\* Sessions stay in order when a reader takes up a state that is in order.
LEMMA SessionStep ==
  ASSUME SessionsOK, opened \subseteq opened' /\ completed \subseteq completed',
         NEW k \in Readers, NEW s \in SessionStates, Go(k, s),
         s.step = "challenged" => s.c1a = C1A(s.idm, s.r1),
         s.step = "authenticated" => s.auth2 \in Answers2',
         s.step \in Answered => s.c1b \in Answers' /\ s.c2a \in Answers'
  PROVE  SessionsOK'
<1>1. session' \in [Readers -> SessionStates]
  BY DEF SessionsOK, Go
<1>2. \A j \in Readers : session'[j] = IF j = k THEN s ELSE session[j]
  BY DEF SessionsOK, Go
<1>3. \A j \in Readers :
        session'[j].step = "challenged" =>
          session'[j].c1a = C1A(session'[j].idm, session'[j].r1)
  BY <1>2 DEF SessionsOK, In
<1>4. \A j \in Readers : session'[j].step = "authenticated" => session'[j].auth2 \in Answers2'
  BY <1>2, HistoryGrows DEF SessionsOK, In
<1>5. \A j \in Readers : session'[j].step \in Answered =>
        session'[j].c1b \in Answers' /\ session'[j].c2a \in Answers'
  BY <1>2, HistoryGrows DEF SessionsOK
<1>6. QED BY <1>1, <1>3, <1>4, <1>5 DEF SessionsOK, In

\* Or by a step that leaves the sessions alone.
LEMMA SessionFrame ==
  ASSUME SessionsOK, opened \subseteq opened' /\ completed \subseteq completed', UNCHANGED session
  PROVE  SessionsOK'
BY HistoryGrows DEF SessionsOK, In

\* The slots stay in order when the server rests.
LEMMA SlotsFrame ==
  ASSUME SlotsOK, opened \subseteq opened' /\ completed \subseteq completed', UNCHANGED slots
  PROVE  SlotsOK'
<1>1. queue \in Seq(Justified)' /\ proving \in Seq(Justified)'
  BY HistoryGrows DEF SlotsOK
<1>2. \A a \in issued : OneSession(a)'
  BY HistoryGrows DEF SlotsOK, AttestedSessionsHappened
<1>3. QED BY <1>1, <1>2 DEF SlotsOK, slots, AttestedSessionsHappened

-----------------------------------------------------------------------------
(* The invariant.                                                            *)

\* The invariant says that the state has its type.
LEMMA InvType == IInv => TypeOK
<1> SUFFICES ASSUME IInv PROVE TypeOK
  OBVIOUS
<1> USE DEF IInv
<1>1. queue \in Seq(Requests) /\ proving \in Seq(Requests)
  <2>1. Justified \subseteq Requests
    BY DEF Justified
  <2>2. QED BY <2>1, SeqMonotonic DEF SlotsOK
<1>2. permits \in 0..MaxConcurrentProofs
  <2>1. Len(proving) \in Nat
    BY <1>1
  <2>2. QED BY <2>1, ServerAssumption DEF SlotsOK
<1>3. QED BY <1>1, <1>2 DEF TypeOK, CardsOK, SessionsOK, HistoryOK, SlotsOK

LEMMA InvInit == Init => IInv
<1> SUFFICES ASSUME Init PROVE IInv
  OBVIOUS
<1>1. CardsOK
  BY ServerAssumption DEF Init, CardsOK
<1>2. SessionsOK
  BY DEF Init, SessionsOK, Idle, SessionStates, In, Answered
<1>3. HistoryOK
  BY ServerAssumption DEF Init, HistoryOK
<1>4. SlotsOK
  BY ServerAssumption DEF Init, SlotsOK, AttestedSessionsHappened
<1>5. OpenedOK
  BY DEF Init, OpenedOK
<1>6. QED BY <1>1, <1>2, <1>3, <1>4, <1>5 DEF IInv

\* A bound that is spent is left with its type.
LEMMA SpendType ==
  ASSUME CardsOK, NEW kind \in Kinds, Spend(kind)
  PROVE  left' \in [Kinds -> Nat]
BY DEF CardsOK, Spend

\* People and the clock leave sessions and requests alone.
LEMMA PeopleStep == IInv /\ (People \/ Tick) => IInv'
<1> SUFFICES ASSUME IInv, People \/ Tick PROVE IInv'
  OBVIOUS
<1> USE DEF IInv
<1>1. /\ opened \subseteq opened' /\ completed \subseteq completed'
      /\ UNCHANGED session /\ UNCHANGED slots /\ UNCHANGED history
  BY DEF People, Place, Lift, Tick, history
<1>2. SessionsOK' /\ SlotsOK'
  BY <1>1, SessionFrame, SlotsFrame
<1>3. HistoryOK'
  <2>1. CASE People
    BY <2>1 DEF People, Place, Lift, HistoryOK, history
  <2>2. CASE Tick
    BY <2>2, ServerAssumption DEF Tick, HistoryOK, history
  <2>3. QED BY <2>1, <2>2
<1>4. CardsOK'
  <2>1. CASE People
    <3>1. left' \in [Kinds -> Nat]
      BY <2>1, SpendType DEF People, Place, Lift, Kinds, CardsOK
    <3>2. QED BY <2>1, <3>1 DEF People, Place, Lift, CardsOK
  <2>2. CASE Tick
    <3>1. left' \in [Kinds -> Nat]
      BY <2>2, SpendType DEF Tick, Kinds
    <3>2. QED BY <2>2, <3>1 DEF Tick, CardsOK, card
  <2>3. QED BY <2>1, <2>2
<1>5. OpenedOK'
  <2>1. CASE People
    BY <2>1 DEF People, Place, Lift, OpenedOK, CardsOK, history
  <2>2. CASE Tick
    BY <2>2 DEF Tick, OpenedOK, card, history
  <2>3. QED BY <2>1, <2>2
<1>6. QED BY <1>2, <1>3, <1>4, <1>5

\* Blocks have their type.
LEMMA BlockTypes ==
  ASSUME NEW c \in Cards, NEW r \in Randoms
  PROVE  /\ C1A(c, r) \in Blocks /\ C1B(c, r) \in Blocks
         /\ C2A(c, r) \in Blocks /\ C2B(c, r) \in Blocks
BY DEF C1A, C1B, C2A, C2B, Encrypt, Blocks, KeyPairs

LEMMA ChallengeStep ==
  ASSUME IInv, NEW k \in Readers, NEW r1 \in R1s, Challenge(k, r1)
  PROVE  IInv'
<1> USE DEF IInv
<1> DEFINE s == [step |-> "challenged", idm |-> on[k], r1 |-> r1, c1a |-> C1A(on[k], r1)]
<1>1. on[k] \in Cards
  BY DEF Challenge, CardsOK
<1>2. s \in SessionStates
  BY <1>1, BlockTypes DEF SessionStates, Randoms
<1>3. Go(k, s) /\ opened \subseteq opened' /\ completed \subseteq completed'
  BY DEF Challenge, history
<1>4. SessionsOK'
  BY <1>2, <1>3, SessionStep DEF Answered
<1>5. SlotsOK'
  BY <1>3, SlotsFrame DEF Challenge
<1>6. CardsOK' /\ HistoryOK' /\ OpenedOK'
  <2>1. left' \in [Kinds -> Nat]
    BY SpendType DEF Challenge, Kinds
  <2>2. QED BY <2>1 DEF Challenge, CardsOK, HistoryOK, OpenedOK, card, history
<1>7. QED BY <1>4, <1>5, <1>6

LEMMA Authentication1Step ==
  ASSUME IInv, NEW k \in Readers, NEW r2 \in R2s, Authentication1(k, r2)
  PROVE  IInv'
<1> USE DEF IInv
<1> DEFINE c == on[k]
<1>1. c \in Cards /\ session[k] \in SessionStates /\ session[k].step = "challenged"
      /\ c = session[k].idm
  BY ServerAssumption DEF Authentication1, In, SessionsOK, CardsOK, SessionStates
<1>2. session[k].r1 \in R1s /\ session[k].c1a = C1A(c, session[k].r1)
  BY <1>1 DEF SessionsOK, SessionStates, In
<1>3. PICK r1 \in Openings("alpha_l", c, session[k].c1a) :
        /\ pending' = [pending EXCEPT ![c] = [r1 |-> r1, r2 |-> r2]]
        /\ opened' = opened \cup {[card |-> c, r1 |-> r1, r2 |-> r2]}
        /\ Go(k, [step |-> "answered", idm |-> c, r1 |-> session[k].r1,
                  c1b |-> C1B(c, r1), c2a |-> C2A(c, r2)])
  BY DEF Authentication1
<1>4. r1 = session[k].r1
  BY <1>2, <1>3 DEF Openings, C1A, Encrypt
<1>5. [step |-> "answered", idm |-> c, r1 |-> session[k].r1,
       c1b |-> C1B(c, r1), c2a |-> C2A(c, r2)] \in SessionStates
  BY <1>1, <1>2, <1>4, BlockTypes DEF SessionStates, Randoms
<1>6. opened \subseteq opened' /\ completed \subseteq completed'
  BY DEF Authentication1
<1>7. SessionsOK'
  <2>1. [card |-> c, r1 |-> r1, r2 |-> r2] \in opened'
    BY <1>3
  <2>2. C1B(c, r1) \in Answers' /\ C2A(c, r2) \in Answers'
    BY <2>1 DEF Answers, C1B, C2A
  <2>3. QED BY <1>3, <1>5, <1>6, <2>2, SessionStep
<1>8. SlotsOK'
  BY <1>6, SlotsFrame DEF Authentication1
<1>9. CardsOK' /\ HistoryOK'
  BY <1>1, <1>2, <1>3, <1>4 DEF Authentication1, CardsOK, HistoryOK
<1>10. OpenedOK'
  <2> DEFINE n == [card |-> c, r1 |-> r1, r2 |-> r2]
  <2>1. opened' = opened \cup {n}
    BY <1>3
  <2>2. \A o \in opened : o.r2 # n.r2
    BY DEF Authentication1
  <2>3. \A o, p \in opened' : o.r2 = p.r2 => o = p
    BY <2>1, <2>2 DEF OpenedOK
  <2>4. \A d \in Cards : pending'[d] # NoCard =>
          [card |-> d, r1 |-> pending'[d].r1, r2 |-> pending'[d].r2] \in opened'
    <3> SUFFICES ASSUME NEW d \in Cards, pending'[d] # NoCard
                 PROVE  [card |-> d, r1 |-> pending'[d].r1, r2 |-> pending'[d].r2] \in opened'
      OBVIOUS
    <3>1. CASE d = c
      BY <1>3, <2>1, <3>1 DEF CardsOK
    <3>2. CASE d # c
      BY <1>3, <2>1, <3>2 DEF CardsOK, OpenedOK
    <3>3. QED BY <3>1, <3>2
  <2>5. QED BY <2>1, <2>3, <2>4 DEF Authentication1, OpenedOK
<1>11. QED BY <1>7, <1>8, <1>9, <1>10

LEMMA SettleStep ==
  ASSUME IInv, NEW k \in Readers, Settle(k)
  PROVE  IInv'
<1> USE DEF IInv
<1> DEFINE s == session[k]
<1>1. /\ s \in [step : {"answered"}, idm : Cards, r1 : R1s, c1b : Blocks, c2a : Blocks]
      /\ s.c1b \in Answers /\ s.c2a \in Answers
  BY DEF Settle, In, SessionsOK, SessionStates, Answered
<1>2. PICK r2 \in Openings("l_beta", s.idm, s.c2a) :
        Go(k, [step |-> "settled", idm |-> s.idm, c1b |-> s.c1b, c2a |-> s.c2a,
               c2b |-> C2B(s.idm, r2)])
  BY DEF Settle
<1>3. [step |-> "settled", idm |-> s.idm, c1b |-> s.c1b, c2a |-> s.c2a,
       c2b |-> C2B(s.idm, r2)] \in SessionStates
  BY <1>1, BlockTypes DEF SessionStates, Openings
<1>4. opened \subseteq opened' /\ completed \subseteq completed'
  BY DEF Settle, history
<1>5. SessionsOK'
  BY <1>1, <1>2, <1>3, <1>4, HistoryGrows, SessionStep
<1>6. SlotsOK'
  BY <1>4, SlotsFrame DEF Settle
<1>7. CardsOK' /\ HistoryOK' /\ OpenedOK'
  BY DEF Settle, CardsOK, HistoryOK, OpenedOK, card, history
<1>8. QED BY <1>5, <1>6, <1>7

LEMMA Authentication2Step ==
  ASSUME IInv, NEW k \in Readers, Authentication2(k)
  PROVE  IInv'
<1> USE DEF IInv
<1> DEFINE s == session[k]
           p == pending[s.idm]
           done == [card |-> s.idm, r1 |-> p.r1, r2 |-> p.r2, at |-> now]
           auth2 == Auth2(s.idm, p.r1, p.r2)
           t == [step |-> "authenticated", idm |-> s.idm, c1b |-> s.c1b, c2a |-> s.c2a,
                 auth2 |-> auth2]
<1>1. /\ s \in [step : {"settled"}, idm : Cards, c1b : Blocks, c2a : Blocks, c2b : Blocks]
      /\ s.c1b \in Answers /\ s.c2a \in Answers
  BY DEF Authentication2, In, SessionsOK, SessionStates, Answered
<1>2. p \in [r1 : R1s, r2 : R2s] /\ p # NoCard
  BY <1>1 DEF Authentication2, CardsOK
<1>3. completed' = completed \cup {done} /\ Go(k, t)
  BY DEF Authentication2
<1>4. auth2 \in Auth2s
  BY <1>1, <1>2 DEF Auth2, Auth2s, Randoms
<1>5. t \in SessionStates
  BY <1>1, <1>4 DEF SessionStates
<1>6. auth2 \in Answers2'
  <2>1. Answers2' = {Auth2(q.card, q.r1, q.r2) : q \in completed'}
    BY DEF Answers2, Auth2
  <2>2. done \in completed' /\ auth2 = Auth2(done.card, done.r1, done.r2)
    BY <1>3
  <2>3. QED BY <2>1, <2>2
<1>7. SessionsOK'
  <2>1. opened \subseteq opened' /\ completed \subseteq completed'
    BY <1>3 DEF Authentication2
  <2>2. s.c1b \in Answers' /\ s.c2a \in Answers'
    BY <1>1, <2>1, HistoryGrows
  <2>3. QED BY <1>3, <1>5, <1>6, <2>1, <2>2, SessionStep
<1>8. SlotsOK'
  BY <1>3, SlotsFrame DEF Authentication2
<1>9. HistoryOK'
  <2>1. done \in [card : Cards, r1 : R1s, r2 : R2s, at : Nat]
    BY <1>1, <1>2 DEF HistoryOK
  <2>2. now \in Nat
    BY DEF HistoryOK
  <2>3. QED BY <1>3, <2>1, <2>2, SMTT(60) DEF Authentication2, HistoryOK
<1>10. CardsOK'
  BY DEF Authentication2, CardsOK, card
<1>11. OpenedOK'
  <2>1. UNCHANGED <<opened, pending>>
    BY DEF Authentication2, card
  <2>2. [card |-> s.idm, r1 |-> p.r1, r2 |-> p.r2] \in opened
    BY <1>1, <1>2 DEF OpenedOK
  <2>3. \A q \in completed' : [card |-> q.card, r1 |-> q.r1, r2 |-> q.r2] \in opened
    <3>1. \A q \in completed' : q \in completed \/ q = done
      BY <1>3
    <3>2. done.card = s.idm /\ done.r1 = p.r1 /\ done.r2 = p.r2
      OBVIOUS
    <3>3. [card |-> done.card, r1 |-> done.r1, r2 |-> done.r2] \in opened
      BY <2>2, <3>2
    <3>4. \A q \in completed : [card |-> q.card, r1 |-> q.r1, r2 |-> q.r2] \in opened
      BY DEF OpenedOK
    <3> HIDE DEF done
    <3>5. QED BY <3>1, <3>3, <3>4
  <2>4. QED BY <2>1, <2>3 DEF OpenedOK
<1>12. QED BY <1>7, <1>8, <1>9, <1>10, <1>11

\* A session that ends, with or without an answer.
LEMMA EndStep ==
  ASSUME IInv, NEW k \in Readers, GiveUp(k) \/ Receive(k)
  PROVE  IInv'
<1> USE DEF IInv
<1>1. Go(k, Idle) /\ UNCHANGED <<card, call, history, slots, now, left>>
  BY DEF GiveUp, Receive
<1>2. opened \subseteq opened' /\ completed \subseteq completed'
  BY <1>1 DEF history
<1>3. Idle \in SessionStates /\ Idle.step = "idle"
  BY DEF Idle, SessionStates
<1>4. SessionsOK'
  BY <1>1, <1>2, <1>3, SessionStep DEF Answered
<1>5. SlotsOK'
  BY <1>1, <1>2, SlotsFrame
<1>6. CardsOK' /\ HistoryOK' /\ OpenedOK'
  BY <1>1 DEF CardsOK, HistoryOK, OpenedOK, card, history
<1>7. QED BY <1>4, <1>5, <1>6

\* A block a card answered has its type.
LEMMA AnswerTypes ==
  ASSUME HistoryOK, NEW b \in Answers
  PROVE  b \in Blocks
<1>1. CASE \E o \in opened : b = C1B(o.card, o.r1)
  <2>1. PICK o \in opened : b = C1B(o.card, o.r1)
    BY <1>1
  <2>2. o.card \in Cards /\ o.r1 \in Randoms
    BY DEF HistoryOK, Randoms
  <2>3. QED BY <2>1, <2>2, BlockTypes
<1>2. CASE \E o \in opened : b = C2A(o.card, o.r2)
  <2>1. PICK o \in opened : b = C2A(o.card, o.r2)
    BY <1>2
  <2>2. o.card \in Cards /\ o.r2 \in Randoms
    BY DEF HistoryOK, Randoms
  <2>3. QED BY <2>1, <2>2, BlockTypes
<1>3. QED BY <1>1, <1>2 DEF Answers

\* A request enters the queue with a claim that is justified.
LEMMA SubmitStep ==
  ASSUME IInv, NEW k \in Readers, NEW idm \in Cards, NEW c1b \in Answers, NEW c2a \in Answers,
         NEW auth2 \in Answers2, Submit(k, idm, c1b, c2a, auth2), left' \in [Kinds -> Nat]
  PROVE  IInv'
<1> USE DEF IInv
<1> DEFINE t == <<idm, c1b, c2a, auth2>>
<1>1. PICK v \in VerifySession(idm, c1b, c2a, auth2) :
        queue' = Append(queue, [caller |-> k, verified |-> v, transcript |-> t,
                                attested_at |-> now])
  BY DEF Submit
<1> DEFINE e == [caller |-> k, verified |-> v, transcript |-> t, attested_at |-> now]
<1>2. v \in Verified /\ OneSession([idi |-> v.idi, r1 |-> v.r1, attested_at |-> now])
  BY VerifiedSessionHappened
<1>3. auth2 \in Auth2s
  BY DEF Answers2, Auth2, Auth2s, HistoryOK, Randoms
<1>4. t \in Transcripts /\ now \in Nat
  <2>1. c1b \in Blocks /\ c2a \in Blocks
    BY AnswerTypes
  <2>2. QED BY <1>3, <2>1 DEF Transcripts, HistoryOK
<1>5. e \in Justified
  <2>1. e \in Requests
    BY <1>2, <1>4 DEF Requests
  <2>2. OneSession(Claim(e))
    BY <1>2 DEF Claim
  <2>3. QED BY <2>1, <2>2 DEF Justified
<1>6. opened \subseteq opened' /\ completed \subseteq completed'
  BY DEF Submit, history
<1>7. SlotsOK'
  <2>1. queue' \in Seq(Justified)
    BY <1>1, <1>5, AppendProperties DEF SlotsOK
  <2>2. queue' \in Seq(Justified)' /\ proving' \in Seq(Justified)'
    BY <1>6, <2>1, HistoryGrows DEF Submit, SlotsOK
  <2>3. AttestedSessionsHappened'
    BY <1>6, HistoryGrows DEF Submit, SlotsOK, AttestedSessionsHappened
  <2>4. QED BY <2>2, <2>3 DEF Submit, SlotsOK
<1>8. SessionsOK'
  <2>1. [step |-> "waiting"] \in SessionStates
    BY DEF SessionStates
  <2>2. Go(k, [step |-> "waiting"])
    BY DEF Submit
  <2>3. QED BY <1>6, <2>1, <2>2, SessionStep DEF Answered
<1>9. CardsOK'
  <2>1. call' = [call EXCEPT ![k] = [asked |-> t, since |-> now]]
    BY DEF Submit
  <2>2. QED BY <1>4, <2>1 DEF Submit, CardsOK, card
<1>10. HistoryOK' /\ OpenedOK'
  BY DEF Submit, HistoryOK, OpenedOK, card, history
<1>11. QED BY <1>7, <1>8, <1>9, <1>10

\* A reader's own transcript, and one put together from cards' answers.
LEMMA AttestStep ==
  ASSUME IInv, NEW k \in Readers, Attest(k)
  PROVE  IInv'
<1> USE DEF IInv
<1> DEFINE s == session[k]
<1>1. /\ s \in [step : {"authenticated"}, idm : Cards, c1b : Blocks, c2a : Blocks,
                auth2 : Auth2s]
      /\ s.auth2 \in Answers2 /\ s.c1b \in Answers /\ s.c2a \in Answers
  BY DEF Attest, In, SessionsOK, SessionStates, Answered
<1>2. left' \in [Kinds -> Nat]
  BY DEF Attest, CardsOK
<1>3. Submit(k, s.idm, s.c1b, s.c2a, s.auth2)
  BY DEF Attest
<1>4. QED BY <1>1, <1>2, <1>3, SubmitStep

LEMMA MixedStep == IInv /\ Mixed => IInv'
<1> SUFFICES ASSUME IInv, Mixed PROVE IInv'
  OBVIOUS
<1> USE DEF IInv
<1>1. PICK k \in Readers, idm \in Cards, c1b \in Answers, c2a \in Answers,
           auth2 \in Answers2 : AttestMixed(k, idm, c1b, c2a, auth2)
  BY DEF Mixed
<1>2. left' \in [Kinds -> Nat]
  BY <1>1, SpendType DEF AttestMixed, Kinds
<1>3. Submit(k, idm, c1b, c2a, auth2)
  BY <1>1 DEF AttestMixed
<1>4. QED BY <1>2, <1>3, SubmitStep

\* The oldest request of the queue takes a permit.
LEMMA AcquireStep == IInv /\ Acquire => IInv'
<1> SUFFICES ASSUME IInv, Acquire PROVE IInv'
  OBVIOUS
<1> USE DEF IInv
<1>1. opened \subseteq opened' /\ completed \subseteq completed' /\ UNCHANGED session
  BY DEF Acquire, history
<1>2. Head(queue) \in Justified /\ Tail(queue) \in Seq(Justified)
  BY HeadTailProperties DEF Acquire, SlotsOK
<1>3. proving' \in Seq(Justified) /\ Len(proving') = Len(proving) + 1
  BY <1>2, AppendProperties DEF Acquire, SlotsOK
<1>4. queue' \in Seq(Justified)' /\ proving' \in Seq(Justified)'
  BY <1>1, <1>2, <1>3, HistoryGrows DEF Acquire
<1>5. permits' \in Nat /\ permits' + Len(proving') = MaxConcurrentProofs
  <2>1. Len(proving) \in Nat
    BY LenProperties DEF SlotsOK
  <2>2. QED BY <1>3, <2>1 DEF Acquire, SlotsOK
<1>6. AttestedSessionsHappened'
  BY <1>1, HistoryGrows DEF Acquire, SlotsOK, AttestedSessionsHappened
<1>7. SlotsOK'
  BY <1>4, <1>5, <1>6 DEF Acquire, SlotsOK
<1>8. SessionsOK'
  BY <1>1, SessionFrame
<1>9. CardsOK' /\ HistoryOK' /\ OpenedOK'
  BY DEF Acquire, CardsOK, HistoryOK, OpenedOK, card, history
<1>10. QED BY <1>7, <1>8, <1>9

\* A permit given back: one proof less, one permit more.
LEMMA PermitBack ==
  ASSUME SlotsOK, NEW i \in DOMAIN proving, proving' = RemoveAt(proving, i),
         permits' = permits + 1, opened \subseteq opened' /\ completed \subseteq completed'
  PROVE  /\ proving' \in Seq(Justified)'
         /\ permits' \in Nat
         /\ permits' + Len(proving') = MaxConcurrentProofs
<1>1. proving' \in Seq(Justified) /\ Len(proving') = Len(proving) - 1
  BY RemoveAtType DEF SlotsOK
<1>2. Len(proving) \in Nat
  BY LenProperties DEF SlotsOK
<1>3. proving' \in Seq(Justified)'
  BY <1>1, HistoryGrows
<1>4. QED BY <1>1, <1>2, <1>3, ServerAssumption, SMTT(60) DEF SlotsOK

\* An answer reaches the reader that waits for it, or nobody.
LEMMA AnswerStep ==
  ASSUME SessionsOK, UNCHANGED history, NEW e \in Requests, NEW s \in SessionStates,
         s.step \in {"idle", "replied"}, Answer(e, s)
  PROVE  SessionsOK'
<1>0. opened \subseteq opened' /\ completed \subseteq completed'
  BY DEF history
<1>1. CASE e.caller = Nobody
  BY <1>0, <1>1, SessionFrame DEF Answer
<1>2. CASE e.caller # Nobody
  <2>1. e.caller \in Readers
    BY <1>2 DEF Requests
  <2>2. Go(e.caller, s)
    BY <1>2 DEF Answer, Go
  <2>3. QED BY <1>0, <2>1, <2>2, SessionStep DEF Answered
<1>3. QED BY <1>1, <1>2

LEMMA ProofEndsStep ==
  ASSUME IInv, NEW i \in DOMAIN proving, ProofEnds(i)
  PROVE  IInv'
<1> USE DEF IInv
<1> DEFINE e == proving[i]
<1>1. e \in Justified
  BY DEF SlotsOK
<1>2. PICK a \in ProofOf(e) :
        issued' = issued \cup {a} /\ Answer(e, [step |-> "replied", att |-> a])
  BY DEF ProofEnds
<1>3. a = Claim(e) /\ e \in Requests /\ OneSession(Claim(e))
  BY <1>1, <1>2, ProofClaims DEF Justified
<1>4. a \in Attestations
  BY <1>3 DEF Claim, Requests, Verified, Attestations
<1>5. UNCHANGED <<card, call, history, queue, orphans, now, left>>
  BY DEF ProofEnds
<1>6. UNCHANGED history /\ UNCHANGED <<opened, completed>>
  BY <1>5 DEF history
<1>7. SessionsOK'
  <2>1. [step |-> "replied", att |-> a] \in SessionStates
    BY <1>4 DEF SessionStates
  <2>2. QED BY <1>2, <1>3, <1>6, <2>1, AnswerStep
<1>8. SlotsOK'
  <2>1. AttestedSessionsHappened'
    BY <1>2, <1>3, <1>6, HistoryGrows DEF SlotsOK, AttestedSessionsHappened
  <2>2. queue' \in Seq(Justified)'
    BY <1>5, <1>6, HistoryGrows DEF SlotsOK
  <2>3. issued' \subseteq Attestations
    BY <1>2, <1>4 DEF SlotsOK
  <2>4. QED BY <1>5, <1>6, <2>1, <2>2, <2>3, PermitBack DEF ProofEnds, SlotsOK
<1>9. CardsOK' /\ HistoryOK' /\ OpenedOK'
  BY <1>5 DEF CardsOK, HistoryOK, OpenedOK, card, history
<1>10. QED BY <1>7, <1>8, <1>9

LEMMA ProofFailsStep ==
  ASSUME IInv, NEW i \in DOMAIN proving, ProofFails(i)
  PROVE  IInv'
<1> USE DEF IInv
<1>1. UNCHANGED <<card, call, history, queue, orphans, issued, now, left>>
  BY DEF ProofFails
<1>2. UNCHANGED history /\ UNCHANGED <<opened, completed>>
  BY <1>1 DEF history
<1>3. SessionsOK'
  <2>1. proving[i] \in Requests
    BY DEF SlotsOK, Justified
  <2>2. Idle \in SessionStates /\ Idle.step = "idle"
    BY DEF Idle, SessionStates
  <2>3. QED BY <1>2, <2>1, <2>2, AnswerStep DEF ProofFails
<1>4. SlotsOK'
  <2>1. AttestedSessionsHappened' /\ queue' \in Seq(Justified)'
    BY <1>1, <1>2, HistoryGrows DEF SlotsOK, AttestedSessionsHappened
  <2>2. QED BY <1>1, <1>2, <2>1, PermitBack DEF ProofFails, SlotsOK
<1>5. CardsOK' /\ HistoryOK' /\ OpenedOK'
  BY <1>1 DEF CardsOK, HistoryOK, OpenedOK, card, history
<1>6. QED BY <1>3, <1>4, <1>5

LEMMA OrphanStep == IInv /\ OrphanEnds => IInv'
<1> SUFFICES ASSUME IInv, OrphanEnds PROVE IInv'
  OBVIOUS
<1> USE DEF IInv
<1>1. opened \subseteq opened' /\ completed \subseteq completed' /\ UNCHANGED session
  BY DEF OrphanEnds, history
<1>2. SessionsOK'
  BY <1>1, SessionFrame
<1>3. SlotsOK'
  <2>1. queue \in Seq(Justified)' /\ proving \in Seq(Justified)'
    BY <1>1, HistoryGrows DEF SlotsOK
  <2>2. AttestedSessionsHappened'
    BY <1>1, HistoryGrows DEF OrphanEnds, SlotsOK, AttestedSessionsHappened
  <2>3. orphans' \in Nat
    BY DEF OrphanEnds, SlotsOK
  <2>4. QED BY <2>1, <2>2, <2>3 DEF OrphanEnds, SlotsOK
<1>4. CardsOK' /\ HistoryOK' /\ OpenedOK'
  BY DEF OrphanEnds, CardsOK, HistoryOK, OpenedOK, card, history
<1>5. QED BY <1>2, <1>3, <1>4

\* A sequence of justified requests whose callers are forsaken stays one.
LEMMA ForsakenType ==
  ASSUME NEW k \in Readers, NEW s \in Seq(Justified)
  PROVE  LET forsaken(e) == IF Mine(k, e) THEN [e EXCEPT !.caller = Nobody] ELSE e
             t == [i \in DOMAIN s |-> forsaken(s[i])]
         IN t \in Seq(Justified) /\ Len(t) = Len(s)
<1> DEFINE forsaken(e) == IF Mine(k, e) THEN [e EXCEPT !.caller = Nobody] ELSE e
           t == [i \in DOMAIN s |-> forsaken(s[i])]
<1>1. \A e \in Justified : forsaken(e) \in Justified
  <2> SUFFICES ASSUME NEW e \in Justified PROVE [e EXCEPT !.caller = Nobody] \in Justified
    OBVIOUS
  <2> DEFINE f == [e EXCEPT !.caller = Nobody]
  <2>1. e \in Requests
    BY DEF Justified
  <2>2. /\ f \in Requests /\ f.verified = e.verified /\ f.transcript = e.transcript
        /\ f.attested_at = e.attested_at
    BY <2>1 DEF Requests
  <2>3. Claim(f) = Claim(e)
    BY <2>2 DEF Claim
  <2> HIDE DEF f
  <2>4. f \in Justified
    BY <2>2, <2>3 DEF Justified
  <2>5. QED BY <2>4 DEF f
<1> HIDE DEF forsaken
<1>2. Len(s) \in Nat /\ DOMAIN s = 1..Len(s) /\ \A i \in 1..Len(s) : s[i] \in Justified
  BY LenProperties
<1>3. t \in [1..Len(s) -> Justified]
  BY <1>1, <1>2
<1>4. t \in Seq(Justified) /\ Len(t) = Len(s)
  BY <1>2, <1>3, IsASeq, LenProperties
<1>5. QED BY <1>4 DEF forsaken

\* A client leaves at its timeout; the server drops its request or works on.
LEMMA TimeOutStep ==
  ASSUME IInv, NEW k \in Readers, TimeOut(k)
  PROVE  IInv'
<1> USE DEF IInv
<1>1. Go(k, Idle) /\ UNCHANGED <<card, call, history, issued, now, left>>
  BY DEF TimeOut
<1>2. opened \subseteq opened' /\ completed \subseteq completed'
  BY <1>1 DEF history
<1>3. SessionsOK'
  <2>1. Idle \in SessionStates /\ Idle.step = "idle"
    BY DEF Idle, SessionStates
  <2>2. QED BY <1>1, <1>2, <2>1, SessionStep DEF Answered
<1>4. CardsOK' /\ HistoryOK' /\ OpenedOK'
  BY <1>1 DEF CardsOK, HistoryOK, OpenedOK, card, history
<1>5. AttestedSessionsHappened' /\ issued' \subseteq Attestations
  BY <1>1, <1>2, HistoryGrows DEF SlotsOK, AttestedSessionsHappened
<1>6. Seq(Justified) \subseteq Seq(Justified)'
  BY <1>2, HistoryGrows
<1>7. CASE \E i \in DOMAIN queue :
             queue' = RemoveAt(queue, i) /\ UNCHANGED <<permits, proving, orphans>>
  <2>1. queue' \in Seq(Justified)
    BY <1>7, RemoveAtType DEF SlotsOK
  <2>2. QED BY <1>3, <1>4, <1>5, <1>6, <1>7, <2>1 DEF SlotsOK
<1>8. CASE \E i \in DOMAIN proving :
             /\ proving' = RemoveAt(proving, i)
             /\ permits' = permits + 1 /\ orphans' = orphans + 1 /\ UNCHANGED queue
  <2>1. /\ proving' \in Seq(Justified)' /\ permits' \in Nat
        /\ permits' + Len(proving') = MaxConcurrentProofs
    BY <1>2, <1>8, PermitBack
  <2>2. orphans' \in Nat /\ queue' \in Seq(Justified)'
    BY <1>6, <1>8 DEF SlotsOK
  <2>3. QED BY <1>3, <1>4, <1>5, <2>1, <2>2 DEF SlotsOK
<1>9. CASE UNCHANGED <<permits, queue, proving, orphans>>
  BY <1>3, <1>4, <1>5, <1>6, <1>9 DEF SlotsOK
<1>10. CASE RequestForsaken(k)
  <2>1. queue' \in Seq(Justified)
    BY <1>10, ForsakenType DEF RequestForsaken, SlotsOK
  <2>2. proving' \in Seq(Justified) /\ Len(proving') = Len(proving)
    BY <1>10, ForsakenType DEF RequestForsaken, SlotsOK
  <2>3. UNCHANGED <<permits, orphans>>
    BY <1>10 DEF RequestForsaken
  <2>4. QED BY <1>3, <1>4, <1>5, <1>6, <2>1, <2>2, <2>3 DEF SlotsOK
<1>11. QED BY <1>7, <1>8, <1>9, <1>10 DEF TimeOut, RequestDropped

-----------------------------------------------------------------------------
(* Every step, and the theorems.                                             *)

LEMMA InvStep == IInv /\ [Next]_vars => IInv'
<1> SUFFICES ASSUME IInv, [Next]_vars PROVE IInv'
  OBVIOUS
<1>1. CASE People \/ Tick
  BY <1>1, PeopleStep
<1>2. CASE Sessions
  <2>1. PICK k \in Readers :
          \/ \E r1 \in R1s : Challenge(k, r1)
          \/ \E r2 \in R2s : Authentication1(k, r2)
          \/ Settle(k) \/ Authentication2(k) \/ Attest(k)
          \/ GiveUp(k) \/ Receive(k) \/ TimeOut(k)
    BY <1>2 DEF Sessions
  <2>2. CASE \E r1 \in R1s : Challenge(k, r1)
    BY <2>2, ChallengeStep
  <2>3. CASE \E r2 \in R2s : Authentication1(k, r2)
    BY <2>3, Authentication1Step
  <2>4. CASE Settle(k)
    BY <2>4, SettleStep
  <2>5. CASE Authentication2(k)
    BY <2>5, Authentication2Step
  <2>6. CASE Attest(k)
    BY <2>6, AttestStep
  <2>7. CASE GiveUp(k) \/ Receive(k)
    BY <2>7, EndStep
  <2>8. CASE TimeOut(k)
    BY <2>8, TimeOutStep
  <2>9. QED BY <2>1, <2>2, <2>3, <2>4, <2>5, <2>6, <2>7, <2>8
<1>3. CASE Mixed
  BY <1>3, MixedStep
<1>4. CASE Proofs
  <2>1. CASE Acquire
    BY <2>1, AcquireStep
  <2>2. CASE \E i \in DOMAIN proving : ProofEnds(i)
    BY <2>2, ProofEndsStep
  <2>3. CASE \E i \in DOMAIN proving : ProofFails(i)
    BY <2>3, ProofFailsStep
  <2>4. CASE OrphanEnds
    BY <2>4, OrphanStep
  <2>5. QED BY <1>4, <2>1, <2>2, <2>3, <2>4 DEF Proofs
<1>5. CASE UNCHANGED vars
  <2>1. UNCHANGED <<card, session, call, history, slots, now, left>>
    BY <1>5 DEF vars, card, history, slots
  <2>2. /\ opened \subseteq opened' /\ completed \subseteq completed'
        /\ UNCHANGED session /\ UNCHANGED slots
    BY <2>1 DEF history
  <2>3. SessionsOK' /\ SlotsOK'
    BY <2>2, SessionFrame, SlotsFrame DEF IInv
  <2>4. CardsOK' /\ HistoryOK' /\ OpenedOK'
    BY <2>1 DEF IInv, CardsOK, HistoryOK, OpenedOK, card, history
  <2>5. QED BY <2>3, <2>4 DEF IInv
<1>6. QED BY <1>1, <1>2, <1>3, <1>4, <1>5 DEF Next

\* IInv is an invariant.
LEMMA Invariant == Spec => []IInv
<1>1. QED BY InvInit, InvStep, PTL DEF Spec

\* Type correctness; with it, that the free permits never outnumber the slots.
THEOREM TypeCorrect == Spec => []TypeOK
<1>1. QED BY Invariant, InvType, PTL

\* Every attestation of the oracle stands for a session that the card it names
\* completed before the stamp, with an R1 this card answered and that agrees with
\* the session's in its last six bytes, for any number of cards and readers and
\* whatever numbers clients ask with.
THEOREM AttestedSessionsCorrect == Spec => []AttestedSessionsHappened
<1>1. IInv => AttestedSessionsHappened
  BY DEF IInv, SlotsOK
<1>2. QED BY <1>1, Invariant, PTL

\* The prover proves what the server verified, and nothing else, for every
\* request that waits or is being proved.
THEOREM ProverAgreesCorrect == Spec => []ProverAgrees
<1>1. IInv => ProverAgrees
  <2> SUFFICES ASSUME IInv, NEW e \in InFlight PROVE ProofOf(e) = {Claim(e)}
    BY DEF ProverAgrees, Claim
  <2>1. e \in Justified
    BY DEF InFlight, IInv, SlotsOK
  <2> DEFINE t == e.transcript
  <2>2. PICK r \in Openings("l_beta", t[1], t[2]) :
          /\ \E r2 \in Openings("l_beta", t[1], t[3]) : VerifyAuth2(r2, t[4])
          /\ t[4].tid = r.tail
          /\ e.verified = [idi |-> t[4].idi, r1 |-> r]
    BY <2>1 DEF Justified, VerifySession
  <2>3. PICK r2 \in Openings("l_beta", t[1], t[3]) : VerifyAuth2(r2, t[4])
    BY <2>2
  <2>4. CircuitSatisfied(t[4].idi, r, t[1], t[2], t[3], r2, t[4])
    BY <2>2, <2>3 DEF CircuitSatisfied, Openings
  <2>5. Claim(e) = [idi |-> t[4].idi, r1 |-> r, attested_at |-> e.attested_at]
    BY <2>2 DEF Claim
  <2>6. Claim(e) \in ProofOf(e)
    BY <2>2, <2>3, <2>4, <2>5 DEF ProofOf, Prove
  <2>7. \A a \in ProofOf(e) : a = Claim(e)
    BY <2>1, ProofClaims
  <2>8. QED BY <2>6, <2>7
<1>2. QED BY <1>1, Invariant, PTL
-----------------------------------------------------------------------------
(* The calls of attest: which request an answer belongs to and how old it is,  *)
(* for any number of readers, proof slots and ticks.                           *)

\* A request in flight belongs to the call its reader waits in, or to nobody,
\* and is not older than that call.
Waits(e) ==
  e.caller # Nobody =>
    /\ In(e.caller, "waiting")
    /\ e.transcript = call[e.caller].asked
    /\ call[e.caller].since <= e.attested_at

\* No reader has two requests in one sequence, or one in each of two.
OneEach(s) ==
  \A i, j \in DOMAIN s : s[i].caller # Nobody /\ s[i].caller = s[j].caller => i = j
Apart(s, t) ==
  \A i \in DOMAIN s, j \in DOMAIN t : s[i].caller # Nobody => s[i].caller # t[j].caller

RequestsOK ==
  /\ \A i \in DOMAIN queue : Waits(queue[i])
  /\ \A i \in DOMAIN proving : Waits(proving[i])
  /\ OneEach(queue) /\ OneEach(proving) /\ Apart(queue, proving)

TimelyOK ==
  \A k \in Readers :
    Outstanding(k) => call[k].since <= now /\ now - call[k].since <= ReadTimeout

RepliesOK ==
  \A k \in Readers : In(k, "replied") =>
    \E e \in Justified :
      /\ session[k].att = Claim(e)
      /\ call[k].asked = e.transcript
      /\ call[k].since <= e.attested_at

CallsOK == RequestsOK /\ TimelyOK /\ RepliesOK

-----------------------------------------------------------------------------
(* Lemmas about sequences of requests.                                       *)

\* What RemoveAt leaves at each place.
Shift(i, j) == IF j < i THEN j ELSE j + 1

LEMMA RemoveAtElements ==
  ASSUME NEW S, NEW s \in Seq(S), NEW i \in DOMAIN s
  PROVE  \A j \in DOMAIN RemoveAt(s, i) :
           /\ j \in Nat
           /\ Shift(i, j) \in DOMAIN s \ {i}
           /\ RemoveAt(s, i)[j] = s[Shift(i, j)]
<1> DEFINE a == SubSeq(s, 1, i-1)
           b == SubSeq(s, i+1, Len(s))
<1>0. i \in 1..Len(s) /\ Len(s) \in Nat
  OBVIOUS
<1>1. a \in Seq(S) /\ Len(a) = i - 1 /\ \A j \in 1..(i-1) : a[j] = s[j]
  <2>1. \A j \in 1..(i-1) : s[j] \in S
    BY <1>0
  <2>2. QED BY <1>0, <2>1
<1>2. /\ b \in Seq(S) /\ Len(b) = Len(s) - i
      /\ \A j \in 1..(Len(s) - i) : b[j] = s[i + j]
  <2>1. \A j \in (i+1)..Len(s) : s[j] \in S
    BY <1>0
  <2>2. b \in Seq(S) /\ Len(b) = Len(s) - i
    BY <1>0, <2>1
  <2>3. ASSUME NEW j \in 1..(Len(s) - i) PROVE b[j] = s[i + j]
    <3>1. b[j] = s[(i + 1) + j - 1]
      BY <1>0, <2>1, <2>2, SMTT(60)
    <3>2. (i + 1) + j - 1 = i + j
      BY <1>0
    <3>3. QED BY <3>1, <3>2
  <2>4. QED BY <2>2, <2>3
<1>3. RemoveAt(s, i) = a \o b
  BY DEF RemoveAt
<1> HIDE DEF a, b
<1>4. /\ Len(a \o b) = Len(s) - 1 /\ DOMAIN (a \o b) = 1..(Len(s) - 1)
      /\ \A j \in 1..(Len(s) - 1) : (a \o b)[j] = IF j <= i - 1 THEN a[j] ELSE b[j - (i - 1)]
  <2>1. /\ Len(a \o b) = (i - 1) + (Len(s) - i)
        /\ \A j \in 1..((i - 1) + (Len(s) - i)) :
             (a \o b)[j] = IF j <= i - 1 THEN a[j] ELSE b[j - (i - 1)]
        /\ a \o b \in Seq(S)
    <3>1. /\ Len(a \o b) = Len(a) + Len(b)
          /\ \A j \in 1..(Len(a) + Len(b)) :
               (a \o b)[j] = IF j <= Len(a) THEN a[j] ELSE b[j - Len(a)]
          /\ a \o b \in Seq(S)
      BY <1>1, <1>2, ConcatProperties, Zenon
    <3>2. QED BY <1>1, <1>2, <3>1
  <2>2. (i - 1) + (Len(s) - i) = Len(s) - 1
    BY <1>0
  <2>3. DOMAIN (a \o b) = 1..Len(a \o b)
    BY <2>1, LenProperties
  <2>4. QED BY <2>1, <2>2, <2>3
<1>5. SUFFICES ASSUME NEW j \in 1..(Len(s) - 1)
               PROVE  Shift(i, j) \in DOMAIN s \ {i} /\ (a \o b)[j] = s[Shift(i, j)]
  BY <1>3, <1>4
<1>6. CASE j < i
  <2>1. (a \o b)[j] = a[j] /\ j \in 1..(i - 1)
    BY <1>0, <1>4, <1>6
  <2>2. QED BY <1>0, <1>1, <1>6, <2>1 DEF Shift
<1>7. CASE ~(j < i)
  <2>1. (a \o b)[j] = b[j - (i - 1)]
    BY <1>0, <1>4, <1>7
  <2>2. j - (i - 1) \in 1..(Len(s) - i)
    BY <1>0, <1>7, SMTT(20)
  <2>3. b[j - (i - 1)] = s[i + (j - (i - 1))] /\ i + (j - (i - 1)) = j + 1
    BY <1>0, <1>2, <2>2, SMTT(20)
  <2>4. QED BY <1>0, <1>7, <2>1, <2>3 DEF Shift
<1>8. QED BY <1>6, <1>7

\* Without a request of a reader's, a sequence holds no other of that reader.
LEMMA RemoveOne ==
  ASSUME NEW S, NEW s \in Seq(S), NEW i \in DOMAIN s, OneEach(s)
  PROVE  /\ OneEach(RemoveAt(s, i))
         /\ \A j \in DOMAIN RemoveAt(s, i) : \E l \in DOMAIN s :
              /\ RemoveAt(s, i)[j] = s[l]
              /\ s[i].caller # Nobody => s[l].caller # s[i].caller
<1> DEFINE t == RemoveAt(s, i)
<1>1. \A j \in DOMAIN t : j \in Nat /\ Shift(i, j) \in DOMAIN s \ {i} /\ t[j] = s[Shift(i, j)]
  BY RemoveAtElements
<1>2. i \in Nat
  OBVIOUS
<1>3. \A j, l \in Nat : Shift(i, j) = Shift(i, l) => j = l
  BY <1>2 DEF Shift
<1> HIDE DEF t
<1>4. OneEach(t)
  BY <1>1, <1>3 DEF OneEach
<1>5. \A j \in DOMAIN t : \E l \in DOMAIN s :
        t[j] = s[l] /\ (s[i].caller # Nobody => s[l].caller # s[i].caller)
  BY <1>1 DEF OneEach
<1>6. QED BY <1>4, <1>5 DEF t

\* A request of a reader that has none in a sequence may be added.
LEMMA AppendOne ==
  ASSUME NEW S, NEW s \in Seq(S), NEW e \in S, OneEach(s),
         e.caller # Nobody => \A i \in DOMAIN s : s[i].caller # e.caller
  PROVE  /\ OneEach(Append(s, e))
         /\ \A j \in DOMAIN Append(s, e) :
              Append(s, e)[j] = e \/ \E l \in DOMAIN s : Append(s, e)[j] = s[l]
<1> DEFINE t == Append(s, e)
<1>1. /\ Len(s) \in Nat /\ DOMAIN s = 1..Len(s) /\ DOMAIN t = 1..(Len(s) + 1)
      /\ \A i \in 1..Len(s) : t[i] = s[i]
      /\ t[Len(s) + 1] = e
  BY AppendProperties, LenProperties
<1> HIDE DEF t
<1>2. \A j \in DOMAIN t : (j \in DOMAIN s /\ t[j] = s[j]) \/ (j = Len(s) + 1 /\ t[j] = e)
  <2>1. \A j \in 1..(Len(s) + 1) : j \in 1..Len(s) \/ j = Len(s) + 1
    BY <1>1
  <2>2. QED BY <1>1, <2>1
<1>3. OneEach(t)
  BY <1>2 DEF OneEach
<1>4. QED BY <1>2, <1>3 DEF t

\* The tail of a sequence of requests.
LEMMA TailOne ==
  ASSUME NEW S, NEW s \in Seq(S), s # << >>, OneEach(s)
  PROVE  /\ OneEach(Tail(s))
         /\ \A j \in DOMAIN Tail(s) : \E l \in DOMAIN s :
              /\ Tail(s)[j] = s[l]
              /\ Head(s).caller # Nobody => s[l].caller # Head(s).caller
<1>1. /\ Len(s) \in Nat \ {0} /\ DOMAIN s = 1..Len(s) /\ Head(s) = s[1]
      /\ DOMAIN Tail(s) = 1..(Len(s) - 1)
      /\ \A j \in 1..(Len(s) - 1) : Tail(s)[j] = s[j + 1]
  BY HeadTailProperties, LenProperties, EmptySeq
<1>2. \A j \in DOMAIN Tail(s) :
        j \in Nat /\ j + 1 \in DOMAIN s \ {1} /\ Tail(s)[j] = s[j + 1]
  BY <1>1
<1>3. OneEach(Tail(s))
  <2> SUFFICES ASSUME NEW i \in DOMAIN Tail(s), NEW j \in DOMAIN Tail(s),
                      Tail(s)[i].caller # Nobody, Tail(s)[i].caller = Tail(s)[j].caller
               PROVE  i = j
    BY DEF OneEach
  <2>1. i + 1 = j + 1
    BY <1>2 DEF OneEach
  <2>2. QED BY <1>2, <2>1
<1>4. \A j \in DOMAIN Tail(s) :
        Head(s).caller # Nobody => s[j + 1].caller # Head(s).caller
  BY <1>1, <1>2 DEF OneEach
<1>5. QED BY <1>2, <1>3, <1>4

\* Two sequences stay apart when both only lose requests.
LEMMA ApartFrame ==
  ASSUME NEW s, NEW t, NEW q, NEW r, Apart(s, t),
         \A j \in DOMAIN q : \E l \in DOMAIN s : q[j] = s[l],
         \A j \in DOMAIN r : \E l \in DOMAIN t : r[j] = t[l]
  PROVE  Apart(q, r)
BY DEF Apart

-----------------------------------------------------------------------------
(* What a step keeps.                                                        *)

\* The parts of RequestsOK', with the requests named before the step.
LEMMA RequestsIntro ==
  ASSUME \A j \in DOMAIN queue' : \E d : d = queue'[j] /\ Waits(d)',
         \A j \in DOMAIN proving' : \E d : d = proving'[j] /\ Waits(d)',
         OneEach(queue'), OneEach(proving'), Apart(queue', proving')
  PROVE  RequestsOK'
BY DEF RequestsOK, Waits, In, OneEach, Apart

\* A reply that was justified stays justified.
LEMMA RepliesFrame ==
  ASSUME opened \subseteq opened' /\ completed \subseteq completed', RepliesOK,
         \A k \in Readers : In(k, "replied")' =>
           In(k, "replied") /\ session'[k] = session[k] /\ call'[k] = call[k]
  PROVE  RepliesOK'
<1>1. Justified \subseteq Justified'
  BY HistoryGrows DEF Justified
<1> SUFFICES ASSUME NEW k \in Readers, In(k, "replied")'
             PROVE  \E e \in Justified' :
                      /\ session'[k].att = Claim(e)'
                      /\ call'[k].asked = e.transcript
                      /\ call'[k].since <= e.attested_at
  BY DEF RepliesOK
<1>2. PICK e \in Justified :
        /\ session[k].att = Claim(e)
        /\ call[k].asked = e.transcript
        /\ call[k].since <= e.attested_at
  BY DEF RepliesOK
<1>3. Claim(e)' = Claim(e)
  BY DEF Claim
<1>4. QED BY <1>1, <1>2, <1>3

\* Callers are readers, or nobody.
LEMMA CallersOK ==
  ASSUME SlotsOK
  PROVE  /\ \A i \in DOMAIN queue : queue[i].caller \in Readers \cup {Nobody}
         /\ \A i \in DOMAIN proving : proving[i].caller \in Readers \cup {Nobody}
<1>1. Justified \subseteq Requests
  BY DEF Justified
<1>2. \A e \in Justified : e.caller \in Readers \cup {Nobody}
  BY <1>1 DEF Requests
<1>3. QED BY <1>2 DEF SlotsOK

\* A reader that is not waiting moves on to a step that is no call, and the
\* requests stay where they are.
LEMMA QuietStep ==
  ASSUME CallsOK, SessionsOK, SlotsOK, opened \subseteq opened' /\ completed \subseteq completed',
         UNCHANGED <<queue, proving, call, now>>,
         NEW k \in Readers, NEW s, Go(k, s), s.step \notin {"waiting", "replied"},
         ~In(k, "waiting")
  PROVE  CallsOK'
<1>1. \A j \in Readers : session'[j] = IF j = k THEN s ELSE session[j]
  BY DEF SessionsOK, Go
<1>2. \A e : e.caller \in Readers \cup {Nobody} /\ Waits(e) => Waits(e)'
  BY <1>1 DEF Waits, In
<1>3. TimelyOK'
  BY <1>1 DEF CallsOK, TimelyOK, Outstanding
<1>4. RepliesOK'
  BY <1>1, RepliesFrame DEF CallsOK, In
<1>5. RequestsOK'
  BY <1>2, CallersOK DEF CallsOK, RequestsOK, OneEach, Apart
<1>6. QED BY <1>3, <1>4, <1>5 DEF CallsOK

\* Steps that touch neither sessions nor requests.
LEMMA CallsFrame ==
  ASSUME CallsOK, opened \subseteq opened' /\ completed \subseteq completed',
         UNCHANGED <<queue, proving, call, session, now>>
  PROVE  CallsOK'
<1>1. RepliesOK'
  BY RepliesFrame DEF CallsOK, In
<1>2. QED BY <1>1 DEF CallsOK, RequestsOK, TimelyOK, Outstanding, Waits, In, OneEach, Apart

\* The clock does not pass the timeout of a waiting client.
LEMMA TickCalls ==
  ASSUME IInv, CallsOK, Tick
  PROVE  CallsOK'
<1>1. /\ opened \subseteq opened' /\ completed \subseteq completed'
      /\ UNCHANGED <<queue, proving, call, session>>
  BY DEF Tick, history, slots
<1>2. RepliesOK'
  BY <1>1, RepliesFrame DEF CallsOK, In
<1>3. TimelyOK'
  <2>1. \A k \in Readers : call[k].since \in Nat
    BY DEF IInv, CardsOK, NoCall
  <2>2. now \in Nat /\ now' = now + 1 /\ ReadTimeout \in Nat
    BY ServerAssumption DEF Tick, IInv, HistoryOK
  <2>3. \A k \in Readers : Outstanding(k)' <=> Outstanding(k)
    BY <1>1 DEF Outstanding
  <2> SUFFICES ASSUME NEW k \in Readers, Outstanding(k)
               PROVE  call[k].since <= now' /\ now' - call[k].since <= ReadTimeout
    BY <1>1, <2>3 DEF TimelyOK
  <2>4. call[k].since <= now /\ now - call[k].since < ReadTimeout
    BY DEF Tick, CallsOK, TimelyOK
  <2>5. QED BY <2>1, <2>2, <2>4
<1>4. RequestsOK'
  BY <1>1 DEF CallsOK, RequestsOK, Waits, In, OneEach, Apart
<1>5. QED BY <1>2, <1>3, <1>4 DEF CallsOK

\* A new call has one request, for its transcript, stamped no earlier.
LEMMA SubmitCalls ==
  ASSUME IInv, CallsOK, NEW k \in Readers, ~Outstanding(k),
         NEW idm, NEW c1b, NEW c2a, NEW auth2, Submit(k, idm, c1b, c2a, auth2),
         IInv'
  PROVE  CallsOK'
<1> DEFINE t == <<idm, c1b, c2a, auth2>>
<1>1. PICK v : queue' = Append(queue, [caller |-> k, verified |-> v, transcript |-> t,
                                       attested_at |-> now])
  BY DEF Submit
<1> DEFINE e == [caller |-> k, verified |-> v, transcript |-> t, attested_at |-> now]
<1>2. /\ UNCHANGED <<proving, now>> /\ opened \subseteq opened' /\ completed \subseteq completed'
      /\ call' = [call EXCEPT ![k] = [asked |-> t, since |-> now]]
      /\ session' = [session EXCEPT ![k] = [step |-> "waiting"]]
  BY DEF Submit, Go, history
<1>3. \A j \in Readers :
        /\ call'[j] = IF j = k THEN [asked |-> t, since |-> now] ELSE call[j]
        /\ session'[j] = IF j = k THEN [step |-> "waiting"] ELSE session[j]
  BY <1>2 DEF IInv, CardsOK, SessionsOK
<1>4. now \in Nat /\ ReadTimeout \in Nat
  BY ServerAssumption DEF IInv, HistoryOK
<1>5. k # Nobody
  BY ServerAssumption
<1>6. /\ \A i \in DOMAIN queue : queue[i].caller # k
      /\ \A i \in DOMAIN proving : proving[i].caller # k
  BY <1>5 DEF CallsOK, RequestsOK, Waits, In, Outstanding
<1>7. /\ \A d : (\E i \in DOMAIN queue : d = queue[i]) => Waits(d)'
      /\ \A d : (\E i \in DOMAIN proving : d = proving[i]) => Waits(d)'
  <2>1. \A d : d.caller \in (Readers \cup {Nobody}) \ {k} /\ Waits(d) => Waits(d)'
    BY <1>3 DEF Waits, In
  <2>2. \A i \in DOMAIN queue :
          queue[i].caller \in (Readers \cup {Nobody}) \ {k} /\ Waits(queue[i])
    BY <1>6, CallersOK DEF IInv, CallsOK, RequestsOK
  <2>3. \A i \in DOMAIN proving :
          proving[i].caller \in (Readers \cup {Nobody}) \ {k} /\ Waits(proving[i])
    BY <1>6, CallersOK DEF IInv, CallsOK, RequestsOK
  <2>4. QED BY <2>1, <2>2, <2>3
<1>8. \A d : d = e => Waits(d)'
  BY <1>3, <1>4 DEF Waits, In
<1>9. /\ OneEach(queue')
      /\ \A j \in DOMAIN queue' : queue'[j] = e \/ \E l \in DOMAIN queue : queue'[j] = queue[l]
  <2>1. queue \in Seq(Justified \cup {e})
    BY SeqMonotonic DEF IInv, SlotsOK
  <2>2. QED BY <1>1, <1>6, <2>1, AppendOne DEF CallsOK, RequestsOK
<1>10. RequestsOK'
  <2>1. \A j \in DOMAIN queue' : \E d : d = queue'[j] /\ Waits(d)'
    BY <1>7, <1>8, <1>9
  <2>2. \A j \in DOMAIN proving' : \E d : d = proving'[j] /\ Waits(d)'
    BY <1>2, <1>7
  <2>3. Apart(queue', proving')
    BY <1>2, <1>6, <1>9 DEF Apart, CallsOK, RequestsOK
  <2>4. OneEach(proving')
    BY <1>2 DEF OneEach, CallsOK, RequestsOK
  <2>5. QED BY <1>9, <2>1, <2>2, <2>3, <2>4, RequestsIntro
<1>11. TimelyOK'
  BY <1>2, <1>3, <1>4 DEF CallsOK, TimelyOK, Outstanding
<1>12. RepliesOK'
  BY <1>2, <1>3, RepliesFrame DEF CallsOK, In
<1>13. QED BY <1>10, <1>11, <1>12 DEF CallsOK

\* A request that takes its permit is still its reader's only one.
LEMMA AcquireCalls ==
  ASSUME IInv, CallsOK, Acquire
  PROVE  CallsOK'
<1>1. /\ UNCHANGED <<session, call, now>>
      /\ opened \subseteq opened' /\ completed \subseteq completed'
      /\ proving' = Append(proving, Head(queue)) /\ queue' = Tail(queue)
      /\ queue # << >> /\ queue \in Seq(Justified) /\ proving \in Seq(Justified)
  BY DEF Acquire, history, IInv, SlotsOK
<1>2. Head(queue) \in Justified /\ 1 \in DOMAIN queue /\ Head(queue) = queue[1]
  BY <1>1, HeadTailProperties
<1>3. /\ OneEach(queue')
      /\ \A j \in DOMAIN queue' : \E l \in DOMAIN queue :
           /\ queue'[j] = queue[l]
           /\ Head(queue).caller # Nobody => queue[l].caller # Head(queue).caller
  BY <1>1, TailOne DEF CallsOK, RequestsOK
<1>4. Head(queue).caller # Nobody =>
        \A j \in DOMAIN proving : proving[j].caller # Head(queue).caller
  BY <1>2 DEF CallsOK, RequestsOK, Apart
<1>5. /\ OneEach(proving')
      /\ \A j \in DOMAIN proving' :
           proving'[j] = Head(queue) \/ \E l \in DOMAIN proving : proving'[j] = proving[l]
  BY <1>1, <1>2, <1>4, AppendOne DEF CallsOK, RequestsOK
<1>6. \A d : Waits(d) => Waits(d)'
  BY <1>1 DEF Waits, In
<1>7. RequestsOK'
  <2>1. \A j \in DOMAIN queue' : \E d : d = queue'[j] /\ Waits(d)'
    BY <1>3, <1>6 DEF CallsOK, RequestsOK
  <2>2. \A j \in DOMAIN proving' : \E d : d = proving'[j] /\ Waits(d)'
    BY <1>2, <1>5, <1>6 DEF CallsOK, RequestsOK
  <2>3. Apart(queue', proving')
    BY <1>3, <1>5 DEF CallsOK, RequestsOK, Apart
  <2>4. QED BY <1>3, <1>5, <2>1, <2>2, <2>3, RequestsIntro
<1>8. TimelyOK' /\ RepliesOK'
  BY <1>1, RepliesFrame DEF CallsOK, TimelyOK, Outstanding, In
<1>9. QED BY <1>7, <1>8 DEF CallsOK

\* The end of a proof answers the call its request belongs to, and no other.
LEMMA AnswerCalls ==
  ASSUME IInv, CallsOK, NEW i \in DOMAIN proving, proving' = RemoveAt(proving, i),
         UNCHANGED <<queue, call, now>>, opened \subseteq opened' /\ completed \subseteq completed',
         NEW s, Answer(proving[i], s), s.step # "waiting",
         s.step = "replied" => s.att = Claim(proving[i])
  PROVE  CallsOK'
<1> DEFINE e == proving[i]
           k == e.caller
<1>1. e \in Justified /\ k \in Readers \cup {Nobody} /\ Waits(e)
  BY CallersOK DEF IInv, SlotsOK, CallsOK, RequestsOK
<1>2. \A j \in Readers : session'[j] = IF j = k THEN s ELSE session[j]
  BY <1>1, ServerAssumption DEF Answer, IInv, SessionsOK
<1>3. /\ OneEach(proving')
      /\ \A j \in DOMAIN proving' : \E l \in DOMAIN proving :
           proving'[j] = proving[l] /\ (k # Nobody => proving[l].caller # k)
  BY RemoveOne DEF IInv, SlotsOK, CallsOK, RequestsOK
<1>4. k # Nobody => \A j \in DOMAIN queue : queue[j].caller # k
  BY DEF CallsOK, RequestsOK, Apart
<1>5. \A d : d.caller \in Readers \cup {Nobody} /\ (k # Nobody => d.caller # k) /\ Waits(d)
        => Waits(d)'
  BY <1>2 DEF Waits, In
<1>6. RequestsOK'
  <2>1. \A j \in DOMAIN queue' : \E d : d = queue'[j] /\ Waits(d)'
    BY <1>4, <1>5, CallersOK DEF IInv, CallsOK, RequestsOK
  <2>2. \A j \in DOMAIN proving' : \E d : d = proving'[j] /\ Waits(d)'
    BY <1>3, <1>5, CallersOK DEF IInv, CallsOK, RequestsOK
  <2>3. Apart(queue', proving')
    BY <1>3 DEF CallsOK, RequestsOK, Apart
  <2>4. OneEach(queue')
    BY DEF CallsOK, RequestsOK
  <2>5. QED BY <1>3, <2>1, <2>2, <2>3, <2>4, RequestsIntro
<1>7. TimelyOK'
  <2>1. \A j \in Readers : Outstanding(j)' => Outstanding(j)
    BY <1>1, <1>2, ServerAssumption DEF Outstanding, Waits, In
  <2>2. QED BY <2>1 DEF CallsOK, TimelyOK
<1>8. RepliesOK'
  <2>1. Justified \subseteq Justified' /\ \A d : Claim(d)' = Claim(d)
    BY HistoryGrows DEF Justified, Claim
  <2> SUFFICES ASSUME NEW j \in Readers, session'[j].step = "replied"
               PROVE  \E d \in Justified' :
                        /\ session'[j].att = Claim(d)
                        /\ call'[j].asked = d.transcript
                        /\ call'[j].since <= d.attested_at
    BY <2>1 DEF RepliesOK, In
  <2>2. CASE j = k
    BY <1>1, <1>2, <2>1, <2>2, ServerAssumption DEF Waits
  <2>3. CASE j # k
    BY <1>2, <2>1, <2>3 DEF CallsOK, RepliesOK, In
  <2>4. QED BY <2>2, <2>3
<1>9. QED BY <1>6, <1>7, <1>8 DEF CallsOK

\* A client leaves and its requests with it, or they work on for nobody.
LEMMA LeaveCalls ==
  ASSUME IInv, CallsOK, NEW k \in Readers, Go(k, Idle), UNCHANGED <<call, now>>,
         opened \subseteq opened' /\ completed \subseteq completed',
         OneEach(queue'), OneEach(proving'),
         \A j \in DOMAIN queue' : queue'[j].caller = Nobody \/
           \E l \in DOMAIN queue : queue'[j] = queue[l] /\ queue[l].caller # k,
         \A j \in DOMAIN proving' : proving'[j].caller = Nobody \/
           \E l \in DOMAIN proving : proving'[j] = proving[l] /\ proving[l].caller # k
  PROVE  CallsOK'
<1>1. \A j \in Readers : session'[j] = IF j = k THEN Idle ELSE session[j]
  BY DEF Go, IInv, SessionsOK
<1>2. /\ \A d : d.caller = Nobody => Waits(d)'
      /\ \A d : d.caller \in (Readers \cup {Nobody}) \ {k} /\ Waits(d) => Waits(d)'
  BY <1>1 DEF Waits, In
<1>3. RequestsOK'
  <2>1. \A j \in DOMAIN queue' : \E d : d = queue'[j] /\ Waits(d)'
    BY <1>2, CallersOK DEF IInv, CallsOK, RequestsOK
  <2>2. \A j \in DOMAIN proving' : \E d : d = proving'[j] /\ Waits(d)'
    BY <1>2, CallersOK DEF IInv, CallsOK, RequestsOK
  <2>3. Apart(queue', proving')
    BY DEF CallsOK, RequestsOK, Apart
  <2>4. QED BY <2>1, <2>2, <2>3, RequestsIntro
<1>4. TimelyOK'
  BY <1>1 DEF CallsOK, TimelyOK, Outstanding, Idle
<1>5. RepliesOK'
  BY <1>1, RepliesFrame DEF CallsOK, In, Idle
<1>6. QED BY <1>3, <1>4, <1>5 DEF CallsOK

LEMMA TimeOutCalls ==
  ASSUME IInv, CallsOK, NEW k \in Readers, TimeOut(k)
  PROVE  CallsOK'
<1>1. /\ Go(k, Idle) /\ UNCHANGED <<call, now>>
      /\ opened \subseteq opened' /\ completed \subseteq completed'
  BY DEF TimeOut, history
<1>2. OneEach(queue) /\ OneEach(proving) /\ Apart(queue, proving) /\ k # Nobody
  BY ServerAssumption DEF CallsOK, RequestsOK
<1>3. queue \in Seq(Justified) /\ proving \in Seq(Justified)
  BY DEF IInv, SlotsOK
<1>4. CASE \E i \in DOMAIN queue :
             Mine(k, queue[i]) /\ queue' = RemoveAt(queue, i) /\ UNCHANGED proving
  <2>1. PICK i \in DOMAIN queue :
          queue[i].caller = k /\ queue' = RemoveAt(queue, i) /\ UNCHANGED proving
    BY <1>4 DEF Mine
  <2>2. /\ OneEach(queue')
        /\ \A j \in DOMAIN queue' : \E l \in DOMAIN queue :
             queue'[j] = queue[l] /\ queue[l].caller # k
    BY <1>2, <1>3, <2>1, RemoveOne
  <2>3. \A j \in DOMAIN proving : proving[j].caller # k
    BY <1>2, <2>1 DEF Apart
  <2>4. OneEach(proving')
    BY <1>2, <2>1
  <2>5. QED BY <1>1, <2>1, <2>2, <2>3, <2>4, LeaveCalls
<1>5. CASE \E i \in DOMAIN proving :
             Mine(k, proving[i]) /\ proving' = RemoveAt(proving, i) /\ UNCHANGED queue
  <2>1. PICK i \in DOMAIN proving :
          proving[i].caller = k /\ proving' = RemoveAt(proving, i) /\ UNCHANGED queue
    BY <1>5 DEF Mine
  <2>2. /\ OneEach(proving')
        /\ \A j \in DOMAIN proving' : \E l \in DOMAIN proving :
             proving'[j] = proving[l] /\ proving[l].caller # k
    BY <1>2, <1>3, <2>1, RemoveOne
  <2>3. \A j \in DOMAIN queue : queue[j].caller # k
    BY <1>2, <2>1 DEF Apart
  <2>4. OneEach(queue')
    BY <1>2, <2>1
  <2>5. QED BY <1>1, <2>1, <2>2, <2>3, <2>4, LeaveCalls
<1>6. CASE In(k, "replied") /\ UNCHANGED <<queue, proving>>
  BY <1>1, <1>6, QuietStep DEF IInv, In, Idle
<1>7. CASE RequestForsaken(k)
  <2> DEFINE forsaken(e) == IF Mine(k, e) THEN [e EXCEPT !.caller = Nobody] ELSE e
  <2>1. \A e \in Requests :
          IF e.caller = k THEN forsaken(e).caller = Nobody ELSE forsaken(e) = e
    BY DEF Mine, Requests
  <2>2. /\ \A j \in DOMAIN queue : queue[j] \in Requests
        /\ \A j \in DOMAIN proving : proving[j] \in Requests
    BY <1>3 DEF Justified
  <2>3. /\ queue' = [j \in DOMAIN queue |-> forsaken(queue[j])]
        /\ proving' = [j \in DOMAIN proving |-> forsaken(proving[j])]
    BY <1>7 DEF RequestForsaken
  <2> HIDE DEF forsaken
  <2>4. /\ \A j \in DOMAIN queue' : j \in DOMAIN queue /\
             (queue'[j].caller = Nobody \/ (queue'[j] = queue[j] /\ queue[j].caller # k))
        /\ \A j \in DOMAIN proving' : j \in DOMAIN proving /\
             (proving'[j].caller = Nobody \/ (proving'[j] = proving[j] /\ proving[j].caller # k))
    BY <2>1, <2>2, <2>3
  <2>5. OneEach(queue') /\ OneEach(proving')
    BY <1>2, <2>4 DEF OneEach
  <2>6. QED BY <1>1, <2>4, <2>5, LeaveCalls
<1>8. QED BY <1>4, <1>5, <1>6, <1>7 DEF TimeOut, RequestDropped

-----------------------------------------------------------------------------
(* Every step, and the theorems.                                             *)

LEMMA CallsInit == Init => CallsOK
<1> SUFFICES ASSUME Init PROVE CallsOK
  OBVIOUS
<1>1. DOMAIN queue = {} /\ DOMAIN proving = {}
  BY DEF Init
<1>2. RequestsOK
  BY <1>1 DEF RequestsOK, OneEach, Apart
<1>3. TimelyOK /\ RepliesOK
  BY DEF Init, TimelyOK, RepliesOK, Outstanding, In, Idle
<1>4. QED BY <1>2, <1>3 DEF CallsOK

\* A reader's step of its session outside a call of attest, and its receipt.
LEMMA SessionCalls ==
  ASSUME IInv, CallsOK, NEW k \in Readers,
         \/ \E r1 \in R1s : Challenge(k, r1)
         \/ \E r2 \in R2s : Authentication1(k, r2)
         \/ Settle(k) \/ Authentication2(k) \/ GiveUp(k) \/ Receive(k)
  PROVE  CallsOK'
<1>1. /\ UNCHANGED <<queue, proving, call, now>>
      /\ opened \subseteq opened' /\ completed \subseteq completed'
      /\ ~In(k, "waiting")
      /\ \E s : Go(k, s) /\ s.step \notin {"waiting", "replied"}
  <2>1. CASE \E r1 \in R1s : Challenge(k, r1)
    BY <2>1 DEF Challenge, In, slots, history
  <2>2. CASE \E r2 \in R2s : Authentication1(k, r2)
    BY <2>2 DEF Authentication1, In, slots
  <2>3. CASE Settle(k)
    BY <2>3 DEF Settle, In, slots, history
  <2>4. CASE Authentication2(k)
    BY <2>4 DEF Authentication2, In, slots
  <2>5. CASE GiveUp(k) \/ Receive(k)
    BY <2>5 DEF GiveUp, Receive, In, Idle, slots, history
  <2>6. QED BY <2>1, <2>2, <2>3, <2>4, <2>5
<1>2. QED BY <1>1, QuietStep DEF IInv

LEMMA CallsStep == IInv /\ CallsOK /\ [Next]_vars => CallsOK'
<1> SUFFICES ASSUME IInv, CallsOK, [Next]_vars PROVE CallsOK'
  OBVIOUS
<1>0. IInv'
  BY InvStep
<1>1. CASE People \/ UNCHANGED vars \/ OrphanEnds
  <2>1. /\ UNCHANGED <<queue, proving, call, session, now>>
        /\ opened \subseteq opened' /\ completed \subseteq completed'
    BY <1>1 DEF People, Place, Lift, OrphanEnds, vars, slots, history
  <2>2. QED BY <2>1, CallsFrame
<1>2. CASE Tick
  BY <1>2, TickCalls
<1>3. CASE Sessions
  <2>1. PICK k \in Readers :
          \/ \E r1 \in R1s : Challenge(k, r1)
          \/ \E r2 \in R2s : Authentication1(k, r2)
          \/ Settle(k) \/ Authentication2(k) \/ Attest(k)
          \/ GiveUp(k) \/ Receive(k) \/ TimeOut(k)
    BY <1>3 DEF Sessions
  <2>2. CASE Attest(k)
    <3>1. ~Outstanding(k)
      BY <2>2 DEF Attest, In, Outstanding
    <3>2. Submit(k, session[k].idm, session[k].c1b, session[k].c2a, session[k].auth2)
      BY <2>2 DEF Attest
    <3>3. QED BY <1>0, <3>1, <3>2, SubmitCalls
  <2>3. CASE TimeOut(k)
    BY <2>3, TimeOutCalls
  <2>4. QED BY <2>1, <2>2, <2>3, SessionCalls
<1>4. CASE Mixed
  <2>1. PICK k \in Readers, idm \in Cards, c1b \in Answers, c2a \in Answers,
             auth2 \in Answers2 : AttestMixed(k, idm, c1b, c2a, auth2)
    BY <1>4 DEF Mixed
  <2>2. ~Outstanding(k) /\ Submit(k, idm, c1b, c2a, auth2)
    BY <2>1 DEF AttestMixed, In, Outstanding
  <2>3. QED BY <1>0, <2>2, SubmitCalls
<1>5. CASE Acquire
  BY <1>5, AcquireCalls
<1>6. CASE \E i \in DOMAIN proving : ProofEnds(i)
  <2>1. PICK i \in DOMAIN proving : ProofEnds(i)
    BY <1>6
  <2>2. PICK a \in ProofOf(proving[i]) : Answer(proving[i], [step |-> "replied", att |-> a])
    BY <2>1 DEF ProofEnds
  <2>3. a = Claim(proving[i])
    BY <2>2, ProofClaims DEF IInv, SlotsOK
  <2>4. /\ proving' = RemoveAt(proving, i) /\ UNCHANGED <<queue, call, now>>
        /\ opened \subseteq opened' /\ completed \subseteq completed'
    BY <2>1 DEF ProofEnds, history
  <2>5. QED BY <2>2, <2>3, <2>4, AnswerCalls
<1>7. CASE \E i \in DOMAIN proving : ProofFails(i)
  <2>1. PICK i \in DOMAIN proving : ProofFails(i)
    BY <1>7
  <2>2. /\ Answer(proving[i], Idle) /\ proving' = RemoveAt(proving, i)
        /\ UNCHANGED <<queue, call, now>>
        /\ opened \subseteq opened' /\ completed \subseteq completed'
    BY <2>1 DEF ProofFails, history
  <2>3. Idle.step = "idle"
    BY DEF Idle
  <2>4. QED BY <2>2, <2>3, AnswerCalls
<1>8. QED BY <1>1, <1>2, <1>3, <1>4, <1>5, <1>6, <1>7 DEF Next, Proofs

LEMMA CallsInvariant == Spec => [](IInv /\ CallsOK)
<1>1. QED BY InvInit, InvStep, CallsInit, CallsStep, PTL DEF Spec

\* A reader's answer is for the transcript it sent last, however many earlier
\* calls it gave up and wherever their requests are.
THEOREM AnswersMatchCallsCorrect == Spec => []AnswersMatchCalls
<1>1. CallsOK => AnswersMatchCalls
  <2> SUFFICES ASSUME CallsOK, NEW k \in Readers, In(k, "replied")
               PROVE  LET t == call[k].asked
                      IN [idi |-> session[k].att.idi, r1 |-> session[k].att.r1]
                           \in VerifySession(t[1], t[2], t[3], t[4])
    BY DEF AnswersMatchCalls
  <2>1. PICK e \in Justified : session[k].att = Claim(e) /\ call[k].asked = e.transcript
    BY DEF CallsOK, RepliesOK
  <2>2. /\ e.verified \in VerifySession(e.transcript[1], e.transcript[2],
                                        e.transcript[3], e.transcript[4])
        /\ e.verified \in Verified
    BY DEF Justified, Requests
  <2>3. e.verified = [idi |-> session[k].att.idi, r1 |-> session[k].att.r1]
    BY <2>1, <2>2 DEF Claim, Verified
  <2>4. QED BY <2>1, <2>2, <2>3
<1>2. QED BY <1>1, CallsInvariant, PTL

\* An attestation is at most a read timeout old when its reader gets it, for
\* every length of the queue and every number of slots.
THEOREM FreshOnReceiptCorrect == Spec => FreshOnReceipt
<1> DEFINE Fresh == \A k \in Readers :
                      Receive(k) => now - session[k].att.attested_at <= ReadTimeout
<1>1. IInv /\ CallsOK => Fresh
  <2> SUFFICES ASSUME IInv, CallsOK, NEW k \in Readers, In(k, "replied")
               PROVE  now - session[k].att.attested_at <= ReadTimeout
    BY DEF Receive
  <2>1. PICK e \in Justified : session[k].att = Claim(e) /\ call[k].since <= e.attested_at
    BY DEF CallsOK, RepliesOK
  <2>2. session[k].att.attested_at = e.attested_at
    BY <2>1 DEF Claim
  <2>3. now - call[k].since <= ReadTimeout
    BY DEF CallsOK, TimelyOK, Outstanding, In
  <2>4. call[k].since \in Nat /\ now \in Nat /\ e.attested_at \in Nat /\ ReadTimeout \in Nat
    BY ServerAssumption DEF IInv, CardsOK, HistoryOK, NoCall, Justified, Requests
  <2>5. QED BY <2>1, <2>2, <2>3, <2>4
<1>2. IInv /\ CallsOK /\ [Next]_vars => [Fresh]_vars
  BY <1>1
<1>3. [](IInv /\ CallsOK) /\ [][Next]_vars => [][Fresh]_vars
  BY <1>2, PTL
<1>4. QED BY <1>3, CallsInvariant, PTL DEF Spec, FreshOnReceipt
=============================================================================
