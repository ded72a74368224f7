-------------------------- MODULE PaymentSafetyProofs --------------------------
(* The shape of PaymentTerminal's state and the safety of payments, for any    *)
(* cards, operators and bounds. The type alone is not inductive: that an       *)
(* attestation names a card needs that the card loop holds one whenever it     *)
(* works on a session.                                                         *)
EXTENDS PaymentTerminal, SequenceTheorems, FiniteSetTheorems, TLAPS

\* The card loop works on a card, and holds its attestation until it publishes.
LoopHolds ==
  /\ loop.pc \in {"authenticate", "attest", "balance", "publish", "announce"} =>
       loop.card \in Idis
  /\ loop.pc \in {"balance", "publish"} => loop.att \in Attestations

\* The parts of TypeOK, by who keeps them.
ReaderType == reader \in Idis \cup {None} /\ last_idm \in Idis \cup {None}
LoopType ==
  loop \in [pc : LoopSteps, card : Idis \cup {None}, att : Attestations \cup {None},
            registered : BOOLEAN]
SharedType ==
  shared \in [pay_mode : Modes, current_idi : Idis \cup {None},
              current_att : Attestations \cup {None}, last_card : Cards \cup {None},
              last_payment : Results \cup {None}]
LinkType == connected \in BOOLEAN /\ toTerm \in Seq(Messages) /\ fromTerm \in Seq(Idis)
ThreadType ==
  /\ ops \in [Operators -> [pc : {"idle", "send"}, mode : Modes, crossed : BOOLEAN]]
  /\ jobs \in Seq(Jobs)
ChainType ==
  /\ issued \in Seq(Idis) /\ Len(issued) <= MaxMoves
  /\ burned \in [MaxR1 -> Seq(Transfers)]
  /\ balance \in [Idis -> Nat]
UsedType ==
  used \in [moves : 0..MaxMoves, ops : 0..MaxOps, connects : 0..MaxConnects,
            drops : 0..MaxDrops]

DaemonType == ReaderType /\ LoopType /\ SharedType /\ ThreadType /\ ChainType /\ UsedType
TypeInv == TerminalTypeOK /\ DaemonType /\ LinkType /\ LoopHolds

LEMMA TypeParts == TypeInv => TypeOK
BY DEF TypeInv, DaemonType, TypeOK, ReaderType, LoopType, SharedType, LinkType, ThreadType,
   ChainType, UsedType

-----------------------------------------------------------------------------
(* Messages and sequences.                                                    *)

LEMMA MessagesType ==
  /\ Detecting \in Messages /\ CardRemoved \in Messages
  /\ \A mode \in Modes : ModeMsg(mode) \in Messages
  /\ \A card \in Cards : CardMsg(card) \in Messages
  /\ \A result \in Results : ResultMsg(result) \in Messages
BY DEF Messages, Detecting, CardRemoved, ModeMsg, CardMsg, ResultMsg

\* What a message carries, by its type.
LEMMA MessageParts ==
  ASSUME NEW m \in Messages
  PROVE  /\ m.type \in {"detecting", "cardRemoved", "mode", "card", "paymentResult"}
         /\ m.type = "mode" => m.payment \in Modes
         /\ m.type = "card" => m.card \in Cards
         /\ m.type = "paymentResult" => m.result \in Results
BY DEF Messages

LEMMA HeadTail ==
  ASSUME NEW S, NEW s \in Seq(S), s # << >>
  PROVE  Head(s) \in S /\ Tail(s) \in Seq(S)
OBVIOUS

LEMMA SendType ==
  ASSUME LinkType, NEW m \in Messages, Send(m)
  PROVE  LinkType'
BY DEF LinkType, Send

LEMMA SnapshotType == SharedType => Snapshot \in Seq(Messages)
<1> SUFFICES ASSUME SharedType PROVE Snapshot \in Seq(Messages)
  OBVIOUS
<1>1. << ModeMsg(shared.pay_mode) >> \in Seq(Messages)
  BY MessagesType DEF SharedType
<1>2. (IF shared.last_card = None THEN << >> ELSE << CardMsg(shared.last_card) >>)
        \in Seq(Messages)
  BY MessagesType DEF SharedType
<1>3. (IF shared.last_payment = None THEN << >> ELSE << ResultMsg(shared.last_payment) >>)
        \in Seq(Messages)
  BY MessagesType DEF SharedType
<1>4. QED BY <1>1, <1>2, <1>3, ConcatProperties DEF Snapshot

-----------------------------------------------------------------------------
(* The page.                                                                  *)

UiType ==
  [screen : Screens, card : Cards \cup {None}, payMode : Modes, lcd : Results \cup {None},
   enrolledIdi : Idis \cup {None}, busy : BOOLEAN, late : BOOLEAN, dismissed : BOOLEAN]
CaptureType ==
  [screen : CaptureScreens, card : Cards, payMode : Modes, mine : BOOLEAN, swapped : BOOLEAN]

LEMMA ShowType ==
  ASSUME NEW u \in UiType, NEW s \in Screens
  PROVE  Show(u, s) \in UiType
BY DEF Show, UiType

LEMMA WaitingType ==
  ASSUME NEW u \in UiType
  PROVE  GoWaiting(u) \in UiType
<1>1. Show(u, "waiting") \in UiType
  BY ShowType DEF Screens
<1>2. QED BY <1>1 DEF GoWaiting, UiType

LEMMA DismissType ==
  ASSUME NEW u \in UiType
  PROVE  Dismiss(u) \in UiType
BY WaitingType DEF Dismiss, UiType

LEMMA EventType ==
  ASSUME NEW u \in UiType, NEW m \in Messages
  PROVE  OnEvent(u, m) \in UiType
<1>1. CASE m.type = "detecting"
  <2>1. Show(u, "detecting") \in UiType
    BY ShowType DEF Screens
  <2>2. QED BY <1>1, <2>1 DEF OnEvent
<1>2. CASE m.type = "mode"
  <2>1. OnEvent(u, m) = [u EXCEPT !.payMode = m.payment]
    BY <1>2 DEF OnEvent
  <2>2. QED BY <1>2, <2>1, MessageParts DEF UiType
<1>3. CASE m.type = "card"
  <2>1. Show(u, CardScreen(u, m.card)) \in UiType
    BY ShowType DEF Screens, CardScreen
  <2>2. OnEvent(u, m) =
          [Show(u, CardScreen(u, m.card)) EXCEPT !.card = m.card, !.dismissed = FALSE]
    BY <1>3 DEF OnEvent
  <2>3. QED BY <1>3, <2>1, <2>2, MessageParts DEF UiType
<1>4. CASE m.type = "cardRemoved"
  <2>1. OnEvent(u, m) = [GoWaiting(u) EXCEPT !.dismissed = FALSE]
    BY <1>4 DEF OnEvent
  <2>2. QED BY <2>1, WaitingType DEF UiType
<1>5. CASE m.type = "paymentResult"
  <2>1. Show(u, "lcd") \in UiType
    BY ShowType DEF Screens
  <2>2. OnEvent(u, m) = [Show(u, "lcd") EXCEPT !.lcd = m.result]
    BY <1>5 DEF OnEvent
  <2>3. QED BY <1>5, <2>1, <2>2, MessageParts DEF UiType
<1>6. QED BY <1>1, <1>2, <1>3, <1>4, <1>5, MessageParts

LEMMA DetachedType ==
  ASSUME captures \in Seq(CaptureType), NEW u, NEW other \in BOOLEAN
  PROVE  /\ Detached(u, other) \in Seq(CaptureType)
         /\ Len(Detached(u, other)) = Len(captures)
<1>1. DOMAIN captures = 1..Len(captures) /\ Len(captures) \in Nat
  OBVIOUS
<1>2. ASSUME NEW i \in 1..Len(captures)
      PROVE [captures[i] EXCEPT !.mine = @ /\ ui.screen = u.screen, !.swapped = @ \/ other]
              \in CaptureType
  <2>1. /\ (captures[i].mine /\ ui.screen = u.screen) \in BOOLEAN
        /\ (captures[i].swapped \/ other) \in BOOLEAN
    OBVIOUS
  <2>2. captures[i] \in CaptureType
    OBVIOUS
  <2>3. QED BY <2>1, <2>2, Zenon DEF CaptureType
<1> DEFINE at(i) == [captures[i] EXCEPT !.mine = @ /\ ui.screen = u.screen,
                                       !.swapped = @ \/ other]
<1>3. Detached(u, other) = [i \in 1..Len(captures) |-> at(i)]
  BY <1>1 DEF Detached
<1>4. \A i \in 1..Len(captures) : at(i) \in CaptureType
  BY <1>2
<1> HIDE DEF at
<1>5. QED BY <1>1, <1>3, <1>4

LEMMA BecomeType ==
  ASSUME TerminalTypeOK, NEW u \in UiType, NEW other \in BOOLEAN, Become(u, other),
         UNCHANGED store
  PROVE  TerminalTypeOK'
BY DetachedType DEF TerminalTypeOK, Become, UiType, CaptureType

LEMMA CaptureStarts == TerminalTypeOK /\ StartCapture => TerminalTypeOK'
<1> SUFFICES ASSUME TerminalTypeOK, StartCapture PROVE TerminalTypeOK'
  OBVIOUS
<1>1. [screen |-> ui.screen, card |-> ui.card, payMode |-> ui.payMode, mine |-> TRUE,
       swapped |-> FALSE] \in CaptureType
  BY DEF TerminalTypeOK, StartCapture, CaptureType
<1>2. captures' \in Seq(CaptureType)
  BY <1>1 DEF TerminalTypeOK, StartCapture, CaptureType
<1>3. QED BY <1>2 DEF TerminalTypeOK, StartCapture, CaptureType

LEMMA CaptureFinishes ==
  ASSUME TerminalTypeOK, captures # << >>, NEW out \in EngineOutcomes(Head(captures)),
         FinishCapture(out)
  PROVE  TerminalTypeOK' /\ FaceReports(out) \in Seq(Idis)
<1> DEFINE c == Head(captures)
           v == [ui EXCEPT !.busy = @ /\ ~c.mine]
<1>1. c \in CaptureType
  BY HeadTail DEF TerminalTypeOK, CaptureType
<1>2. c.card.idi \in Idis
  BY <1>1 DEF CaptureType, Cards
<1>3. v \in UiType
  BY <1>1 DEF TerminalTypeOK, UiType, CaptureType
<1>4. FaceResult(v, c, out.ok) \in UiType
  <2>1. CASE ~out.ok
    BY <1>3, <2>1, DismissType DEF FaceResult
  <2>2. CASE out.ok
    <3> DEFINE s == IF c.payMode # None THEN "paying" ELSE "balance"
    <3>1. Show(v, s) \in UiType
      <4>1. s \in Screens
        BY DEF Screens
      <4>2. QED BY <1>3, <4>1, ShowType
    <3>2. FaceResult(v, c, out.ok) =
            [Show(v, s) EXCEPT !.enrolledIdi = IF c.screen = "enroll" THEN c.card.idi ELSE @,
                               !.late = ~c.mine \/ c.swapped]
      BY <2>2 DEF FaceResult
    <3>3. (~c.mine \/ c.swapped) \in BOOLEAN
      OBVIOUS
    <3> HIDE DEF v, s, c
    <3>4. QED BY <1>2, <3>1, <3>2, <3>3 DEF UiType
  <2>3. QED BY <2>1, <2>2
<1>5. ui' = FaceResult(v, c, out.ok) /\ captures' = Tail(Detached(FaceResult(v, c, out.ok), FALSE))
      /\ store' = out.store
  BY DEF FinishCapture
<1>6. captures' \in Seq(CaptureType)
  <2>1. Detached(FaceResult(v, c, out.ok), FALSE) \in Seq(CaptureType)
        /\ Len(Detached(FaceResult(v, c, out.ok), FALSE)) = Len(captures)
    BY DetachedType DEF TerminalTypeOK, CaptureType
  <2>2. Len(captures) > 0
    BY DEF TerminalTypeOK
  <2> DEFINE d == Detached(FaceResult(v, c, out.ok), FALSE)
  <2>3. d \in Seq(CaptureType) /\ Len(d) > 0 /\ captures' = Tail(d)
    BY <1>5, <2>1, <2>2
  <2> HIDE DEF d
  <2>4. d # << >>
    BY <2>3
  <2>5. QED BY <2>3, <2>4, HeadTail
<1>7. store' \in Idis \cup {None}
  BY <1>2, <1>5 DEF EngineOutcomes, TerminalTypeOK
<1>8. FaceReports(out) \in Seq(Idis)
  BY <1>2 DEF FaceReports
<1>9. QED BY <1>4, <1>5, <1>6, <1>7, <1>8 DEF TerminalTypeOK, UiType, CaptureType

-----------------------------------------------------------------------------
(* The card loop.                                                             *)

LEMMA CardLoopType ==
  ASSUME TypeInv, CardLoop
  PROVE  DaemonType' /\ LinkType' /\ LoopHolds'
<1> USE DEF TypeInv, DaemonType
<1> UNCHANGED <<ops, jobs, used, burned, balance>>
  BY DEF CardLoop, Detect, Authenticate, Attest, AttestFails, LookUpBalance, PublishCard,
     AnnounceCard, ForgetCard, AnnounceRemoval, chainVars
<1> ThreadType' /\ UsedType'
  BY DEF ThreadType, UsedType
<1>1. CASE Detect
  <2>1. LinkType'
    BY <1>1, SendType, MessagesType DEF Detect
  <2>2. LoopType' /\ LoopHolds'
    BY <1>1 DEF Detect, LoopType, LoopHolds, LoopSteps, ReaderType
  <2>3. QED BY <1>1, <2>1, <2>2 DEF Detect, ReaderType, SharedType, ChainType, chainVars
<1>2. CASE Authenticate
  BY <1>2 DEF Authenticate, LoopType, LoopHolds, LoopSteps, ReaderType, SharedType, ChainType,
     LinkType, linkVars, chainVars
<1>3. CASE Attest
  <2>1. loop.card \in Idis
    BY <1>3 DEF Attest, LoopHolds
  <2>2. [idi |-> loop.card, r1 |-> Len(issued) + 1] \in Attestations
    BY <1>3, <2>1, FacepayAssumption DEF Attest, Attestations, MaxR1, ChainType
  <2>3. LoopType' /\ LoopHolds'
    BY <1>3, <2>1, <2>2 DEF Attest, LoopType, LoopHolds, LoopSteps
  <2>4. ChainType'
    BY <1>3, <2>1, FacepayAssumption DEF Attest, ChainType
  <2>5. QED BY <1>3, <2>1, <2>3, <2>4 DEF Attest, ReaderType, SharedType, LinkType, linkVars
<1>4. CASE AttestFails
  BY <1>4 DEF AttestFails, LoopType, LoopHolds, LoopSteps, ReaderType, SharedType, ChainType,
     LinkType, linkVars, chainVars
<1>5. CASE LookUpBalance
  <2>1. PICK found \in {balance[loop.card], 0} :
          loop' = [loop EXCEPT !.pc = "publish", !.registered = found > 0]
    BY <1>5 DEF LookUpBalance
  <2>2. (found > 0) \in BOOLEAN
    OBVIOUS
  <2>3. LoopType' /\ LoopHolds'
    BY <1>5, <2>1, <2>2 DEF LookUpBalance, LoopType, LoopHolds, LoopSteps
  <2>4. QED BY <1>5, <2>3 DEF LookUpBalance, ReaderType, SharedType, ChainType, LinkType,
                linkVars, chainVars
<1>6. CASE PublishCard
  <2>1. FoundCard \in Cards /\ loop.card \in Idis /\ loop.att \in Attestations
    BY <1>6 DEF PublishCard, FoundCard, Cards, LoopHolds, LoopType
  <2>2. SharedType'
    BY <1>6, <2>1 DEF PublishCard, SharedType
  <2>3. LoopType' /\ LoopHolds'
    BY <1>6 DEF PublishCard, LoopType, LoopHolds, LoopSteps
  <2>4. QED BY <1>6, <2>2, <2>3 DEF PublishCard, ReaderType, ChainType, LinkType, linkVars,
                chainVars
<1>7. CASE AnnounceCard
  <2>1. FoundCard \in Cards
    BY <1>7 DEF AnnounceCard, FoundCard, Cards, LoopHolds, LoopType
  <2>2. LinkType'
    BY <1>7, <2>1, SendType, MessagesType DEF AnnounceCard
  <2>3. LoopType' /\ LoopHolds'
    BY <1>7 DEF AnnounceCard, LoopType, LoopHolds, LoopSteps
  <2>4. QED BY <1>7, <2>2, <2>3 DEF AnnounceCard, ReaderType, SharedType, ChainType, chainVars
<1>8. CASE ForgetCard
  <2>1. SharedType'
    BY <1>8 DEF ForgetCard, SharedType
  <2>2. LoopType' /\ LoopHolds'
    BY <1>8 DEF ForgetCard, LoopType, LoopHolds, LoopSteps
  <2>3. QED BY <1>8, <2>1, <2>2 DEF ForgetCard, ReaderType, ChainType, LinkType, linkVars,
                chainVars
<1>9. CASE AnnounceRemoval
  <2>1. LinkType'
    BY <1>9, SendType, MessagesType DEF AnnounceRemoval
  <2>2. LoopType' /\ LoopHolds'
    BY <1>9 DEF AnnounceRemoval, LoopType, LoopHolds, LoopSteps
  <2>3. QED BY <1>9, <2>1, <2>2 DEF AnnounceRemoval, ReaderType, SharedType, ChainType,
                chainVars
<1>10. QED
  BY <1>1, <1>2, <1>3, <1>4, <1>5, <1>6, <1>7, <1>8, <1>9 DEF CardLoop

-----------------------------------------------------------------------------
(* Operators, the connection, payments.                                       *)

LEMMA OperateType ==
  ASSUME TypeInv, Operate
  PROVE  DaemonType' /\ LinkType' /\ LoopHolds'
<1> USE DEF TypeInv, DaemonType
<1>1. ASSUME NEW o \in Operators, SendMode(o) PROVE DaemonType' /\ LinkType' /\ LoopHolds'
  <2>1. ModeMsg(ops[o].mode) \in Messages
    BY MessagesType DEF ThreadType
  <2>2. LinkType'
    BY <1>1, <2>1, SendType DEF SendMode
  <2>3. ThreadType'
    <3>1. ops' = [ops EXCEPT ![o] = [ops[o] EXCEPT !.pc = "idle", !.mode = None]]
      BY <1>1 DEF SendMode, ThreadType
    <3>2. [ops[o] EXCEPT !.pc = "idle", !.mode = None]
            \in [pc : {"idle", "send"}, mode : Modes, crossed : BOOLEAN]
      BY DEF ThreadType, Modes
    <3>3. QED BY <1>1, <3>1, <3>2 DEF SendMode, ThreadType
  <2>4. QED BY <1>1, <2>2, <2>3 DEF SendMode, ReaderType, LoopType, LoopHolds, SharedType,
                ChainType, UsedType, chainVars
<1>2. ASSUME NEW o \in Operators, NEW mode \in Modes, SetPayMode(o, mode)
      PROVE DaemonType' /\ LinkType' /\ LoopHolds'
  <2>1. SharedType'
    BY <1>2 DEF SetPayMode, SharedType
  <2>2. ThreadType'
    <3>1. ops' = Stored(o, mode) /\ UNCHANGED jobs
      BY <1>2 DEF SetPayMode
    <3>2. (\E q \in Operators \ {o} : ops[q].pc = "send") \in BOOLEAN
      OBVIOUS
    <3>3. ASSUME NEW p \in Operators
          PROVE Stored(o, mode)[p] \in [pc : {"idle", "send"}, mode : Modes, crossed : BOOLEAN]
      BY <3>2 DEF Stored, ThreadType
    <3>4. Stored(o, mode)
            \in [Operators -> [pc : {"idle", "send"}, mode : Modes, crossed : BOOLEAN]]
      BY <3>3 DEF Stored
    <3>5. QED BY <3>1, <3>4 DEF ThreadType
  <2>3. UsedType'
    BY <1>2, FacepayAssumption DEF SetPayMode, UsedType
  <2>4. QED BY <1>2, <2>1, <2>2, <2>3 DEF SetPayMode, ReaderType, LoopType, LoopHolds,
                ChainType, LinkType, linkVars, chainVars
<1>3. QED BY <1>1, <1>2 DEF Operate

LEMMA NewJobType ==
  ASSUME TypeInv, fromTerm # << >>, shared.pay_mode # None, shared.current_idi # None
  PROVE  NewJob \in Jobs
<1>1. Head(fromTerm) \in Idis
  BY DEF TypeInv, LinkType
<1>2. /\ shared.current_idi \in Idis /\ shared.pay_mode \in Amounts
      /\ shared.current_att \in Attestations \cup {None}
  BY DEF TypeInv, DaemonType, SharedType, Modes
<1>3. QED BY <1>1, <1>2 DEF NewJob, Jobs, JobSteps

LEMMA HandleType ==
  ASSUME TypeInv, HandleFaceOk
  PROVE  DaemonType' /\ LinkType' /\ LoopHolds'
<1> USE DEF TypeInv, DaemonType
<1>1. LinkType'
  BY DEF HandleFaceOk, LinkType
<1>2. ThreadType' /\ SharedType'
  <2>1. CASE shared.pay_mode # None /\ shared.current_idi # None
    <3>1. NewJob \in Jobs
      BY <2>1, NewJobType DEF HandleFaceOk
    <3>2. jobs' \in Seq(Jobs)
      BY <2>1, <3>1 DEF HandleFaceOk, ThreadType
    <3>3. QED BY <2>1, <3>2 DEF HandleFaceOk, ThreadType, SharedType
  <2>2. CASE ~(shared.pay_mode # None /\ shared.current_idi # None)
    BY <2>2 DEF HandleFaceOk, ThreadType, SharedType
  <2>3. QED BY <2>1, <2>2
<1>3. QED BY <1>1, <1>2 DEF HandleFaceOk, ReaderType, LoopType, LoopHolds, ChainType, UsedType,
              chainVars

LEMMA AdvanceType ==
  ASSUME ThreadType, NEW j \in DOMAIN jobs, NEW pc \in JobSteps, AdvanceJob(j, pc),
         UNCHANGED ops
  PROVE  ThreadType'
<1>1. jobs[j] \in Jobs
  BY DEF ThreadType
<1>2. [jobs[j] EXCEPT !.pc = pc] \in Jobs
  BY <1>1 DEF Jobs
<1>3. jobs' = [jobs EXCEPT ![j] = [jobs[j] EXCEPT !.pc = pc]]
  BY DEF ThreadType, AdvanceJob
<1>4. QED BY <1>2, <1>3 DEF ThreadType

LEMMA ResultType ==
  ASSUME ThreadType, NEW j \in DOMAIN jobs
  PROVE  JobResult(jobs[j]) \in Results
<1>1. jobs[j] \in Jobs
  BY DEF ThreadType
<1>2. jobs[j].ok \in BOOLEAN /\ jobs[j].amount \in Amounts
  BY <1>1 DEF Jobs
<1>3. (IF MerchantSet THEN jobs[j].amount ELSE 0) \in Amounts \cup {0}
  BY <1>2
<1>4. QED BY <1>2, <1>3, Zenon DEF JobResult, Results

LEMMA PaymentType ==
  ASSUME TypeInv, NEW j \in DOMAIN jobs, RunPayment(j)
  PROVE  DaemonType' /\ LinkType' /\ LoopHolds'
<1> USE DEF TypeInv, DaemonType
<1> jobs[j] \in Jobs
  BY DEF ThreadType
<1> UNCHANGED <<reader, loop, last_idm, issued, used>>
  <2>1. CASE CheckBalance(j)
    BY <2>1 DEF CheckBalance, chainVars
  <2>2. CASE PayExecutes(j)
    BY <2>2 DEF PayExecutes
  <2>3. CASE PayFails(j)
    BY <2>3 DEF PayFails, chainVars
  <2>4. CASE KeepResult(j)
    BY <2>4 DEF KeepResult, chainVars
  <2>5. CASE SendResult(j)
    BY <2>5 DEF SendResult, chainVars
  <2>6. QED BY <2>1, <2>2, <2>3, <2>4, <2>5 DEF RunPayment
<1> ReaderType' /\ LoopType' /\ LoopHolds' /\ UsedType'
  BY DEF ReaderType, LoopType, LoopHolds, UsedType
<1>1. CASE CheckBalance(j)
  <2>1. ThreadType'
    BY <1>1, AdvanceType DEF CheckBalance, JobSteps
  <2>2. QED BY <1>1, <2>1 DEF CheckBalance, SharedType, ChainType, LinkType, linkVars, chainVars
<1>2. CASE PayExecutes(j)
  <2>1. jobs[j].idi \in Idis /\ jobs[j].amount \in Amounts /\ jobs[j].amount \in Nat
    BY ProtocolAssumption DEF Jobs
  <2>2. PICK answered \in BOOLEAN :
          jobs' = [jobs EXCEPT ![j].pc = "emit", ![j].ok = answered, ![j].answered = answered]
    BY <1>2, Zenon DEF PayExecutes
  <2>3. [jobs[j] EXCEPT !.pc = "emit", !.ok = answered, !.answered = answered] \in Jobs
    BY DEF Jobs, JobSteps
  <2>4. jobs' = [jobs EXCEPT ![j] =
                   [jobs[j] EXCEPT !.pc = "emit", !.ok = answered, !.answered = answered]]
    BY <2>2 DEF ThreadType
  <2>5. ThreadType'
    <3> DEFINE paid == [jobs[j] EXCEPT !.pc = "emit", !.ok = answered, !.answered = answered]
    <3>1. paid \in Jobs /\ jobs' = [jobs EXCEPT ![j] = paid]
      BY <2>3, <2>4
    <3> HIDE DEF paid
    <3>2. jobs' \in Seq(Jobs)
      BY <3>1 DEF ThreadType
    <3>3. UNCHANGED ops
      BY <1>2 DEF PayExecutes
    <3>4. QED BY <3>2, <3>3 DEF ThreadType
  <2>6. burned' \in [MaxR1 -> Seq(Transfers)]
    <3>1. << [wallet |-> jobs[j].idi, amount |-> jobs[j].amount] >> \in Seq(Transfers)
      BY <2>1 DEF Transfers
    <3>2. QED BY <1>2, <3>1 DEF PayExecutes, ChainType
  <2>7. balance' \in [Idis -> Nat]
    BY <1>2, <2>1 DEF PayExecutes, ChainType
  <2>8. QED BY <1>2, <2>5, <2>6, <2>7 DEF PayExecutes, SharedType, ChainType, LinkType, linkVars
<1>3. CASE PayFails(j)
  <2>1. ThreadType'
    BY <1>3, AdvanceType DEF PayFails, JobSteps
  <2>2. QED BY <1>3, <2>1 DEF PayFails, SharedType, ChainType, LinkType, linkVars, chainVars
<1>4. CASE KeepResult(j)
  <2>1. ThreadType'
    BY <1>4, AdvanceType DEF KeepResult, JobSteps
  <2>2. SharedType'
    BY <1>4, ResultType DEF KeepResult, SharedType
  <2>3. QED BY <1>4, <2>1, <2>2 DEF KeepResult, ChainType, LinkType, linkVars, chainVars
<1>5. CASE SendResult(j)
  <2>1. ThreadType'
    BY <1>5, AdvanceType DEF SendResult, JobSteps
  <2>2. LinkType'
    BY <1>5, SendType, ResultType, MessagesType DEF SendResult
  <2>3. QED BY <1>5, <2>1, <2>2 DEF SendResult, SharedType, ChainType, chainVars
<1>6. QED BY <1>1, <1>2, <1>3, <1>4, <1>5 DEF RunPayment

-----------------------------------------------------------------------------
(* The whole.                                                                 *)

LEMMA TypeInit == Init => TypeInv
<1> SUFFICES ASSUME Init PROVE TypeInv
  OBVIOUS
<1> USE DEF Init, FacepayInit
<1>1. TerminalTypeOK
  BY DEF TerminalInit, TerminalTypeOK, FreshUi, Screens, Modes
<1>2. ReaderType /\ LoopType /\ LoopHolds
  BY DEF ReaderType, LoopType, LoopHolds, LoopSteps
<1>3. SharedType /\ LinkType /\ ThreadType
  <2>1. SharedType
    BY DEF SharedType, Modes
  <2>2. << >> \in Seq(Messages) /\ << >> \in Seq(Idis)
    OBVIOUS
  <2>3. LinkType
    BY <2>2, Zenon DEF LinkType
  <2>4. ops \in [Operators -> [pc : {"idle", "send"}, mode : Modes, crossed : BOOLEAN]]
    BY DEF Modes
  <2>5. QED BY <2>1, <2>3, <2>4 DEF ThreadType
<1>4. ChainType /\ UsedType
  BY FacepayAssumption DEF ChainType, UsedType
<1>5. QED BY <1>1, <1>2, <1>3, <1>4 DEF TypeInv, DaemonType

\* The reports of a connection that ended are read yet, or lost.
LEMMA EmptyReports ==
  ASSUME LinkType, NEW reports \in {fromTerm, << >>}
  PROVE  reports \in Seq(Idis)
<1>1. CASE reports = fromTerm
  BY <1>1 DEF LinkType
<1>2. CASE reports = << >>
  BY <1>2
<1>3. QED BY <1>1, <1>2

LEMMA DaemonFrame ==
  ASSUME DaemonType, LoopHolds, UNCHANGED <<reader, daemonVars, chainVars>>, UsedType'
  PROVE  DaemonType' /\ LoopHolds'
BY DEF DaemonType, LoopHolds, ReaderType, LoopType, SharedType, ThreadType, ChainType,
   daemonVars, chainVars

LEMMA TypeStep == TypeInv /\ [Next]_vars => TypeInv'
<1> SUFFICES ASSUME TypeInv, [Next]_vars PROVE TypeInv'
  OBVIOUS
<1> USE DEF TypeInv
<1>1. CASE Deliver
  <2>1. Head(toTerm) \in Messages /\ Tail(toTerm) \in Seq(Messages)
    BY <1>1, HeadTail DEF Deliver, LinkType
  <2>2. OnEvent(ui, Head(toTerm)) \in UiType
    BY <2>1, EventType DEF TerminalTypeOK, UiType
  <2>3. TerminalTypeOK'
    BY <1>1, <2>2, BecomeType DEF Deliver, Receive, OtherCard
  <2>4. LinkType' /\ UsedType'
    BY <1>1, <2>1 DEF Deliver, LinkType, DaemonType, UsedType
  <2>5. QED BY <1>1, <2>3, <2>4, DaemonFrame DEF Deliver
<1>2. CASE Capture
  <2>1. LinkType' /\ UsedType'
    BY <1>2 DEF Capture, LinkType, DaemonType, UsedType, facepayVars, linkVars
  <2>2. UNCHANGED <<reader, daemonVars, chainVars>>
    BY <1>2 DEF Capture, facepayVars
  <2>3. QED BY <1>2, <2>1, <2>2, DaemonFrame, CaptureStarts DEF Capture
<1>3. CASE Answer
  <2>1. PICK out \in EngineOutcomes(Head(captures)) :
          /\ FinishCapture(out)
          /\ fromTerm' = IF connected THEN fromTerm \o FaceReports(out) ELSE fromTerm
    BY <1>3 DEF Answer
  <2>2. TerminalTypeOK' /\ FaceReports(out) \in Seq(Idis)
    BY <1>3, <2>1, CaptureFinishes DEF Answer
  <2>3. LinkType' /\ UsedType'
    <3>1. fromTerm \o FaceReports(out) \in Seq(Idis)
      BY <2>2, ConcatProperties DEF LinkType
    <3>2. LinkType'
      BY <1>3, <2>1, <3>1 DEF Answer, LinkType
    <3>3. QED BY <1>3, <3>2 DEF Answer, DaemonType, UsedType
  <2>4. QED BY <1>3, <2>2, <2>3, DaemonFrame DEF Answer
<1>4. CASE Tap
  <2>1. TerminalTypeOK'
    BY <1>4, DismissType, BecomeType DEF Tap, Leave, TerminalTypeOK, UiType
  <2>2. LinkType' /\ UsedType'
    BY <1>4 DEF Tap, LinkType, DaemonType, UsedType, facepayVars, linkVars
  <2>3. UNCHANGED <<reader, daemonVars, chainVars>>
    BY <1>4 DEF Tap, facepayVars
  <2>4. QED BY <1>4, <2>1, <2>2, <2>3, DaemonFrame
<1>5. CASE Load
  <2>1. TerminalTypeOK'
    BY <1>5 DEF Load, Reload, TerminalTypeOK, FreshUi, Screens, Modes
  <2>2. LinkType'
    <3>1. Snapshot \in Seq(Messages)
      BY SnapshotType DEF DaemonType
    <3>2. connected' = TRUE /\ toTerm' = Snapshot /\ fromTerm' \in {fromTerm, << >>}
      BY <1>5 DEF Load, Connect
    <3>3. fromTerm' \in Seq(Idis)
      BY <3>2, EmptyReports
    <3>4. QED BY <3>1, <3>2, <3>3, Zenon DEF LinkType
  <2>3. UsedType'
    BY <1>5, FacepayAssumption DEF Load, Connect, DaemonType, UsedType
  <2>4. QED BY <1>5, <2>1, <2>2, <2>3, DaemonFrame DEF Load, Connect
<1>6. CASE HostStep
  <2>1. TerminalTypeOK'
    BY <1>6 DEF HostStep, terminalVars, TerminalTypeOK
  <2>2. QED BY <1>6, <2>1, CardLoopType, OperateType, PaymentType, HandleType
            DEF HostStep, Payment
<1>7. CASE Environment
  <2>1. TerminalTypeOK'
    BY <1>7 DEF Environment, terminalVars, TerminalTypeOK
  <2>2. CASE Drop
    <3>1. LinkType' /\ UsedType'
      <4>1. LinkType'
        <5>1. fromTerm' \in Seq(Idis)
          BY <2>2, EmptyReports DEF Drop
        <5>2. << >> \in Seq(Messages)
          OBVIOUS
        <5>3. QED BY <2>2, <5>1, <5>2, Zenon DEF Drop, LinkType
      <4>2. UsedType'
        BY <2>2, FacepayAssumption DEF Drop, DaemonType, UsedType
      <4>3. QED BY <4>1, <4>2
    <3>2. QED BY <2>1, <2>2, <3>1, DaemonFrame DEF Drop
  <2>3. ASSUME NEW c \in Idis \cup {None}, MoveCard(c) PROVE TypeInv'
    <3>1. ReaderType' /\ UsedType'
      BY <2>3, FacepayAssumption DEF MoveCard, ReaderType, DaemonType, UsedType, daemonVars
    <3>2. QED BY <2>1, <2>3, <3>1 DEF MoveCard, DaemonType, LoopHolds, LoopType, SharedType,
                  ThreadType, ChainType, LinkType, daemonVars, linkVars, chainVars
  <2>4. QED BY <1>7, <2>2, <2>3 DEF Environment
<1>8. CASE UNCHANGED vars
  <2>1. UNCHANGED <<reader, daemonVars, linkVars, chainVars, used, terminalVars>>
    BY <1>8 DEF vars, facepayVars
  <2>2. TerminalTypeOK' /\ LinkType' /\ UsedType'
    BY <2>1 DEF TerminalTypeOK, LinkType, DaemonType, UsedType, terminalVars, linkVars
  <2>3. QED BY <2>1, <2>2, DaemonFrame
<1>9. QED BY <1>1, <1>2, <1>3, <1>4, <1>5, <1>6, <1>7, <1>8 DEF Next

LEMMA TypeInvariant == Spec => []TypeInv
<1>1. QED BY TypeInit, TypeStep, PTL DEF Spec

\* Page and daemon keep the shape of their state, whatever cards, operators and
\* connections there are.
THEOREM TypeCorrect == Spec => []TypeOK
<1>1. QED BY TypeInvariant, TypeParts, PTL

-----------------------------------------------------------------------------
(* The safety of payments: an attestation is followed from the card loop over  *)
(* the current card to the payment that takes it and to the transaction that    *)
(* burns it.                                                                    *)

\* The card loop between two cards: what it holds and has published.
AnnouncedInv ==
  /\ loop.pc \in {"balance", "publish", "announce"} => last_idm = loop.card
  /\ loop.pc \in {"balance", "publish"} => loop.att.idi = loop.card
  /\ loop.pc \notin {"balance", "publish"} => loop.att = None
  /\ loop.pc = "announce" => shared.current_idi = loop.card /\ shared.last_card # None
  /\ loop.pc = "removed" =>
       shared.current_idi = None /\ last_idm = None /\ shared.last_card = None
  /\ CurrentIsAnnounced

LEMMA AnnouncedInit == Init => AnnouncedInv
BY DEF Init, FacepayInit, AnnouncedInv, CurrentIsAnnounced

\* A step that leaves the card loop and its part of Shared alone.
LEMMA AnnouncedFrame ==
  ASSUME AnnouncedInv, UNCHANGED <<loop, last_idm>>,
         shared'.current_idi = shared.current_idi, shared'.last_card = shared.last_card,
         shared'.current_att \in {shared.current_att, None}
  PROVE  AnnouncedInv'
BY DEF AnnouncedInv, CurrentIsAnnounced

LEMMA AnnouncedLoop == TypeInv /\ AnnouncedInv /\ CardLoop => AnnouncedInv'
<1> SUFFICES ASSUME TypeInv, AnnouncedInv, CardLoop PROVE AnnouncedInv'
  OBVIOUS
<1> USE DEF AnnouncedInv, CurrentIsAnnounced
<1>0. LoopType /\ SharedType /\ LoopHolds
  BY DEF TypeInv, DaemonType
<1>1. CASE Detect
  BY <1>0, <1>1 DEF Detect, LoopType, LoopSteps
<1>2. CASE Authenticate
  BY <1>0, <1>2 DEF Authenticate, LoopType, LoopSteps
<1>3. CASE Attest
  BY <1>0, <1>3 DEF Attest, LoopType, LoopSteps
<1>4. CASE AttestFails
  BY <1>0, <1>4 DEF AttestFails, LoopType, LoopSteps
<1>5. CASE LookUpBalance
  BY <1>0, <1>5 DEF LookUpBalance, LoopType, LoopSteps
<1>6. CASE PublishCard
  <2>1. FoundCard \in Cards /\ loop.att \in Attestations
    BY <1>0, <1>6 DEF PublishCard, FoundCard, Cards, LoopHolds, LoopType
  <2>2. FoundCard # None /\ loop.att # None
    BY <2>1, NoneAssumption
  <2>3. QED BY <1>0, <1>6, <2>2 DEF PublishCard, LoopType, LoopSteps, SharedType
<1>7. CASE AnnounceCard
  <2>1. loop.card \in Idis /\ loop.card # None
    BY <1>0, <1>7, ProtocolAssumption DEF AnnounceCard, LoopHolds
  <2>2. QED BY <1>0, <1>7, <2>1 DEF AnnounceCard, LoopType, LoopSteps
<1>8. CASE ForgetCard
  BY <1>0, <1>8 DEF ForgetCard, LoopType, LoopSteps, SharedType
<1>9. CASE AnnounceRemoval
  BY <1>0, <1>9 DEF AnnounceRemoval, LoopType, LoopSteps
<1>10. QED
  BY <1>1, <1>2, <1>3, <1>4, <1>5, <1>6, <1>7, <1>8, <1>9 DEF CardLoop

\* What a step besides the card loop's does to the card loop's state.
LEMMA OutsideLoop ==
  ASSUME TypeInv, [Next]_vars, ~CardLoop
  PROVE  /\ UNCHANGED <<loop, last_idm, issued>>
         /\ shared'.current_idi = shared.current_idi /\ shared'.last_card = shared.last_card
         /\ shared'.current_att \in {shared.current_att, None}
<1> SharedType
  BY DEF TypeInv, DaemonType
<1>1. CASE Deliver \/ Capture \/ Answer \/ Tap \/ Load \/ Environment \/ UNCHANGED vars
  BY <1>1 DEF Deliver, Capture, Answer, Tap, Load, Connect, Environment, Drop, MoveCard, vars,
     facepayVars, daemonVars, chainVars
<1>2. CASE Operate
  <2>1. PICK o \in Operators : SendMode(o) \/ \E mode \in Modes : SetPayMode(o, mode)
    BY <1>2 DEF Operate
  <2>2. CASE SendMode(o)
    BY <2>2 DEF SendMode, chainVars
  <2>3. ASSUME NEW mode \in Modes, SetPayMode(o, mode)
        PROVE  /\ UNCHANGED <<loop, last_idm, issued>>
               /\ shared' = [shared EXCEPT !.pay_mode = mode]
    BY <2>3 DEF SetPayMode, chainVars
  <2>4. QED BY <2>1, <2>2, <2>3 DEF SharedType
<1>3. CASE Payment
  <2> PICK j \in DOMAIN jobs : RunPayment(j)
    BY <1>3 DEF Payment
  <2>1. CASE CheckBalance(j)
    BY <2>1 DEF CheckBalance, SharedType, chainVars
  <2>2. CASE PayExecutes(j)
    BY <2>2 DEF PayExecutes, SharedType
  <2>3. CASE PayFails(j)
    BY <2>3 DEF PayFails, SharedType, chainVars
  <2>4. CASE KeepResult(j)
    BY <2>4 DEF KeepResult, SharedType, chainVars
  <2>5. CASE SendResult(j)
    BY <2>5 DEF SendResult, SharedType, chainVars
  <2>6. QED BY <2>1, <2>2, <2>3, <2>4, <2>5 DEF RunPayment
<1>4. CASE HandleFaceOk
  BY <1>4 DEF HandleFaceOk, SharedType, chainVars
<1>5. QED BY <1>1, <1>2, <1>3, <1>4 DEF Next, HostStep

LEMMA AnnouncedStep == TypeInv /\ AnnouncedInv /\ [Next]_vars => AnnouncedInv'
<1>1. QED BY AnnouncedLoop, AnnouncedFrame, OutsideLoop

\* The current card is the announced one, and its attestation goes with it.
THEOREM CurrentIsAnnouncedCorrect == Spec => []CurrentIsAnnounced
<1>1. AnnouncedInv => CurrentIsAnnounced
  BY DEF AnnouncedInv
<1>2. QED BY <1>1, AnnouncedInit, AnnouncedStep, TypeInvariant, PTL DEF Spec

-----------------------------------------------------------------------------
(* Where attestations are. Each is for the card the oracle issued it to, no    *)
(* two places hold the same, and a challenge is burned only by the payment     *)
(* that holds its attestation.                                                 *)

Backed(att) == att.r1 \in 1..Len(issued) /\ issued[att.r1] = att.idi

Made(job) == << [wallet |-> job.idi, amount |-> job.amount] >>

BackedInv ==
  /\ loop.att # None => Backed(loop.att)
  /\ shared.current_att # None => Backed(shared.current_att)
  /\ \A j \in DOMAIN jobs : jobs[j].att # None =>
       Backed(jobs[j].att) /\ jobs[j].att.idi = jobs[j].idi

ApartInv ==
  /\ loop.att # None /\ shared.current_att # None => loop.att.r1 # shared.current_att.r1
  /\ \A j \in DOMAIN jobs : jobs[j].att # None =>
       /\ loop.att # None => loop.att.r1 # jobs[j].att.r1
       /\ shared.current_att # None => shared.current_att.r1 # jobs[j].att.r1
  /\ \A j, k \in DOMAIN jobs : j # k /\ jobs[j].att # None /\ jobs[k].att # None =>
       jobs[j].att.r1 # jobs[k].att.r1

JobInv(j) ==
  /\ jobs[j].pc \in {"balance", "pay"} =>
       jobs[j].att # None /\ ~jobs[j].ok /\ jobs[j].answered /\ MerchantSet
  /\ jobs[j].ok => MerchantSet /\ jobs[j].att # None /\ burned[jobs[j].att.r1] = Made(jobs[j])
  /\ (~jobs[j].ok /\ jobs[j].answered /\ jobs[j].att # None) =>
       burned[jobs[j].att.r1] = << >>

JobsInv == \A j \in DOMAIN jobs : JobInv(j)

BurnedInv ==
  \A r \in MaxR1 : burned[r] # << >> =>
    \E j \in DOMAIN jobs :
      jobs[j].att # None /\ jobs[j].att.r1 = r /\ burned[r] = Made(jobs[j])

HoldInv == BackedInv /\ ApartInv /\ JobsInv /\ BurnedInv

LEMMA HoldInit == Init => HoldInv
BY DEF Init, FacepayInit, HoldInv, BackedInv, ApartInv, JobsInv, JobInv, BurnedInv

\* A step that moves no attestation and burns none. The card loop may drop the
\* current attestation, and forget the one it holds.
LEMMA HoldFrame ==
  ASSUME HoldInv, UNCHANGED <<jobs, issued, burned>>,
         loop'.att = loop.att \/ loop'.att = None,
         shared'.current_att \in {shared.current_att, None}
  PROVE  HoldInv'
BY DEF HoldInv, BackedInv, ApartInv, JobsInv, JobInv, BurnedInv, Backed, Made

\* The oracle issues an attestation: its number is above all others.
LEMMA HoldAttest == TypeInv /\ AnnouncedInv /\ HoldInv /\ Attest => HoldInv'
<1> SUFFICES ASSUME TypeInv, AnnouncedInv, HoldInv, Attest PROVE HoldInv'
  OBVIOUS
<1> DEFINE new == [idi |-> loop.card, r1 |-> Len(issued) + 1]
<1>0. LoopType /\ ChainType /\ ThreadType /\ SharedType /\ loop.card \in Idis
  BY DEF TypeInv, DaemonType, Attest, LoopHolds
<1>1. /\ loop'.att = new /\ UNCHANGED <<shared, jobs, burned>>
      /\ issued' = Append(issued, loop.card)
  BY <1>0 DEF Attest, LoopType
<1>2. /\ Len(issued) \in Nat /\ Len(issued') = Len(issued) + 1
      /\ issued'[Len(issued) + 1] = loop.card
      /\ \A i \in 1..Len(issued) : issued'[i] = issued[i]
  BY <1>0, <1>1 DEF ChainType
<1>3. \A att : Backed(att) => Backed(att)' /\ att.r1 # Len(issued) + 1
  BY <1>2 DEF Backed
<1>4. /\ loop'.att.r1 = Len(issued) + 1
      /\ loop'.att.r1 \in 1..Len(issued') /\ issued'[loop'.att.r1] = loop'.att.idi
  BY <1>1, <1>2
<1> HIDE DEF new
<1>5. BackedInv'
  <2>1. (loop.att # None => Backed(loop.att))'
    BY <1>4 DEF Backed
  <2>2. (shared.current_att # None => Backed(shared.current_att))'
    BY <1>1, <1>2 DEF HoldInv, BackedInv, Backed
  <2>3. (\A j \in DOMAIN jobs : jobs[j].att # None =>
           Backed(jobs[j].att) /\ jobs[j].att.idi = jobs[j].idi)'
    BY <1>1, <1>2 DEF HoldInv, BackedInv, Backed
  <2>4. QED BY <2>1, <2>2, <2>3 DEF BackedInv
<1>6. ApartInv'
  BY <1>1, <1>3, <1>4 DEF HoldInv, BackedInv, ApartInv
<1>7. JobsInv' /\ BurnedInv'
  BY <1>1 DEF HoldInv, JobsInv, JobInv, BurnedInv, Made
<1>8. QED BY <1>5, <1>6, <1>7 DEF HoldInv

\* on_card publishes what the loop held.
LEMMA HoldPublish == TypeInv /\ HoldInv /\ PublishCard => HoldInv'
<1> SUFFICES ASSUME TypeInv, HoldInv, PublishCard PROVE HoldInv'
  OBVIOUS
<1>1. /\ shared'.current_att = loop.att /\ loop'.att = None
      /\ UNCHANGED <<jobs, issued, burned>>
  BY DEF PublishCard, TypeInv, DaemonType, LoopType, SharedType, chainVars
<1>2. BackedInv'
  BY <1>1 DEF HoldInv, BackedInv, Backed
<1>3. ApartInv'
  BY <1>1 DEF HoldInv, ApartInv
<1>4. JobsInv' /\ BurnedInv'
  BY <1>1 DEF HoldInv, JobsInv, JobInv, BurnedInv, Made
<1>5. QED BY <1>2, <1>3, <1>4 DEF HoldInv

LEMMA HoldLoop == TypeInv /\ AnnouncedInv /\ HoldInv /\ CardLoop => HoldInv'
<1> SUFFICES ASSUME TypeInv, AnnouncedInv, HoldInv, CardLoop PROVE HoldInv'
  OBVIOUS
<1>1. CASE Attest
  BY <1>1, HoldAttest
<1>2. CASE PublishCard
  BY <1>2, HoldPublish
<1>3. CASE Detect \/ Authenticate \/ AttestFails \/ LookUpBalance \/ AnnounceCard
           \/ ForgetCard \/ AnnounceRemoval
  <2>1. UNCHANGED <<jobs, issued, burned>>
    BY <1>3 DEF Detect, Authenticate, AttestFails, LookUpBalance, AnnounceCard, ForgetCard,
       AnnounceRemoval, chainVars
  <2>2. loop'.att = loop.att
    BY <1>3 DEF TypeInv, DaemonType, LoopType, Detect, Authenticate, AttestFails,
       LookUpBalance, AnnounceCard, ForgetCard, AnnounceRemoval
  <2>3. shared'.current_att \in {shared.current_att, None}
    BY <1>3 DEF TypeInv, DaemonType, SharedType, Detect, Authenticate, AttestFails,
       LookUpBalance, AnnounceCard, ForgetCard, AnnounceRemoval
  <2>4. QED BY <2>1, <2>2, <2>3, HoldFrame
<1>4. QED BY <1>1, <1>2, <1>3 DEF CardLoop

\* A faceOk takes the current attestation and the current card together.
LEMMA HoldFaceOk == TypeInv /\ AnnouncedInv /\ HoldInv /\ HandleFaceOk => HoldInv'
<1> SUFFICES ASSUME TypeInv, AnnouncedInv, HoldInv, HandleFaceOk PROVE HoldInv'
  OBVIOUS
<1>0. SharedType /\ ThreadType /\ ChainType
  BY DEF TypeInv, DaemonType
<1>1. CASE shared.pay_mode # None /\ shared.current_idi # None
  <2> DEFINE n == Len(jobs) + 1
  <2>1. /\ UNCHANGED <<loop, issued, burned>>
        /\ jobs' = Append(jobs, NewJob)
        /\ shared'.current_att = None
    BY <1>0, <1>1 DEF HandleFaceOk, SharedType, chainVars
  <2>2. /\ Len(jobs) \in Nat /\ DOMAIN jobs = 1..Len(jobs) /\ DOMAIN jobs' = 1..n
        /\ jobs'[n] = NewJob
        /\ \A j \in DOMAIN jobs : j # n /\ jobs'[j] = jobs[j]
    BY <1>0, <2>1 DEF ThreadType
  <2>3. /\ NewJob.att = shared.current_att /\ NewJob.idi = shared.current_idi
        /\ ~NewJob.ok /\ NewJob.answered
        /\ NewJob.pc \in {"balance", "pay"} => MerchantSet /\ shared.current_att # None
    BY DEF NewJob
  <2>4. \A j \in DOMAIN jobs' : j \in DOMAIN jobs \/ j = n
    BY <2>2
  <2>5. BackedInv'
    BY <2>1, <2>2, <2>3, <2>4 DEF HoldInv, BackedInv, Backed, AnnouncedInv, CurrentIsAnnounced
  <2>6. ApartInv'
    BY <2>1, <2>2, <2>3, <2>4 DEF HoldInv, ApartInv
  <2>7. shared.current_att # None => burned[shared.current_att.r1] = << >>
    <3>1. SUFFICES ASSUME shared.current_att # None PROVE burned[shared.current_att.r1] = << >>
      OBVIOUS
    <3>2. shared.current_att.r1 \in MaxR1
      BY <1>0, <3>1 DEF SharedType, Attestations
    <3>3. QED BY <3>1, <3>2 DEF HoldInv, BurnedInv, ApartInv
  <2>8. JobsInv'
    <3>1. SUFFICES ASSUME NEW k \in DOMAIN jobs' PROVE JobInv(k)'
      BY DEF JobsInv
    <3>2. CASE k = n
      BY <2>1, <2>2, <2>3, <2>7, <3>2 DEF JobInv
    <3>3. CASE k \in DOMAIN jobs
      <4>1. JobInv(k) /\ jobs'[k] = jobs[k] /\ burned' = burned
        BY <2>1, <2>2, <3>3 DEF HoldInv, JobsInv
      <4>2. QED BY <4>1 DEF JobInv, Made
    <3>4. QED BY <2>4, <3>2, <3>3
  <2>9. BurnedInv'
    <3>1. \A k \in DOMAIN jobs : k \in DOMAIN jobs' /\ jobs'[k] = jobs[k]
      BY <2>2
    <3>2. SUFFICES ASSUME NEW r \in MaxR1, burned'[r] # << >>
                   PROVE  \E k \in DOMAIN jobs' :
                            jobs'[k].att # None /\ jobs'[k].att.r1 = r
                              /\ burned'[r] = Made(jobs'[k])
      BY DEF BurnedInv, Made
    <3>3. PICK k \in DOMAIN jobs :
            jobs[k].att # None /\ jobs[k].att.r1 = r /\ burned[r] = Made(jobs[k])
      BY <2>1, <3>2 DEF HoldInv, BurnedInv
    <3>4. QED BY <2>1, <3>1, <3>3 DEF Made
  <2>10. QED BY <2>5, <2>6, <2>8, <2>9 DEF HoldInv
<1>2. CASE ~(shared.pay_mode # None /\ shared.current_idi # None)
  BY <1>2, HoldFrame DEF HandleFaceOk, chainVars
<1>3. QED BY <1>1, <1>2

\* A step of a payment that burns nothing: one job goes on, and holds what it held.
LEMMA HoldJob ==
  ASSUME HoldInv, NEW j \in DOMAIN jobs, jobs \in Seq(Jobs), NEW pc \in JobSteps,
         UNCHANGED <<loop, issued, burned>>, AdvanceJob(j, pc),
         shared'.current_att = shared.current_att,
         pc = "pay" => jobs[j].pc = "balance", pc # "balance"
  PROVE  HoldInv'
<1>1. /\ DOMAIN jobs' = DOMAIN jobs
      /\ \A k \in DOMAIN jobs :
           /\ jobs'[k].att = jobs[k].att /\ jobs'[k].idi = jobs[k].idi
           /\ jobs'[k].amount = jobs[k].amount /\ jobs'[k].ok = jobs[k].ok
           /\ jobs'[k].answered = jobs[k].answered
           /\ jobs'[k].pc = IF k = j THEN pc ELSE jobs[k].pc
  BY DEF AdvanceJob, Jobs
<1>2. BackedInv'
  BY <1>1 DEF HoldInv, BackedInv, Backed
<1>3. ApartInv'
  BY <1>1 DEF HoldInv, ApartInv
<1>4. \A k \in DOMAIN jobs : Made(jobs'[k]) = Made(jobs[k])
  BY <1>1 DEF Made
<1>5. JobsInv'
  <2>1. SUFFICES ASSUME NEW k \in DOMAIN jobs PROVE JobInv(k)'
    BY <1>1 DEF JobsInv
  <2>2. JobInv(k) /\ JobInv(j)
    BY DEF HoldInv, JobsInv
  <2>3. (jobs'[k].pc \in {"balance", "pay"}) => jobs[k].pc \in {"balance", "pay"}
    BY <1>1
  <2>4. /\ jobs'[k].att = jobs[k].att /\ jobs'[k].ok = jobs[k].ok
        /\ jobs'[k].answered = jobs[k].answered /\ Made(jobs'[k]) = Made(jobs[k])
        /\ burned' = burned
    BY <1>1, <1>4
  <2>5. JobInv(k)' = JobInv(k)' /\ Made(jobs[k])' = Made(jobs'[k])
    BY DEF Made
  <2>6. QED BY <2>2, <2>3, <2>4, <2>5, Zenon DEF JobInv
<1>6. BurnedInv'
  <2>1. SUFFICES ASSUME NEW r \in MaxR1, burned'[r] # << >>
                 PROVE  \E k \in DOMAIN jobs' :
                          jobs'[k].att # None /\ jobs'[k].att.r1 = r
                            /\ burned'[r] = Made(jobs'[k])
    BY DEF BurnedInv, Made
  <2>2. PICK k \in DOMAIN jobs :
          jobs[k].att # None /\ jobs[k].att.r1 = r /\ burned[r] = Made(jobs[k])
    BY <2>1 DEF HoldInv, BurnedInv
  <2>3. QED BY <1>1, <1>4, <2>2
<1>7. QED BY <1>2, <1>3, <1>5, <1>6 DEF HoldInv

\* The transaction burns the attestation the payment holds, which nobody else does.
LEMMA HoldExecutes ==
  ASSUME TypeInv, HoldInv, NEW j \in DOMAIN jobs, PayExecutes(j)
  PROVE  HoldInv'
<1> DEFINE r == jobs[j].att.r1
<1>0. jobs \in Seq(Jobs) /\ jobs[j] \in Jobs /\ burned \in [MaxR1 -> Seq(Transfers)]
  BY DEF TypeInv, DaemonType, ThreadType, ChainType
<1>1. jobs[j].att # None /\ jobs[j].att \in Attestations /\ r \in MaxR1 /\ MerchantSet
  BY <1>0 DEF PayExecutes, HoldInv, JobsInv, JobInv, Jobs, Attestations
<1>2. PICK answered \in BOOLEAN :
        jobs' = [jobs EXCEPT ![j].pc = "emit", ![j].ok = answered, ![j].answered = answered]
  BY Zenon DEF PayExecutes
<1>3. /\ DOMAIN jobs' = DOMAIN jobs
      /\ \A k \in DOMAIN jobs :
           /\ jobs'[k].att = jobs[k].att /\ jobs'[k].idi = jobs[k].idi
           /\ jobs'[k].amount = jobs[k].amount
           /\ k # j => jobs'[k] = jobs[k]
      /\ jobs'[j].pc = "emit" /\ jobs'[j].ok = answered /\ jobs'[j].answered = answered
  BY <1>0, <1>2 DEF Jobs
<1>4. UNCHANGED <<loop, issued, shared>> /\ burned' = [burned EXCEPT ![r] = Made(jobs[j])]
  BY DEF PayExecutes, Made
<1>5. burned'[r] = Made(jobs[j]) /\ \A q \in MaxR1 : q # r => burned'[q] = burned[q]
  BY <1>0, <1>1, <1>4
<1>6. BackedInv'
  BY <1>3, <1>4 DEF HoldInv, BackedInv, Backed
<1>7. ApartInv'
  BY <1>3, <1>4 DEF HoldInv, ApartInv
<1>8. \A k \in DOMAIN jobs : Made(jobs'[k]) = Made(jobs[k])
  BY <1>3 DEF Made
<1>9. \A k \in DOMAIN jobs : k # j /\ jobs[k].att # None =>
        burned'[jobs[k].att.r1] = burned[jobs[k].att.r1]
  <2>1. SUFFICES ASSUME NEW k \in DOMAIN jobs, k # j, jobs[k].att # None
                 PROVE  burned'[jobs[k].att.r1] = burned[jobs[k].att.r1]
    OBVIOUS
  <2>2. jobs[k].att.r1 # r
    BY <1>1, <2>1 DEF HoldInv, ApartInv
  <2>3. jobs[k] \in Jobs
    BY <1>0, <2>1
  <2>4. jobs[k].att \in Attestations
    BY <2>1, <2>3 DEF Jobs
  <2>5. jobs[k].att.r1 \in MaxR1
    BY <2>4 DEF Attestations
  <2>6. QED BY <1>5, <2>2, <2>5
<1>10. JobsInv'
  <2>1. SUFFICES ASSUME NEW k \in DOMAIN jobs PROVE JobInv(k)'
    BY <1>3 DEF JobsInv
  <2>2. JobInv(k)
    BY DEF HoldInv, JobsInv
  <2>3. CASE k = j
    BY <1>1, <1>3, <1>5, <1>8, <2>3 DEF JobInv, Made
  <2>4. CASE k # j
    BY <1>3, <1>9, <2>2, <2>4 DEF JobInv, Made
  <2>5. QED BY <2>3, <2>4
<1>11. BurnedInv'
  BY <1>1, <1>3, <1>5, <1>8 DEF HoldInv, BurnedInv
<1>12. QED BY <1>6, <1>7, <1>10, <1>11 DEF HoldInv

LEMMA HoldPayment ==
  ASSUME TypeInv, HoldInv, NEW j \in DOMAIN jobs, RunPayment(j)
  PROVE  HoldInv'
<1>0. jobs \in Seq(Jobs) /\ SharedType
  BY DEF TypeInv, DaemonType, ThreadType
<1>1. CASE PayExecutes(j)
  BY <1>1, HoldExecutes
<1>2. CASE CheckBalance(j)
  <2>1. PICK pc \in {"emit", "pay"} : AdvanceJob(j, pc)
    BY <1>2 DEF CheckBalance
  <2>2. QED BY <1>0, <1>2, <2>1, HoldJob DEF CheckBalance, JobSteps, chainVars
<1>3. CASE PayFails(j)
  BY <1>0, <1>3, HoldJob DEF PayFails, JobSteps, chainVars
<1>4. CASE KeepResult(j)
  <2>1. shared'.current_att = shared.current_att
    BY <1>0, <1>4 DEF KeepResult, SharedType
  <2>2. QED BY <1>0, <1>4, <2>1, HoldJob DEF KeepResult, JobSteps, chainVars
<1>5. CASE SendResult(j)
  BY <1>0, <1>5, HoldJob DEF SendResult, JobSteps, chainVars
<1>6. QED BY <1>1, <1>2, <1>3, <1>4, <1>5 DEF RunPayment

LEMMA HoldStep == TypeInv /\ AnnouncedInv /\ HoldInv /\ [Next]_vars => HoldInv'
<1> SUFFICES ASSUME TypeInv, AnnouncedInv, HoldInv, [Next]_vars PROVE HoldInv'
  OBVIOUS
<1>1. CASE CardLoop
  BY <1>1, HoldLoop
<1>2. CASE HandleFaceOk
  BY <1>2, HoldFaceOk
<1>3. CASE Payment
  BY <1>3, HoldPayment DEF Payment
<1>4. CASE Operate
  <2>1. UNCHANGED <<loop, jobs, issued, burned>> /\ shared'.current_att = shared.current_att
    BY <1>4 DEF Operate, SendMode, SetPayMode, chainVars, TypeInv, DaemonType, SharedType
  <2>2. QED BY <2>1, HoldFrame
<1>5. CASE Deliver \/ Capture \/ Answer \/ Tap \/ Load \/ Environment \/ UNCHANGED vars
  <2>1. UNCHANGED <<loop, shared, jobs, issued, burned>>
    BY <1>5 DEF Deliver, Capture, Answer, Tap, Load, Connect, Environment, Drop, MoveCard,
       vars, facepayVars, daemonVars, chainVars
  <2>2. QED BY <2>1, HoldFrame
<1>6. QED BY <1>1, <1>2, <1>3, <1>4, <1>5 DEF Next, HostStep

LEMMA HoldInvariant == Spec => []HoldInv
<1>1. QED BY HoldInit, HoldStep, AnnouncedInit, AnnouncedStep, TypeInvariant, PTL DEF Spec

\* Money leaves only the wallet of the card whose session the burned proof
\* attests.
THEOREM WalletMatchesProofCorrect == Spec => []WalletMatchesProof
<1>1. ASSUME TypeInv, HoldInv PROVE WalletMatchesProof
  <2>1. ASSUME NEW r \in MaxR1, NEW i \in DOMAIN burned[r]
        PROVE  r \in DOMAIN issued /\ burned[r][i].wallet = issued[r]
    <3>1. burned[r] # << >>
      BY <2>1
    <3>2. PICK j \in DOMAIN jobs :
            jobs[j].att # None /\ jobs[j].att.r1 = r /\ burned[r] = Made(jobs[j])
      BY <1>1, <3>1 DEF HoldInv, BurnedInv
    <3>3. burned[r][i].wallet = jobs[j].idi
      BY <2>1, <3>2 DEF Made
    <3>4. r \in 1..Len(issued) /\ issued[r] = jobs[j].idi
      BY <1>1, <3>2 DEF HoldInv, BackedInv, Backed
    <3>5. QED BY <1>1, <3>3, <3>4 DEF TypeInv, DaemonType, ChainType
  <2>2. QED BY <2>1 DEF WalletMatchesProof
<1>2. QED BY <1>1, HoldInvariant, TypeInvariant, PTL

\* An attestation is in one place at most: with the card loop, current, or in
\* one payment; and one that was burned is only in the payment that burned it
\* (facepay.rs:75-78). The places that hold r1 = r:
Holders(r) ==
  {<<"loop", 0>> : x \in {a \in {loop.att} : a # None /\ a.r1 = r}}
    \cup {<<"current", 0>> : x \in {a \in {shared.current_att} : a # None /\ a.r1 = r}}
    \cup {<<"job", j>> : j \in {k \in DOMAIN jobs : jobs[k].att # None /\ jobs[k].att.r1 = r}}

AttestationHeldOnce ==
  \A r \in MaxR1 :
    /\ Cardinality(Holders(r)) <= 1
    /\ Len(burned[r]) <= 1
    /\ burned[r] # << >> => \E j \in DOMAIN jobs : <<"job", j>> \in Holders(r)

\* An attestation is in one place at most, and is burned once, by the payment
\* that holds it.
THEOREM AttestationHeldOnceCorrect == Spec => []AttestationHeldOnce
<1>1. ASSUME TypeInv, HoldInv PROVE AttestationHeldOnce
  <2>1. ASSUME NEW r \in MaxR1 PROVE Cardinality(Holders(r)) <= 1
    <3>1. \A x, y \in Holders(r) : x = y
      BY <1>1 DEF Holders, HoldInv, ApartInv
    <3>2. CASE Holders(r) = {}
      BY <3>2, FS_EmptySet
    <3>3. CASE Holders(r) # {}
      <4>1. PICK x : x \in Holders(r)
        BY <3>3
      <4>2. Holders(r) = {x}
        BY <3>1, <4>1
      <4>3. QED BY <4>2, FS_Singleton
    <3>4. QED BY <3>2, <3>3
  <2>2. ASSUME NEW r \in MaxR1
        PROVE  /\ Len(burned[r]) <= 1
               /\ burned[r] # << >> => \E j \in DOMAIN jobs : <<"job", j>> \in Holders(r)
    <3>1. CASE burned[r] = << >>
      BY <3>1
    <3>2. CASE burned[r] # << >>
      <4>1. PICK j \in DOMAIN jobs :
              jobs[j].att # None /\ jobs[j].att.r1 = r /\ burned[r] = Made(jobs[j])
        BY <1>1, <3>2 DEF HoldInv, BurnedInv
      <4>2. Len(burned[r]) = 1
        BY <4>1 DEF Made
      <4>3. <<"job", j>> \in Holders(r)
        BY <4>1 DEF Holders
      <4>4. QED BY <4>2, <4>3
    <3>3. QED BY <3>1, <3>2
  <2>3. QED BY <2>1, <2>2 DEF AttestationHeldOnce
<1>2. QED BY <1>1, HoldInvariant, TypeInvariant, PTL

-----------------------------------------------------------------------------
(* What the terminal is told. A result is kept, sent, delivered and kept again *)
(* by the page; a success stays true because a payment made stays made.        *)

Paid(js, result) ==
  (result # None /\ result.ok) =>
    \E j \in DOMAIN js : js[j].ok /\ js[j].amount = result.amount

PaidMessages(js) == {m \in Messages : m.type = "paymentResult" => Paid(js, m.result)}

ReportInv ==
  /\ Paid(jobs, shared.last_payment) /\ Paid(jobs, ui.lcd)
  /\ toTerm \in Seq(PaidMessages(jobs))

\* Jobs are added and end; a payment made is not unmade.
Grown(js, later) ==
  \A j \in DOMAIN js :
    j \in DOMAIN later /\ (js[j].ok => later[j].ok) /\ later[j].amount = js[j].amount

LEMMA ReportInit == Init => ReportInv
<1> SUFFICES ASSUME Init PROVE ReportInv
  OBVIOUS
<1>1. << >> \in Seq(PaidMessages(jobs))
  OBVIOUS
<1>2. QED BY <1>1 DEF Init, FacepayInit, TerminalInit, FreshUi, ReportInv, Paid

LEMMA PaidKept ==
  ASSUME NEW js, NEW later, Grown(js, later)
  PROVE  /\ \A result : Paid(js, result) => Paid(later, result)
         /\ Seq(PaidMessages(js)) \subseteq Seq(PaidMessages(later))
<1>1. \A result : Paid(js, result) => Paid(later, result)
  BY DEF Grown, Paid
<1>2. PaidMessages(js) \subseteq PaidMessages(later)
  BY <1>1 DEF PaidMessages
<1>3. QED BY <1>1, <1>2

LEMMA JobsGrow == TypeInv /\ HoldInv /\ [Next]_vars => Grown(jobs, jobs')
<1> SUFFICES ASSUME TypeInv, HoldInv, [Next]_vars PROVE Grown(jobs, jobs')
  OBVIOUS
<1>0. jobs \in Seq(Jobs)
  BY DEF TypeInv, DaemonType, ThreadType
<1>1. CASE UNCHANGED jobs
  BY <1>1 DEF Grown
<1>2. CASE HandleFaceOk
  <2>1. UNCHANGED jobs \/ jobs' = Append(jobs, NewJob)
    BY <1>2 DEF HandleFaceOk
  <2>2. QED BY <1>0, <1>1, <2>1 DEF Grown
<1>3. CASE Payment
  <2>1. PICK j \in DOMAIN jobs : RunPayment(j)
    BY <1>3 DEF Payment
  <2>2. CASE \E pc : AdvanceJob(j, pc)
    BY <1>0, <2>2 DEF AdvanceJob, Jobs, Grown
  <2>3. CASE PayExecutes(j)
    <3>1. ~jobs[j].ok
      BY <2>3 DEF PayExecutes, HoldInv, JobsInv, JobInv
    <3>2. PICK answered \in BOOLEAN :
            jobs' = [jobs EXCEPT ![j].pc = "emit", ![j].ok = answered, ![j].answered = answered]
      BY <2>3, Zenon DEF PayExecutes
    <3>3. /\ DOMAIN jobs' = DOMAIN jobs
          /\ \A k \in DOMAIN jobs : jobs'[k].amount = jobs[k].amount
          /\ \A k \in DOMAIN jobs : k # j => jobs'[k] = jobs[k]
      BY <1>0, <3>2 DEF Jobs
    <3>4. QED BY <3>1, <3>3 DEF Grown
  <2>4. QED
    BY <2>1, <2>2, <2>3 DEF RunPayment, CheckBalance, PayFails, KeepResult, SendResult
<1>4. CASE ~HandleFaceOk /\ ~Payment
  BY <1>1, <1>4 DEF Next, Deliver, Capture, Answer, Tap, Load, Connect, HostStep, CardLoop,
     Detect, Authenticate, Attest, AttestFails, LookUpBalance, PublishCard, AnnounceCard,
     ForgetCard, AnnounceRemoval, Operate, SendMode, SetPayMode, Environment, Drop, MoveCard,
     vars, facepayVars, daemonVars
<1>5. QED BY <1>2, <1>3, <1>4

\* What emit_payment keeps and sends of a payment made names its amount.
LEMMA JobResultPaid ==
  ASSUME HoldInv, NEW j \in DOMAIN jobs
  PROVE  Paid(jobs, JobResult(jobs[j]))
<1>1. JobResult(jobs[j]).ok => jobs[j].ok /\ MerchantSet
  BY DEF JobResult, HoldInv, JobsInv, JobInv
<1>2. MerchantSet => JobResult(jobs[j]).amount = jobs[j].amount
  BY DEF JobResult
<1>3. QED BY <1>1, <1>2 DEF Paid

LEMMA SendPaid ==
  ASSUME ReportInv, NEW m \in PaidMessages(jobs), Send(m)
  PROVE  toTerm' \in Seq(PaidMessages(jobs))
BY DEF ReportInv, Send

LEMMA SnapshotPaid ==
  ASSUME TypeInv, ReportInv
  PROVE  Snapshot \in Seq(PaidMessages(jobs))
<1>0. SharedType
  BY DEF TypeInv, DaemonType
<1>1. << ModeMsg(shared.pay_mode) >> \in Seq(PaidMessages(jobs))
  <2>1. ModeMsg(shared.pay_mode) \in PaidMessages(jobs)
    BY <1>0, MessagesType DEF SharedType, PaidMessages, ModeMsg
  <2>2. QED BY <2>1
<1>2. (IF shared.last_card = None THEN << >> ELSE << CardMsg(shared.last_card) >>)
        \in Seq(PaidMessages(jobs))
  <2>1. shared.last_card # None => CardMsg(shared.last_card) \in PaidMessages(jobs)
    BY <1>0, MessagesType DEF SharedType, PaidMessages, CardMsg
  <2>2. QED BY <2>1
<1>3. (IF shared.last_payment = None THEN << >> ELSE << ResultMsg(shared.last_payment) >>)
        \in Seq(PaidMessages(jobs))
  <2>1. shared.last_payment # None => ResultMsg(shared.last_payment) \in PaidMessages(jobs)
    BY <1>0, MessagesType DEF SharedType, ReportInv, PaidMessages, ResultMsg
  <2>2. QED BY <2>1
<1>4. QED BY <1>1, <1>2, <1>3, ConcatProperties DEF Snapshot

\* A step of the page: what its lcd shows it showed before, or was just told.
LEMMA ReportPage ==
  ASSUME TypeInv, ReportInv, Deliver \/ Capture \/ Answer \/ Tap \/ Load
  PROVE  /\ Paid(jobs, ui'.lcd) /\ UNCHANGED <<shared, jobs>>
         /\ toTerm' \in Seq(PaidMessages(jobs))
<1>0. TerminalTypeOK /\ Paid(jobs, None)
  BY DEF TypeInv, Paid
<1>1. CASE Deliver
  <2> DEFINE m == Head(toTerm)
  <2>1. m \in PaidMessages(jobs) /\ toTerm' \in Seq(PaidMessages(jobs))
    BY <1>1, HeadTail DEF Deliver, ReportInv
  <2>2. ui' = OnEvent(ui, m) /\ UNCHANGED <<shared, jobs>>
    BY <1>1 DEF Deliver, Receive, Become, daemonVars
  <2>3. m \in Messages /\ (m.type = "paymentResult" => Paid(jobs, m.result))
    BY <2>1 DEF PaidMessages
  <2> HIDE DEF m
  <2>4. ui'.lcd \in {ui.lcd, None} \/ (m.type = "paymentResult" /\ ui'.lcd = m.result)
    BY <1>0, <2>2, <2>3, MessageParts DEF OnEvent, GoWaiting, Show, TerminalTypeOK
  <2>5. QED BY <1>0, <2>1, <2>2, <2>3, <2>4 DEF ReportInv
<1>2. CASE Capture \/ Tap
  <2>1. ui'.lcd \in {ui.lcd, None} /\ UNCHANGED <<shared, jobs, toTerm>>
    BY <1>0, <1>2 DEF Capture, StartCapture, Tap, Leave, Become, Dismiss, GoWaiting, Show,
       TerminalTypeOK, facepayVars, daemonVars, linkVars
  <2>2. QED BY <1>0, <2>1 DEF ReportInv
<1>3. CASE Answer
  <2>1. PICK out : FinishCapture(out)
    BY <1>3 DEF Answer
  <2>2. ui'.lcd \in {ui.lcd, None}
    BY <1>0, <2>1 DEF FinishCapture, FaceResult, Dismiss, GoWaiting, Show,
       TerminalTypeOK
  <2>3. QED BY <1>0, <1>3, <2>2 DEF Answer, ReportInv, daemonVars
<1>4. CASE Load
  BY <1>0, <1>4, SnapshotPaid DEF Load, Reload, Connect, FreshUi, daemonVars
<1>5. QED BY <1>1, <1>2, <1>3, <1>4

\* A step of the daemon, which leaves the page alone.
LEMMA ReportHost ==
  ASSUME TypeInv, HoldInv, ReportInv, HostStep \/ Environment \/ UNCHANGED vars
  PROVE  /\ Paid(jobs, shared'.last_payment) /\ ui'.lcd = ui.lcd
         /\ toTerm' \in Seq(PaidMessages(jobs))
<1>0. SharedType /\ LoopType /\ LoopHolds /\ ThreadType
  BY DEF TypeInv, DaemonType
<1>1. ui'.lcd = ui.lcd
  BY DEF HostStep, Environment, terminalVars, vars
<1>2. CASE Payment
  <2>1. PICK j \in DOMAIN jobs : RunPayment(j)
    BY <1>2 DEF Payment
  <2>2. Paid(jobs, JobResult(jobs[j]))
    BY JobResultPaid
  <2>3. CASE CheckBalance(j) \/ PayExecutes(j) \/ PayFails(j)
    <3>1. UNCHANGED <<shared, toTerm>>
      BY <2>3, Zenon DEF CheckBalance, PayExecutes, PayFails, linkVars
    <3>2. QED BY <1>1, <3>1 DEF ReportInv
  <2>4. CASE KeepResult(j)
    BY <1>0, <1>1, <2>2, <2>4 DEF ReportInv, KeepResult, SharedType, linkVars
  <2>5. CASE SendResult(j)
    <3>1. ResultMsg(JobResult(jobs[j])) \in Messages
      BY <1>0, ResultType, MessagesType
    <3>2. ResultMsg(JobResult(jobs[j])) \in PaidMessages(jobs)
      BY <2>2, <3>1 DEF PaidMessages, ResultMsg
    <3>3. QED BY <1>1, <2>5, <3>2, SendPaid DEF SendResult, ReportInv
  <2>6. QED BY <2>1, <2>3, <2>4, <2>5 DEF RunPayment
<1>3. CASE Drop
  <2>1. << >> \in Seq(PaidMessages(jobs))
    OBVIOUS
  <2>2. QED BY <1>1, <1>3, <2>1 DEF Drop, ReportInv, daemonVars
<1>4. CASE \E m \in PaidMessages(jobs) : Send(m) /\ UNCHANGED shared
  BY <1>1, <1>4, SendPaid DEF ReportInv
<1>5. CASE Detect \/ AnnounceRemoval
  <2>1. Detecting \in PaidMessages(jobs) /\ CardRemoved \in PaidMessages(jobs)
    BY MessagesType DEF PaidMessages, Detecting, CardRemoved
  <2>2. QED BY <1>4, <1>5, <2>1 DEF Detect, AnnounceRemoval
<1>6. CASE AnnounceCard
  <2>1. FoundCard \in Cards
    BY <1>0, <1>6 DEF AnnounceCard, FoundCard, Cards, LoopHolds, LoopType
  <2>2. CardMsg(FoundCard) \in PaidMessages(jobs)
    BY <2>1, MessagesType DEF PaidMessages, CardMsg
  <2>3. QED BY <1>4, <1>6, <2>2 DEF AnnounceCard
<1>7. CASE \E o \in Operators : SendMode(o)
  <2>1. PICK o \in Operators : SendMode(o)
    BY <1>7
  <2>2. ops[o].mode \in Modes
    BY <1>0 DEF ThreadType
  <2>3. ModeMsg(ops[o].mode) \in PaidMessages(jobs)
    BY <2>2, MessagesType DEF PaidMessages, ModeMsg
  <2>4. QED BY <1>4, <2>1, <2>3 DEF SendMode
<1>8. CASE \E o \in Operators, mode \in Modes : SetPayMode(o, mode)
  BY <1>0, <1>1, <1>8 DEF SetPayMode, SharedType, ReportInv, linkVars
<1>9. CASE HandleFaceOk \/ PublishCard \/ ForgetCard
  BY <1>0, <1>1, <1>9 DEF HandleFaceOk, PublishCard, ForgetCard, SharedType, ReportInv, linkVars
<1>10. CASE Authenticate \/ Attest \/ AttestFails \/ LookUpBalance
            \/ (\E c \in Idis \cup {None} : MoveCard(c)) \/ UNCHANGED vars
  BY <1>1, <1>10 DEF Authenticate, Attest, AttestFails, LookUpBalance, MoveCard, ReportInv,
     linkVars, daemonVars, facepayVars, vars
<1>11. QED
  BY <1>2, <1>3, <1>5, <1>6, <1>7, <1>8, <1>9, <1>10
  DEF HostStep, Environment, CardLoop, Operate

LEMMA ReportStep == TypeInv /\ HoldInv /\ ReportInv /\ [Next]_vars => ReportInv'
<1> SUFFICES ASSUME TypeInv, HoldInv, ReportInv, [Next]_vars PROVE ReportInv'
  OBVIOUS
<1>1. /\ Paid(jobs, shared'.last_payment) /\ Paid(jobs, ui'.lcd)
      /\ toTerm' \in Seq(PaidMessages(jobs))
  <2>1. CASE Deliver \/ Capture \/ Answer \/ Tap \/ Load
    BY <2>1, ReportPage DEF ReportInv
  <2>2. CASE HostStep \/ Environment \/ UNCHANGED vars
    BY <2>2, ReportHost DEF ReportInv
  <2>3. QED BY <2>1, <2>2 DEF Next
<1>2. QED BY <1>1, JobsGrow, PaidKept DEF ReportInv

\* What is reported as paid was paid, and what is reported as failed was not,
\* unless the chain's answer was lost.
THEOREM ResultsAreTruthfulCorrect == Spec => []ResultsAreTruthful
<1>1. ASSUME TypeInv, HoldInv, ReportInv PROVE ResultsAreTruthful
  <2>1. ASSUME NEW j \in DOMAIN jobs
        PROVE  /\ jobs[j].ok => jobs[j].att # None /\ burned[jobs[j].att.r1] = Made(jobs[j])
               /\ (~jobs[j].ok /\ jobs[j].answered /\ jobs[j].att # None) =>
                    burned[jobs[j].att.r1] = << >>
    BY <1>1, <2>1 DEF HoldInv, JobsInv, JobInv
  <2>2. ASSUME NEW i \in DOMAIN toTerm, toTerm[i].type = "paymentResult"
        PROVE  Paid(jobs, toTerm[i].result)
    <3>1. toTerm[i] \in PaidMessages(jobs)
      BY <1>1, <2>2 DEF ReportInv
    <3>2. QED BY <2>2, <3>1 DEF PaidMessages
  <2>3. Paid(jobs, ui.lcd)
    BY <1>1 DEF ReportInv
  <2>4. QED BY <2>1, <2>2, <2>3 DEF ResultsAreTruthful, Paid, Made
<1>2. Spec => []ReportInv
  BY ReportInit, ReportStep, HoldInvariant, TypeInvariant, PTL DEF Spec
<1>3. QED BY <1>1, <1>2, HoldInvariant, TypeInvariant, PTL

-----------------------------------------------------------------------------
(* The till. What the card loop holds is the last session, and no two payments *)
(* hold the same; so each step of the daemon is one of the till's, or none.    *)

NewestInv == loop.att # None => loop.att.r1 = Len(issued)

LEMMA NewestStep == TypeInv /\ NewestInv /\ [Next]_vars => NewestInv'
<1> SUFFICES ASSUME TypeInv, NewestInv, [Next]_vars PROVE NewestInv'
  OBVIOUS
<1>0. LoopType /\ issued \in Seq(Idis) /\ loop.card \in Idis \cup {None}
  BY DEF TypeInv, DaemonType, LoopType, ChainType
<1>1. CASE Attest
  <2>1. loop'.att = [idi |-> loop.card, r1 |-> Len(issued) + 1]
    BY <1>0, <1>1 DEF Attest, LoopType
  <2>2. Len(issued') = Len(issued) + 1
    BY <1>0, <1>1 DEF Attest
  <2>3. QED BY <2>1, <2>2 DEF NewestInv
<1>2. CASE CardLoop /\ ~Attest
  <2>1. issued' = issued /\ loop'.att \in {loop.att, None}
    BY <1>0, <1>2 DEF CardLoop, Detect, Authenticate, AttestFails, LookUpBalance, PublishCard,
       AnnounceCard, ForgetCard, AnnounceRemoval, chainVars, LoopType
  <2>2. QED BY <2>1 DEF NewestInv
<1>3. CASE ~CardLoop
  BY <1>3, OutsideLoop DEF NewestInv
<1>4. QED BY <1>1, <1>2, <1>3

LEMMA NewestInit == Init => NewestInv
BY DEF Init, FacepayInit, NewestInv

LEMMA TakenInit == jobs = << >> => TakenSessions = {}
BY DEF TakenSessions

LEMMA TakenMember ==
  \A t : t \in TakenSessions <=>
    \E j \in DOMAIN jobs :
      jobs[j].att # None /\ t = [session |-> jobs[j].att.r1, amount |-> jobs[j].amount]
BY DEF TakenSessions

\* A payment goes on and keeps what it holds.
LEMMA TakenKept ==
  ASSUME DOMAIN jobs' = DOMAIN jobs,
         \A j \in DOMAIN jobs : jobs'[j].att = jobs[j].att /\ jobs'[j].amount = jobs[j].amount
  PROVE  TakenSessions' = TakenSessions
<1>1. \A t : t \in TakenSessions' <=>
        \E j \in DOMAIN jobs' :
          jobs'[j].att # None /\ t = [session |-> jobs'[j].att.r1, amount |-> jobs'[j].amount]
  BY DEF TakenSessions
<1>2. \A t : t \in TakenSessions' <=> t \in TakenSessions
  BY <1>1, TakenMember
<1>3. QED BY <1>2

\* A payment starts.
LEMMA TakenMore ==
  ASSUME ThreadType, NEW job, jobs' = Append(jobs, job)
  PROVE  TakenSessions' =
           TakenSessions \cup
             (IF job.att = None THEN {}
              ELSE {[session |-> job.att.r1, amount |-> job.amount]})
<1> DEFINE n == Len(jobs) + 1
           more == IF job.att = None THEN {}
                   ELSE {[session |-> job.att.r1, amount |-> job.amount]}
<1>1. /\ DOMAIN jobs' = DOMAIN jobs \cup {n} /\ jobs'[n] = job /\ n \notin DOMAIN jobs
      /\ \A j \in DOMAIN jobs : jobs'[j] = jobs[j]
  BY DEF ThreadType
<1>2. \A t : t \in TakenSessions' <=>
        \E j \in DOMAIN jobs' :
          jobs'[j].att # None /\ t = [session |-> jobs'[j].att.r1, amount |-> jobs'[j].amount]
  BY DEF TakenSessions
<1>3. \A t : t \in more <=>
        job.att # None /\ t = [session |-> job.att.r1, amount |-> job.amount]
  OBVIOUS
<1> HIDE DEF n, more
<1>4. \A t : t \in TakenSessions' <=> t \in TakenSessions \/ t \in more
  BY <1>1, <1>2, <1>3, TakenMember
<1>5. TakenSessions' = TakenSessions \cup more
  BY <1>4
<1>6. QED BY <1>5 DEF more

\* A step the till does not see.
LEMMA TillStutters ==
  ASSUME shared'.pay_mode = shared.pay_mode, issued' = issued,
         loop'.att = loop.att, shared'.current_att = shared.current_att,
         TakenSessions' = TakenSessions, burned' = burned, balance' = balance
  PROVE  [HostTill!Next]_(HostTill!vars)
BY DEF HostTill!vars, SessionOf

LEMMA TillLoop ==
  ASSUME TypeInv, AnnouncedInv, NewestInv, CardLoop
  PROVE  [HostTill!Next]_(HostTill!vars)
<1>0. LoopType /\ SharedType /\ LoopHolds
  BY DEF TypeInv, DaemonType
<1>1. UNCHANGED <<jobs, burned, balance>>
  BY DEF CardLoop, Detect, Authenticate, Attest, AttestFails, LookUpBalance, PublishCard,
     AnnounceCard, ForgetCard, AnnounceRemoval, chainVars
<1>2. TakenSessions' = TakenSessions
  BY <1>1, TakenKept
<1>3. CASE Attest
  <2>1. loop.card \in Idis /\ Len(issued) + 1 \in MaxR1
    BY <1>0, <1>3, FacepayAssumption
       DEF Attest, LoopHolds, MaxR1, TypeInv, DaemonType, ChainType
  <2>2. loop'.att = [idi |-> loop.card, r1 |-> Len(issued) + 1]
    BY <1>0, <1>3 DEF Attest, LoopType
  <2>3. loop.att = None /\ loop'.att # None
    <3>1. loop'.att \in Attestations
      BY <2>1, <2>2 DEF Attestations
    <3>2. QED BY <1>3, <3>1, NoneAssumption DEF Attest, AnnouncedInv
  <2>4. HostTill!Attest(loop.card)
    BY <1>1, <1>2, <1>3, <2>3 DEF Attest, HostTill!Attest
  <2>5. QED BY <2>1, <2>4 DEF HostTill!Next
<1>4. CASE PublishCard
  <2>1. loop.att # None /\ loop.att.r1 = Len(issued)
    <3>1. loop.att \in Attestations
      BY <1>0, <1>4 DEF PublishCard, LoopHolds
    <3>2. QED BY <3>1, NoneAssumption DEF NewestInv
  <2>2. /\ loop'.att = None /\ shared'.current_att = loop.att
        /\ shared'.pay_mode = shared.pay_mode /\ issued' = issued
    BY <1>0, <1>4 DEF PublishCard, LoopType, SharedType, chainVars
  <2>3. HostTill!Offer
    BY <1>1, <1>2, <2>1, <2>2 DEF HostTill!Offer, SessionOf
  <2>4. QED BY <2>3 DEF HostTill!Next
<1>5. CASE ForgetCard
  <2>1. /\ shared'.current_att = None /\ shared'.pay_mode = shared.pay_mode
        /\ loop'.att = loop.att /\ issued' = issued
    BY <1>0, <1>5 DEF ForgetCard, LoopType, SharedType, chainVars
  <2>2. HostTill!Withdraw
    BY <1>1, <1>2, <2>1 DEF HostTill!Withdraw, SessionOf
  <2>3. QED BY <2>2 DEF HostTill!Next
<1>6. CASE Detect \/ Authenticate \/ AttestFails \/ LookUpBalance \/ AnnounceCard
           \/ AnnounceRemoval
  <2>1. /\ UNCHANGED <<shared, issued>> /\ loop'.att = loop.att
    BY <1>0, <1>6 DEF Detect, Authenticate, AttestFails, LookUpBalance, AnnounceCard,
       AnnounceRemoval, LoopType, chainVars
  <2>2. QED BY <1>1, <1>2, <2>1, TillStutters
<1>7. QED BY <1>3, <1>4, <1>5, <1>6 DEF CardLoop

LEMMA TillFaceOk ==
  ASSUME TypeInv, HoldInv, HandleFaceOk
  PROVE  [HostTill!Next]_(HostTill!vars)
<1>0. SharedType /\ ThreadType /\ UNCHANGED <<loop, issued, burned, balance>>
  BY DEF TypeInv, DaemonType, HandleFaceOk, chainVars
<1>1. CASE shared.pay_mode # None /\ shared.current_idi # None
  <2>1. /\ jobs' = Append(jobs, NewJob) /\ shared'.current_att = None
        /\ shared'.pay_mode = shared.pay_mode
    BY <1>0, <1>1 DEF HandleFaceOk, SharedType
  <2>2. NewJob.att = shared.current_att /\ NewJob.amount = shared.pay_mode
    BY DEF NewJob
  <2>3. TakenSessions' =
          TakenSessions \cup
            (IF shared.current_att = None THEN {}
             ELSE {[session |-> shared.current_att.r1, amount |-> shared.pay_mode]})
    BY <1>0, <2>1, <2>2, TakenMore
  <2>4. CASE shared.current_att = None
    BY <1>0, <2>1, <2>3, <2>4, TillStutters
  <2>5. CASE shared.current_att # None
    <3>1. shared.current_att.r1 \in MaxR1
      BY <1>0, <2>5 DEF SharedType, Attestations
    <3>2. /\ SessionOf(shared.current_att) = shared.current_att.r1
          /\ shared.current_att.r1 # 0
          /\ SessionOf(shared.current_att)' = 0
      BY <2>1, <2>5, <3>1 DEF SessionOf, MaxR1
    <3>3. \A t \in TakenSessions : t.session # shared.current_att.r1
      BY <2>5, TakenMember DEF HoldInv, ApartInv
    <3>4. TakenSessions' = TakenSessions \cup
            {[session |-> SessionOf(shared.current_att), amount |-> shared.pay_mode]}
      BY <2>3, <2>5, <3>2
    <3>5. HostTill!Take
      BY <1>0, <1>1, <2>1, <3>2, <3>3, <3>4 DEF HostTill!Take
    <3>6. QED BY <3>5 DEF HostTill!Next
  <2>6. QED BY <2>4, <2>5
<1>2. CASE ~(shared.pay_mode # None /\ shared.current_idi # None)
  <2>1. UNCHANGED <<jobs, shared>>
    BY <1>2 DEF HandleFaceOk
  <2>2. TakenSessions' = TakenSessions
    BY <2>1, TakenKept
  <2>3. QED BY <1>0, <2>1, <2>2, TillStutters
<1>3. QED BY <1>1, <1>2

LEMMA TillPayment ==
  ASSUME TypeInv, HoldInv, NEW j \in DOMAIN jobs, RunPayment(j)
  PROVE  [HostTill!Next]_(HostTill!vars)
<1>0. SharedType /\ jobs \in Seq(Jobs) /\ jobs[j] \in Jobs
  BY DEF TypeInv, DaemonType, ThreadType
<1>1. CASE PayExecutes(j)
  <2> DEFINE t == [session |-> jobs[j].att.r1, amount |-> jobs[j].amount]
  <2>1. PICK answered \in BOOLEAN :
          jobs' = [jobs EXCEPT ![j].pc = "emit", ![j].ok = answered, ![j].answered = answered]
    BY <1>1, Zenon DEF PayExecutes
  <2>2. TakenSessions' = TakenSessions
    <3>1. /\ DOMAIN jobs' = DOMAIN jobs
          /\ \A k \in DOMAIN jobs :
               jobs'[k].att = jobs[k].att /\ jobs'[k].amount = jobs[k].amount
      BY <1>0, <2>1 DEF Jobs
    <3>2. QED BY <3>1, TakenKept
  <2>3. jobs[j].att # None /\ issued[jobs[j].att.r1] = jobs[j].idi
    BY <1>1 DEF PayExecutes, HoldInv, JobsInv, JobInv, BackedInv, Backed
  <2>4. t \in TakenSessions
    BY <2>3, TakenMember
  <2>5. /\ UNCHANGED <<shared, loop, issued>>
        /\ burned[t.session] = << >> /\ balance[issued[t.session]] >= t.amount
        /\ burned' = [burned EXCEPT ![t.session] =
                        << [wallet |-> issued[t.session], amount |-> t.amount] >>]
        /\ balance' = [balance EXCEPT ![issued[t.session]] = @ - t.amount]
    BY <1>1, <2>3 DEF PayExecutes
  <2> HIDE DEF t
  <2>6. HostTill!Pay(t)
    BY <2>2, <2>5 DEF HostTill!Pay
  <2>7. QED BY <2>4, <2>6 DEF HostTill!Next
<1>2. CASE CheckBalance(j) \/ PayFails(j) \/ KeepResult(j) \/ SendResult(j)
  <2>1. PICK pc \in JobSteps : AdvanceJob(j, pc)
    BY <1>2 DEF CheckBalance, PayFails, KeepResult, SendResult, JobSteps
  <2>2. /\ DOMAIN jobs' = DOMAIN jobs
        /\ \A k \in DOMAIN jobs :
             jobs'[k].att = jobs[k].att /\ jobs'[k].amount = jobs[k].amount
    BY <1>0, <2>1 DEF AdvanceJob, Jobs
  <2>3. TakenSessions' = TakenSessions
    BY <2>2, TakenKept
  <2>4. /\ UNCHANGED <<loop, issued, burned, balance>>
        /\ shared'.pay_mode = shared.pay_mode /\ shared'.current_att = shared.current_att
    BY <1>0, <1>2 DEF CheckBalance, PayFails, KeepResult, SendResult, chainVars, SharedType
  <2>5. QED BY <2>3, <2>4, TillStutters
<1>3. QED BY <1>1, <1>2 DEF RunPayment

LEMMA TillStep ==
  ASSUME TypeInv, AnnouncedInv, HoldInv, NewestInv, [Next]_vars
  PROVE  [HostTill!Next]_(HostTill!vars)
<1>1. CASE CardLoop
  BY <1>1, TillLoop
<1>2. CASE HandleFaceOk
  BY <1>2, TillFaceOk
<1>3. CASE Payment
  BY <1>3, TillPayment DEF Payment
<1>4. CASE Operate
  <2>1. UNCHANGED <<loop, jobs, issued, burned, balance>>
    BY <1>4 DEF Operate, SendMode, SetPayMode, chainVars
  <2>2. TakenSessions' = TakenSessions
    BY <2>1, TakenKept
  <2>3. PICK o \in Operators : SendMode(o) \/ \E mode \in Modes : SetPayMode(o, mode)
    BY <1>4 DEF Operate
  <2>4. CASE SendMode(o)
    BY <2>1, <2>2, <2>4, TillStutters DEF SendMode
  <2>5. ASSUME NEW mode \in Modes, SetPayMode(o, mode)
        PROVE  [HostTill!Next]_(HostTill!vars)
    <3>1. shared'.pay_mode = mode /\ shared'.current_att = shared.current_att
      BY <2>5 DEF SetPayMode, TypeInv, DaemonType, SharedType
    <3>2. HostTill!Ask(mode)
      BY <2>1, <2>2, <3>1 DEF HostTill!Ask, SessionOf
    <3>3. QED BY <3>2 DEF HostTill!Next, Modes
  <2>6. QED BY <2>3, <2>4, <2>5
<1>5. CASE Deliver \/ Capture \/ Answer \/ Tap \/ Load \/ Environment \/ UNCHANGED vars
  <2>1. UNCHANGED <<loop, shared, jobs, issued, burned, balance>>
    BY <1>5 DEF Deliver, Capture, Answer, Tap, Load, Connect, Environment, Drop, MoveCard,
       vars, facepayVars, daemonVars, chainVars
  <2>2. TakenSessions' = TakenSessions
    BY <2>1, TakenKept
  <2>3. QED BY <2>1, <2>2, TillStutters
<1>6. QED BY <1>1, <1>2, <1>3, <1>4, <1>5 DEF Next, HostStep

\* The daemon with its page implements the till: whatever its threads, the link
\* and the person with the cards do, a session is offered, taken and spent once
\* at most, in that order, and the wallet that pays is the one of its card, the
\* amount the one that was asked for when the face was reported.
THEOREM ImplementsTill == Spec => KeepsTill
<1>1. Init => HostTill!Init
  BY TakenInit DEF Init, FacepayInit, HostTill!Init, SessionOf
<1>2. QED
  BY <1>1, TillStep, NewestInit, NewestStep, HoldInvariant, AnnouncedInit, AnnouncedStep,
     TypeInvariant, PTL DEF Spec, KeepsTill, HostTill!Spec
=============================================================================
