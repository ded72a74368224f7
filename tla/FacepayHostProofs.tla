-------------------------- MODULE FacepayHostProofs --------------------------
(* Payments, connections and the page of FacepayHost for any cards, bounds and *)
(* number of connections: what an attestation was issued for is what pays,     *)
(* only a late Close silences a page that is connected, and a page that was    *)
(* told everything shows what the daemon holds unless a named race hid it. The *)
(* daemon implements the till.                                                 *)
EXTENDS FacepayHost, SequenceTheorems, TLAPS

LoopRecords == [pc : {"poll", "session", "attest", "store", "announce", "removed"},
                card : Idis \cup {None}, att : Attestations \cup {None}]
SharedRecords == [pay_mode : Modes, current_idi : Idis \cup {None},
                  current_att : Attestations \cup {None}, term_tx : Nat]
JobRecords == [idi : Idis, amount : Amounts, att : Attestations \cup {None},
               ok : BOOLEAN, link : Nat, told : 0..1,
               pc : {"balance", "pay", "send", "done"}]
SimRecords == [pc : {"store", "announce", "done"}, card : Idis]
ConnRecords == [up : BOOLEAN, reports : Nat, silenced : Nat]

\* The page is a record, whatever it was told.
PageType == \E mode, card, missed, link : page = [link |-> link, mode |-> mode, card |-> card,
                                                  missed |-> missed]

\* The parts of the state that payments depend on.
HostType ==
  /\ reader \in Idis \cup {None} /\ last_idm \in Idis \cup {None}
  /\ loop \in LoopRecords
  /\ loop.pc \in {"session", "attest", "store", "announce"} => loop.card \in Idis
  /\ shared \in SharedRecords
  /\ sims \in Seq(SimRecords)
  /\ conns \in Seq(ConnRecords)
  /\ jobs \in Seq(JobRecords)
  /\ \A j \in DOMAIN jobs : jobs[j].pc # "done" => jobs[j].told = 0
  /\ issued \in Seq(Idis) /\ Len(issued) <= MaxTaps
  /\ DOMAIN burned = MaxR1

\* Changing one entry of a sequence.
LEMMA EntryChange ==
  ASSUME NEW S, NEW s \in Seq(S), NEW i, NEW e \in S
  PROVE  /\ [s EXCEPT ![i] = e] \in Seq(S) /\ Len([s EXCEPT ![i] = e]) = Len(s)
         /\ DOMAIN [s EXCEPT ![i] = e] = DOMAIN s
<1> DEFINE n == Len(s)
<1>1. n \in Nat /\ s \in [1..n -> S]
  OBVIOUS
<1>2. [s EXCEPT ![i] = e] \in [1..n -> S]
  BY <1>1
<1>3. QED BY <1>1, <1>2

LEMMA HostInit == Init => HostType
<1> SUFFICES ASSUME Init PROVE HostType
  OBVIOUS
<1>1. /\ << >> \in Seq(SimRecords) /\ << >> \in Seq(ConnRecords)
      /\ << >> \in Seq(JobRecords) /\ << >> \in Seq(Idis) /\ Len(<< >>) <= MaxTaps
  BY HostAssumption
<1>2. QED BY <1>1 DEF Init, HostType, LoopRecords, SharedRecords, Modes

\* felica_loop and the operator's commands, which start no payment.
LEMMA LoopType == HostType /\ (FelicaLoop \/ Commands \/ Sending \/ Simulate) => HostType'
<1> SUFFICES ASSUME HostType, FelicaLoop \/ Commands \/ Sending \/ Simulate PROVE HostType'
  OBVIOUS
<1> USE DEF HostType, LoopRecords, SharedRecords
<1>1. CASE Poll \/ Authenticate \/ ReadFails
  BY <1>1 DEF Poll, Authenticate, ReadFails, SessionEnds, linkVars, chainVars
<1>2. CASE ReadCard
  <2>1. CASE loop.card = last_idm
    BY <1>2, <2>1 DEF ReadCard, linkVars
  <2>2. CASE loop.card # last_idm
    <3>1. /\ Len(issued) < MaxTaps /\ issued' = Append(issued, loop.card)
          /\ last_idm' = loop.card /\ loop.card \in Idis
          /\ loop' = [loop EXCEPT !.pc = "store",
                                  !.att = [idi |-> loop.card, r1 |-> Len(issued) + 1]]
          /\ UNCHANGED <<reader, shared, sims, conns, jobs, burned>>
      BY <1>2, <2>2 DEF ReadCard, linkVars
    <3>2. [idi |-> loop.card, r1 |-> Len(issued) + 1] \in Attestations
      BY <3>1, HostAssumption DEF Attestations, MaxR1
    <3>3. issued' \in Seq(Idis) /\ Len(issued') <= MaxTaps
      BY <3>1, HostAssumption
    <3>4. QED BY <3>1, <3>2, <3>3
  <2>3. QED BY <2>1, <2>2
<1>3. CASE PublishCard
  BY <1>3 DEF PublishCard, StoreCard, linkVars, chainVars
<1>4. CASE AnnounceCard \/ AnnounceRemoval
  <2>1. CASE AnnounceCard
    BY <1>4, <2>1, Zenon DEF AnnounceCard, Send, chainVars
  <2>2. CASE AnnounceRemoval
    BY <1>4, <2>2, Zenon DEF AnnounceRemoval, Send, chainVars
  <2>3. QED BY <1>4, <2>1, <2>2
<1>5. CASE ForgetCard
  BY <1>5 DEF ForgetCard, Forget, StoreCard, linkVars, chainVars
<1>6. CASE Commands
  <2>1. ASSUME NEW mode \in Modes, SetMode(mode) PROVE HostType'
    BY <2>1 DEF SetMode, readerVars, linkVars, chainVars
  <2>2. ASSUME NEW c \in Idis, TestCard(c) PROVE HostType'
    <3>1. [pc |-> "store", card |-> c] \in SimRecords
      BY DEF SimRecords
    <3>2. sims' \in Seq(SimRecords)
      BY <2>2, <3>1 DEF TestCard
    <3>3. QED BY <2>2, <3>2 DEF TestCard, readerVars, linkVars, chainVars
  <2>3. CASE Remove
    BY <2>3 DEF Remove, StoreCard, readerVars, linkVars, chainVars
  <2>4. QED BY <1>6, <2>1, <2>2, <2>3 DEF Commands
<1>7. CASE Sending
  BY <1>7 DEF Sending, SendMode, SendRemoved, Send, readerVars, chainVars
<1>8. CASE Simulate
  <2>1. PICK i \in DOMAIN sims : PublishSim(i) \/ AnnounceSim(i)
    BY <1>8 DEF Simulate
  <2>2. sims[i] \in SimRecords
    OBVIOUS
  <2>3. ASSUME NEW pc \in {"announce", "done"}, sims' = [sims EXCEPT ![i].pc = pc]
        PROVE  sims' \in Seq(SimRecords)
    <3>1. [sims[i] EXCEPT !.pc = pc] \in SimRecords
      BY <2>2 DEF SimRecords
    <3>2. sims' = [sims EXCEPT ![i] = [sims[i] EXCEPT !.pc = pc]]
      BY <2>3
    <3>3. QED BY <3>1, <3>2
  <2>4. CASE PublishSim(i)
    <3>1. sims' \in Seq(SimRecords) /\ sims[i].card \in Idis
      BY <2>2, <2>3, <2>4 DEF PublishSim, StoreSim, SimRecords
    <3>2. shared' \in SharedRecords
      BY <2>4, <3>1 DEF PublishSim, StoreSim, StoreCard
    <3>3. QED BY <2>4, <3>1, <3>2 DEF PublishSim, StoreSim, readerVars, linkVars, chainVars
  <2>5. CASE AnnounceSim(i)
    BY <2>3, <2>5 DEF AnnounceSim, Send, readerVars, chainVars
  <2>6. QED BY <2>1, <2>4, <2>5
<1>9. QED BY <1>1, <1>2, <1>3, <1>4, <1>5, <1>6, <1>7, <1>8 DEF FelicaLoop

\* Connections, and the payment a faceOk starts.
LEMMA LinkStepType == HostType /\ Link => HostType'
<1> SUFFICES ASSUME HostType, Link PROVE HostType'
  OBVIOUS
<1> USE DEF HostType, SharedRecords
<1>1. ASSUME NEW new \in BOOLEAN, Connect(new) PROVE HostType'
  <2>1. [up |-> TRUE, reports |-> 0, silenced |-> 0] \in ConnRecords /\ Len(conns) + 1 \in Nat
    BY DEF ConnRecords
  <2>2. conns' \in Seq(ConnRecords)
    BY <1>1, <2>1 DEF Connect, Register
  <2>3. shared' \in SharedRecords
    BY <1>1, <2>1 DEF Connect, Register
  <2>4. QED BY <1>1, <2>2, <2>3 DEF Connect, Register, readerVars, chainVars
<1>2. CASE Deliver \/ Disconnect
  BY <1>2 DEF Deliver, Disconnect, readerVars, chainVars
<1>3. CASE Report
  <2>1. conns' \in Seq(ConnRecords)
    <3>1. CASE page.link \in DOMAIN conns
      <4>0. conns[page.link] \in ConnRecords
        BY <3>1
      <4>1. conns[page.link] \in ConnRecords /\ conns[page.link].reports + 1 \in Nat
        BY <4>0 DEF ConnRecords
      <4>2. [conns[page.link] EXCEPT !.reports = @ + 1] \in ConnRecords
        BY <4>1, Zenon DEF ConnRecords
      <4>3. conns' = [conns EXCEPT ![page.link] = [conns[page.link] EXCEPT !.reports = @ + 1]]
        BY <1>3 DEF Report
      <4>4. QED BY <4>2, <4>3, EntryChange
    <3>2. CASE page.link \notin DOMAIN conns
      <4>1. conns' = conns
        BY <1>3, <3>2 DEF Report
      <4>2. QED BY <4>1
    <3>3. QED BY <3>1, <3>2
  <2>2. QED BY <1>3, <2>1 DEF Report, readerVars, chainVars
<1>4. ASSUME NEW i \in DOMAIN conns, ConnectionEnds(i) PROVE HostType'
  <2>1. conns' \in Seq(ConnRecords)
    <3> DEFINE closed == [conns[i] EXCEPT !.up = FALSE, !.silenced = Len(conns)]
               broken == [conns[i] EXCEPT !.up = FALSE]
    <3>1. conns \in Seq(ConnRecords) /\ conns[i] \in ConnRecords /\ Len(conns) \in Nat
      OBVIOUS
    <3>2. closed \in ConnRecords /\ broken \in ConnRecords
      BY <3>1, Zenon DEF ConnRecords
    <3>3. conns' = [conns EXCEPT ![i] = closed] \/ conns' = [conns EXCEPT ![i] = broken]
      BY <3>1, <1>4 DEF ConnectionEnds
    <3> HIDE DEF closed, broken
    <3>4. /\ [conns EXCEPT ![i] = closed] \in Seq(ConnRecords)
          /\ [conns EXCEPT ![i] = broken] \in Seq(ConnRecords)
      BY <3>1, <3>2, EntryChange
    <3>5. QED BY <3>3, <3>4
  <2>2. shared' \in SharedRecords
    BY <1>4 DEF ConnectionEnds
  <2>3. QED BY <1>4, <2>1, <2>2 DEF ConnectionEnds, readerVars, chainVars
<1>5. ASSUME NEW i \in DOMAIN conns, HandleFaceOk(i) PROVE HostType'
  <2>0. conns' \in Seq(ConnRecords)
    <3>1. conns[i] \in ConnRecords /\ conns[i].reports > 0
      BY <1>5 DEF HandleFaceOk, TakeReport
    <3>2. [conns[i] EXCEPT !.reports = @ - 1] \in ConnRecords
      <4>1. conns[i].reports - 1 \in Nat
        BY <3>1 DEF ConnRecords
      <4>2. QED BY <3>1, <4>1, Zenon DEF ConnRecords
    <3>3. conns' = [conns EXCEPT ![i] = [conns[i] EXCEPT !.reports = @ - 1]]
      BY <1>5 DEF HandleFaceOk, TakeReport
    <3>4. QED BY <3>2, <3>3, EntryChange
  <2>1. CASE shared.pay_mode # None /\ shared.current_idi # None
    <3>1. NewJob(i) \in JobRecords /\ NewJob(i).told = 0
      BY <2>1 DEF NewJob, JobRecords, Modes
    <3>2. /\ jobs' = Append(jobs, NewJob(i)) /\ shared' = [shared EXCEPT !.current_att = None]
          /\ UNCHANGED <<reader, readerVars, sims, chainVars>>
      BY <1>5, <2>1 DEF HandleFaceOk, TakeReport
    <3>3. \A j \in DOMAIN jobs' : jobs'[j].pc # "done" => jobs'[j].told = 0
      BY <3>1, <3>2
    <3>4. jobs' \in Seq(JobRecords)
      BY <3>1, <3>2
    <3>5. shared' \in SharedRecords
      BY <3>2
    <3>6. QED BY <2>0, <3>2, <3>3, <3>4, <3>5 DEF readerVars, chainVars
  <2>2. CASE ~(shared.pay_mode # None /\ shared.current_idi # None)
    BY <1>5, <2>0, <2>2 DEF HandleFaceOk, TakeReport, readerVars, chainVars
  <2>3. QED BY <2>1, <2>2
<1>6. QED BY <1>1, <1>2, <1>3, <1>4, <1>5 DEF Link

\* A thread of a payment: its job goes on, and holds what it held.
LEMMA PaymentType ==
  ASSUME HostType, NEW j \in DOMAIN jobs, RunPayment(j)
  PROVE  /\ HostType' /\ DOMAIN jobs' = DOMAIN jobs
         /\ \A k \in DOMAIN jobs : k # j => jobs'[k] = jobs[k]
         /\ jobs'[j].att = jobs[j].att /\ jobs'[j].idi = jobs[j].idi
         /\ jobs'[j].pc = "pay" => jobs[j].pc = "balance"
         /\ jobs'[j].pc # "balance"
         /\ ~PayExecutes(j) => (jobs'[j].ok <=> jobs[j].ok)
<1> DEFINE Updated(job) ==
      /\ job \in JobRecords /\ jobs' = [jobs EXCEPT ![j] = job]
      /\ job.att = jobs[j].att /\ job.idi = jobs[j].idi
      /\ job.pc # "balance" /\ (job.pc = "pay" => jobs[j].pc = "balance")
      /\ job.pc # "done" => job.told = 0
      /\ ~PayExecutes(j) => (job.ok <=> jobs[j].ok)
<1>0. /\ jobs \in Seq(JobRecords) /\ jobs[j] \in JobRecords
      /\ jobs[j].pc # "done" => jobs[j].told = 0
  BY DEF HostType
<1>1. \E job : Updated(job)
  <2>1. CASE CheckBalance(j)
    <3>1. PICK pc \in {"pay", "send"} : jobs' = [jobs EXCEPT ![j].pc = pc]
      BY <2>1 DEF CheckBalance, AskBalance
    <3> DEFINE job == [jobs[j] EXCEPT !.pc = pc]
    <3>2. jobs' = [jobs EXCEPT ![j] = job] /\ jobs[j].pc = "balance"
      BY <2>1, <3>1 DEF CheckBalance, AskBalance
    <3>3. /\ job \in JobRecords /\ job.att = jobs[j].att /\ job.idi = jobs[j].idi
          /\ job.pc = pc /\ job.told = jobs[j].told /\ (job.ok <=> jobs[j].ok)
      BY <1>0 DEF JobRecords
    <3> HIDE DEF job
    <3>4. QED BY <1>0, <3>2, <3>3
  <2>2. CASE PayFails(j)
    <3> DEFINE job == [jobs[j] EXCEPT !.pc = "send"]
    <3>2. jobs' = [jobs EXCEPT ![j] = job] /\ jobs[j].pc = "pay"
      BY <2>2 DEF PayFails
    <3>3. /\ job \in JobRecords /\ job.att = jobs[j].att /\ job.idi = jobs[j].idi
          /\ job.pc = "send" /\ job.told = jobs[j].told /\ (job.ok <=> jobs[j].ok)
      BY <1>0 DEF JobRecords
    <3> HIDE DEF job
    <3>4. QED BY <1>0, <3>2, <3>3
  <2>3. CASE PayExecutes(j)
    <3>1. PICK heard \in BOOLEAN : jobs' = [jobs EXCEPT ![j].pc = "send", ![j].ok = heard]
      BY <2>3 DEF PayExecutes
    <3> DEFINE job == [jobs[j] EXCEPT !.pc = "send", !.ok = heard]
    <3>2. jobs' = [jobs EXCEPT ![j] = job] /\ jobs[j].pc = "pay"
      BY <1>0, <2>3, <3>1 DEF PayExecutes
    <3>3. /\ job \in JobRecords /\ job.att = jobs[j].att /\ job.idi = jobs[j].idi
          /\ job.pc = "send" /\ job.told = jobs[j].told
      BY <1>0 DEF JobRecords
    <3> HIDE DEF job
    <3>4. QED BY <1>0, <2>3, <3>2, <3>3
  <2>4. CASE SendResult(j)
    <3> DEFINE job == [jobs[j] EXCEPT !.pc = "done", !.told = IF Tellable THEN @ + 1 ELSE @]
    <3>2. jobs' = [jobs EXCEPT ![j] = job] /\ jobs[j].pc = "send"
      BY <1>0, <2>4 DEF SendResult
    <3>3. /\ job \in JobRecords /\ job.att = jobs[j].att /\ job.idi = jobs[j].idi
          /\ job.pc = "done" /\ (job.ok <=> jobs[j].ok)
      <4>1. (IF Tellable THEN jobs[j].told + 1 ELSE jobs[j].told) \in 0..1
        BY <1>0, <3>2
      <4>2. QED BY <1>0, <4>1, Zenon DEF JobRecords
    <3> HIDE DEF job
    <3>4. QED BY <3>2, <3>3
  <2>5. QED BY <2>1, <2>2, <2>3, <2>4 DEF RunPayment
<1>2. PICK job : Updated(job)
  BY <1>1
<1>3. /\ jobs' \in Seq(JobRecords) /\ DOMAIN jobs' = DOMAIN jobs /\ jobs'[j] = job
      /\ \A k \in DOMAIN jobs : k # j => jobs'[k] = jobs[k]
  BY <1>0, <1>2
<1>4. /\ UNCHANGED <<reader, readerVars, shared, sims, conns, issued>>
      /\ DOMAIN burned' = DOMAIN burned
  BY DEF RunPayment, CheckBalance, AskBalance, PayFails, PayExecutes, SendResult, Send,
     linkVars, chainVars
<1>5. \A k \in DOMAIN jobs' : jobs'[k].pc # "done" => jobs'[k].told = 0
  BY <1>2, <1>3 DEF HostType
<1>6. HostType'
  BY <1>3, <1>4, <1>5 DEF HostType, readerVars
<1>7. QED BY <1>2, <1>3, <1>6

LEMMA HostStep == HostType /\ [Next]_vars => HostType'
<1> SUFFICES ASSUME HostType, [Next]_vars PROVE HostType'
  OBVIOUS
<1>1. CASE FelicaLoop \/ Commands \/ Sending \/ Simulate
  BY <1>1, LoopType
<1>2. CASE Link
  BY <1>2, LinkStepType
<1>3. CASE \E j \in DOMAIN jobs : RunPayment(j)
  BY <1>3, PaymentType
<1>4. CASE (\E c \in Idis \cup {None} : MoveCard(c)) \/ UNCHANGED vars
  BY <1>4 DEF MoveCard, HostType, readerVars, linkVars, chainVars, vars
<1>5. QED BY <1>1, <1>2, <1>3, <1>4 DEF Next

LEMMA HostTyped == Spec => []HostType
<1>1. QED BY HostInit, HostStep, PTL DEF Spec

-----------------------------------------------------------------------------
(* Where attestations go.                                                     *)

Backed(att) == att.r1 \in 1..Len(issued) /\ issued[att.r1] = att.idi

TapInv ==
  /\ loop.att # None <=> loop.pc = "store"
  /\ loop.pc = "store" =>
       Backed(loop.att) /\ loop.att.idi = loop.card /\ last_idm = loop.card
  /\ shared.current_att # None => Backed(shared.current_att)
  /\ AttestationOfLastTap

LEMMA TapInit == Init => TapInv
BY DEF Init, TapInv, AttestationOfLastTap

\* A step that issues nothing leaves what is backed backed.
LEMMA TapFrame ==
  ASSUME TapInv, UNCHANGED <<last_idm, issued>>,
         loop'.pc # "store", loop'.att = None, loop.pc # "store",
         \/ shared'.current_att = None
         \/ /\ shared'.current_att = shared.current_att
            /\ shared'.current_idi = shared.current_idi
  PROVE  TapInv'
BY DEF TapInv, AttestationOfLastTap, Backed

\* A step of another thread.
LEMMA TapOthers ==
  ASSUME TapInv, UNCHANGED <<loop, last_idm, issued>>,
         \/ shared'.current_att = None
         \/ /\ shared'.current_att = shared.current_att
            /\ shared'.current_idi = shared.current_idi
  PROVE  TapInv'
BY DEF TapInv, AttestationOfLastTap, Backed

LEMMA TapLoop == HostType /\ TapInv /\ FelicaLoop => TapInv'
<1> SUFFICES ASSUME HostType, TapInv, FelicaLoop PROVE TapInv'
  OBVIOUS
<1>0. /\ loop \in LoopRecords /\ shared \in SharedRecords /\ issued \in Seq(Idis)
      /\ loop.pc \in {"session", "attest", "store", "announce"} => loop.card \in Idis
      /\ loop.pc # "store" => loop.att = None
  BY DEF HostType, TapInv
<1>1. CASE Poll \/ Authenticate \/ ReadFails \/ AnnounceCard \/ AnnounceRemoval
  <2>1. /\ loop.pc # "store" /\ loop'.pc # "store" /\ loop'.att = None
        /\ UNCHANGED <<last_idm, issued, shared>>
    BY <1>0, <1>1 DEF Poll, Authenticate, ReadFails, SessionEnds, AnnounceCard,
       AnnounceRemoval, LoopRecords, chainVars
  <2>2. QED BY <2>1, TapFrame
<1>2. CASE ReadCard /\ loop.card = last_idm
  <2>1. /\ loop.pc # "store" /\ loop'.pc # "store" /\ loop'.att = None
        /\ UNCHANGED <<last_idm, issued, shared>>
    BY <1>0, <1>2 DEF ReadCard, LoopRecords
  <2>2. QED BY <2>1, TapFrame
<1>3. CASE ReadCard /\ loop.card # last_idm
  <2> DEFINE new == [idi |-> loop.card, r1 |-> Len(issued) + 1]
  <2>1. /\ loop'.pc = "store" /\ loop'.att = new /\ loop'.card = loop.card
        /\ last_idm' = loop.card /\ issued' = Append(issued, loop.card)
        /\ UNCHANGED shared /\ loop.card \in Idis
    BY <1>0, <1>3 DEF ReadCard, LoopRecords
  <2>2. /\ Len(issued) \in Nat /\ Len(issued') = Len(issued) + 1
        /\ issued'[Len(issued) + 1] = loop.card
        /\ \A i \in 1..Len(issued) : issued'[i] = issued[i]
    BY <1>0, <2>1
  <2>3. new \in [idi : Idis, r1 : Nat] /\ new \in Attestations
    BY <1>0, <1>3, <2>1, <2>2, HostAssumption DEF ReadCard, Attestations, MaxR1
  <2>4. new # None
    BY <2>3, NoneAssumption
  <2>5. new.idi = loop.card /\ new.r1 = Len(issued) + 1
    OBVIOUS
  <2> HIDE DEF new
  <2>6. new.r1 \in 1..Len(issued') /\ issued'[new.r1] = new.idi
    BY <2>2, <2>5
  <2>7. shared.current_att # None =>
          /\ shared.current_att.r1 \in 1..Len(issued')
          /\ issued'[shared.current_att.r1] = shared.current_att.idi
          /\ shared.current_att.idi = shared.current_idi
    BY <2>2 DEF TapInv, AttestationOfLastTap, Backed
  <2>8. QED BY <2>1, <2>4, <2>5, <2>6, <2>7 DEF TapInv, AttestationOfLastTap, Backed
<1>4. CASE PublishCard
  <2>1. /\ loop.pc = "store" /\ loop'.pc = "announce" /\ loop'.att = None
        /\ shared'.current_att = loop.att /\ shared'.current_idi = loop.card
        /\ UNCHANGED <<last_idm, issued>>
    BY <1>0, <1>4 DEF PublishCard, StoreCard, LoopRecords, SharedRecords, chainVars
  <2>2. QED BY <2>1 DEF TapInv, AttestationOfLastTap, Backed
<1>5. CASE ForgetCard
  <2>1. /\ loop.pc = "poll" /\ loop'.pc = "removed" /\ loop'.att = None
        /\ shared'.current_att = None /\ UNCHANGED issued
    BY <1>0, <1>5 DEF ForgetCard, Forget, NoCardFound, StoreCard, LoopRecords, SharedRecords,
       chainVars
  <2>2. QED BY <2>1 DEF TapInv, AttestationOfLastTap
<1>6. QED BY <1>1, <1>2, <1>3, <1>4, <1>5 DEF FelicaLoop

LEMMA TapStep == HostType /\ TapInv /\ [Next]_vars => TapInv'
<1> SUFFICES ASSUME HostType, TapInv, [Next]_vars PROVE TapInv'
  OBVIOUS
<1>0. shared \in SharedRecords
  BY DEF HostType
<1>1. CASE FelicaLoop
  BY <1>1, TapLoop
<1>2. CASE Commands \/ Sending \/ Simulate
  <2>1. /\ UNCHANGED <<loop, last_idm, issued>>
        /\ \/ shared'.current_att = None
           \/ /\ shared'.current_att = shared.current_att
              /\ shared'.current_idi = shared.current_idi
    BY <1>0, <1>2 DEF Commands, SetMode, TestCard, Remove, Sending, SendMode, SendRemoved,
       Simulate, PublishSim, StoreSim, AnnounceSim, StoreCard, SharedRecords, readerVars,
       chainVars
  <2>2. QED BY <2>1, TapOthers
<1>3. CASE Link
  <2>1. /\ UNCHANGED <<loop, last_idm, issued>>
        /\ \/ shared'.current_att = None
           \/ /\ shared'.current_att = shared.current_att
              /\ shared'.current_idi = shared.current_idi
    BY <1>0, <1>3 DEF Link, Connect, Register, Deliver, Disconnect, Report, ConnectionEnds,
       HandleFaceOk, TakeReport, SharedRecords, readerVars, chainVars
  <2>2. QED BY <2>1, TapOthers
<1>4. CASE (\E j \in DOMAIN jobs : RunPayment(j)) \/ UNCHANGED vars
           \/ \E c \in Idis \cup {None} : MoveCard(c)
  <2>1. UNCHANGED <<loop, last_idm, issued, shared>>
    BY <1>4 DEF RunPayment, CheckBalance, AskBalance, PayExecutes, PayFails, SendResult,
       MoveCard, readerVars, chainVars, vars
  <2>2. QED BY <2>1, TapOthers
<1>5. QED BY <1>1, <1>2, <1>3, <1>4 DEF Next

LEMMA TapInvariant == Spec => []TapInv
<1>1. QED BY TapInit, TapStep, HostTyped, PTL DEF Spec

\* Only the card loop's last card has an attestation in Shared.
THEOREM AttestationOfLastTapCorrect == Spec => []AttestationOfLastTap
<1>1. TapInv => AttestationOfLastTap
  BY DEF TapInv
<1>2. QED BY <1>1, TapInvariant, PTL

-----------------------------------------------------------------------------
(* Payments. A job holds the attestation of its own card, and whoever was     *)
(* tapped takes both with the face.                                           *)

JobInv(j) ==
  /\ jobs[j].att # None => Backed(jobs[j].att) /\ jobs[j].att.idi = jobs[j].idi
  /\ jobs[j].pc \in {"balance", "pay"} => jobs[j].att # None
  /\ jobs[j].ok => jobs[j].att # None /\ burned[jobs[j].att.r1] # << >>

PayInv ==
  /\ \A j \in DOMAIN jobs : JobInv(j)
  /\ \A r \in MaxR1 : \A i \in DOMAIN burned[r] :
       r \in 1..Len(issued) /\ burned[r][i].wallet = issued[r]

LEMMA PayInit == Init => PayInv
BY DEF Init, PayInv

\* What is backed, and what was burned, stays so as more is issued.
LEMMA IssueKeeps ==
  ASSUME HostType, [Next]_vars
  PROVE  /\ \A att : Backed(att) => att.r1 \in 1..Len(issued') /\ issued'[att.r1] = att.idi
         /\ \A r \in 1..Len(issued) : r \in 1..Len(issued') /\ issued'[r] = issued[r]
<1>0. issued \in Seq(Idis)
  BY DEF HostType
<1>1. issued' = issued \/ \E c \in Idis : issued' = Append(issued, c)
  <2>1. CASE ReadCard
    BY <2>1 DEF ReadCard, HostType
  <2>2. CASE ~ReadCard
    BY <2>2 DEF Next, FelicaLoop, Poll, Authenticate, ReadFails, SessionEnds, PublishCard,
       AnnounceCard, ForgetCard, Forget, AnnounceRemoval, Commands, SetMode, TestCard, Remove,
       Sending, SendMode, SendRemoved, Simulate, PublishSim, StoreSim, AnnounceSim, Link,
       Connect, Register, Deliver, Disconnect, Report, ConnectionEnds, HandleFaceOk,
       TakeReport, RunPayment, CheckBalance, AskBalance, PayExecutes, PayFails, SendResult,
       MoveCard, chainVars, vars
  <2>3. QED BY <2>1, <2>2
<1>2. \A r \in 1..Len(issued) : r \in 1..Len(issued') /\ issued'[r] = issued[r]
  BY <1>0, <1>1
<1>3. QED BY <1>2 DEF Backed

LEMMA PayFrame ==
  ASSUME HostType, PayInv, [Next]_vars, UNCHANGED <<jobs, burned>>
  PROVE  PayInv'
<1>1. ASSUME NEW j \in DOMAIN jobs PROVE JobInv(j)'
  <2>1. JobInv(j)
    BY DEF PayInv
  <2>2. QED BY <2>1, IssueKeeps DEF JobInv, Backed
<1>2. ASSUME NEW r \in MaxR1, NEW i \in DOMAIN burned'[r]
      PROVE  r \in 1..Len(issued') /\ burned'[r][i].wallet = issued'[r]
  BY <1>2, IssueKeeps DEF PayInv
<1>3. QED BY <1>1, <1>2 DEF PayInv

LEMMA PayFaceOk ==
  ASSUME HostType, TapInv, PayInv, NEW i \in DOMAIN conns, HandleFaceOk(i)
  PROVE  PayInv'
<1>0. jobs \in Seq(JobRecords) /\ UNCHANGED <<issued, burned>>
  BY DEF HostType, HandleFaceOk, TakeReport, chainVars
<1>1. CASE UNCHANGED jobs
  BY <1>0, <1>1 DEF PayInv, JobInv, Backed
<1>2. CASE jobs' = Append(jobs, NewJob(i))
  <2>1. ASSUME NEW j \in DOMAIN jobs' PROVE JobInv(j)'
    <3>1. CASE j \in DOMAIN jobs
      <4>1. jobs'[j] = jobs[j] /\ JobInv(j)
        BY <1>0, <1>2, <3>1 DEF PayInv
      <4>2. QED BY <1>0, <4>1 DEF JobInv, Backed
    <3>2. CASE j = Len(jobs) + 1
      <4>1. jobs'[j] = NewJob(i)
        BY <1>0, <1>2, <3>2
      <4>2. /\ NewJob(i).att = shared.current_att /\ NewJob(i).idi = shared.current_idi
            /\ ~NewJob(i).ok
            /\ NewJob(i).pc \in {"balance", "pay"} => shared.current_att # None
        BY DEF NewJob
      <4>3. shared.current_att # None =>
              Backed(shared.current_att) /\ shared.current_att.idi = shared.current_idi
        BY DEF TapInv, AttestationOfLastTap
      <4>4. QED BY <1>0, <4>1, <4>2, <4>3 DEF JobInv, Backed
    <3>3. QED BY <1>0, <1>2, <3>1, <3>2
  <2>2. QED BY <1>0, <2>1 DEF PayInv
<1>3. QED BY <1>1, <1>2 DEF HandleFaceOk, TakeReport

LEMMA PayRuns ==
  ASSUME HostType, PayInv, NEW j \in DOMAIN jobs, RunPayment(j)
  PROVE  PayInv'
<1> DEFINE r == jobs[j].att.r1
<1>0. /\ jobs \in Seq(JobRecords) /\ jobs[j] \in JobRecords /\ DOMAIN burned = MaxR1
      /\ UNCHANGED issued /\ JobInv(j)
  <2>1. jobs \in Seq(JobRecords) /\ DOMAIN burned = MaxR1
    BY DEF HostType
  <2>2. jobs[j] \in JobRecords
    BY <2>1
  <2>3. UNCHANGED issued
    BY DEF RunPayment, CheckBalance, AskBalance, PayExecutes, PayFails, SendResult, chainVars
  <2>4. JobInv(j)
    BY DEF PayInv
  <2>5. QED BY <2>1, <2>2, <2>3, <2>4
<1>1. /\ DOMAIN jobs' = DOMAIN jobs /\ \A k \in DOMAIN jobs : k # j => jobs'[k] = jobs[k]
      /\ jobs'[j].att = jobs[j].att /\ jobs'[j].idi = jobs[j].idi
      /\ jobs'[j].pc \in {"balance", "pay"} => jobs[j].pc = "balance"
      /\ ~PayExecutes(j) => (jobs'[j].ok <=> jobs[j].ok)
  BY PaymentType
<1>2. CASE PayExecutes(j)
  <2>1. jobs[j].att # None /\ Backed(jobs[j].att) /\ jobs[j].att.idi = jobs[j].idi
    BY <1>0, <1>2 DEF PayExecutes, JobInv
  <2>2. jobs[j].att \in Attestations
    BY <1>0, <2>1 DEF JobRecords
  <2>3. r \in MaxR1 /\ r \in 1..Len(issued) /\ issued[r] = jobs[j].idi
    BY <2>1, <2>2 DEF Attestations, Backed
  <2>4. burned' = [burned EXCEPT ![r] = << [wallet |-> jobs[j].idi, amount |-> jobs[j].amount] >>]
    BY <1>2 DEF PayExecutes
  <2>5. /\ burned'[r] = << [wallet |-> jobs[j].idi, amount |-> jobs[j].amount] >>
        /\ \A q \in MaxR1 : q # r => burned'[q] = burned[q]
    BY <1>0, <2>3, <2>4
  <2>6. \A q : burned[q] # << >> => burned'[q] # << >>
    BY <1>0, <2>4
  <2>7. ASSUME NEW k \in DOMAIN jobs' PROVE JobInv(k)'
    <3>1. CASE k = j
      <4>1. jobs'[j].att = jobs[j].att /\ jobs'[j].idi = jobs[j].idi /\ issued' = issued
        BY <1>0, <1>1
      <4>2. burned'[jobs[j].att.r1] # << >>
        BY <2>5
      <4>3. JobInv(j)'
        BY <2>1, <4>1, <4>2 DEF JobInv, Backed
      <4>4. QED BY <3>1, <4>3 DEF JobInv, Backed
    <3>2. CASE k # j
      <4>1. JobInv(k) /\ jobs'[k] = jobs[k]
        BY <1>1, <2>7, <3>2 DEF PayInv
      <4>2. QED BY <1>0, <2>6, <4>1 DEF JobInv, Backed
    <3>3. QED BY <3>1, <3>2
  <2>8. ASSUME NEW q \in MaxR1, NEW i \in DOMAIN burned'[q]
        PROVE  q \in 1..Len(issued') /\ burned'[q][i].wallet = issued'[q]
    <3>1. CASE q = r
      <4>1. i = 1
        BY <2>5, <2>8, <3>1
      <4>2. QED BY <1>0, <2>3, <2>5, <3>1, <4>1
    <3>2. CASE q # r
      BY <1>0, <2>5, <2>8, <3>2 DEF PayInv
    <3>3. QED BY <3>1, <3>2
  <2>9. QED BY <2>7, <2>8 DEF PayInv
<1>3. CASE ~PayExecutes(j)
  <2>1. UNCHANGED burned
    BY <1>3 DEF RunPayment, CheckBalance, AskBalance, PayFails, SendResult, chainVars
  <2>2. ASSUME NEW k \in DOMAIN jobs' PROVE JobInv(k)'
    <3>1. CASE k = j
      <4>1. /\ jobs'[j].ok <=> jobs[j].ok
            /\ jobs'[j].pc \in {"balance", "pay"} => jobs[j].att # None
        BY <1>0, <1>1, <1>3 DEF JobInv
      <4>2. jobs'[j].att = jobs[j].att /\ jobs'[j].idi = jobs[j].idi
        BY <1>1
      <4>3. JobInv(j)'
        BY <1>0, <2>1, <4>1, <4>2 DEF JobInv, Backed
      <4>4. QED BY <3>1, <4>3 DEF JobInv, Backed
    <3>2. CASE k # j
      <4>1. JobInv(k) /\ jobs'[k] = jobs[k]
        BY <1>1, <2>2, <3>2 DEF PayInv
      <4>2. QED BY <1>0, <2>1, <4>1 DEF JobInv, Backed
    <3>3. QED BY <3>1, <3>2
  <2>3. QED BY <1>0, <2>1, <2>2 DEF PayInv
<1>4. QED BY <1>2, <1>3

LEMMA PayStep == HostType /\ TapInv /\ PayInv /\ [Next]_vars => PayInv'
<1> SUFFICES ASSUME HostType, TapInv, PayInv, [Next]_vars PROVE PayInv'
  OBVIOUS
<1>1. CASE \E i \in DOMAIN conns : HandleFaceOk(i)
  BY <1>1, PayFaceOk
<1>2. CASE \E j \in DOMAIN jobs : RunPayment(j)
  BY <1>2, PayRuns
<1>3. CASE /\ ~\E i \in DOMAIN conns : HandleFaceOk(i)
           /\ ~\E j \in DOMAIN jobs : RunPayment(j)
  <2>1. UNCHANGED <<jobs, burned>>
    BY <1>3 DEF Next, FelicaLoop, Poll, Authenticate, ReadCard, ReadFails, SessionEnds,
       PublishCard, AnnounceCard, ForgetCard, Forget, AnnounceRemoval, Commands, SetMode,
       TestCard, Remove, Sending, SendMode, SendRemoved, Simulate, PublishSim, StoreSim,
       AnnounceSim, Link, Connect, Register, Deliver, Disconnect, Report, ConnectionEnds,
       MoveCard, chainVars, vars
  <2>2. QED BY <2>1, PayFrame
<1>4. QED BY <1>1, <1>2, <1>3

\* Money leaves only the wallets of tapped cards; a simulated card never pays.
THEOREM OnlyTappedCardsPayCorrect == Spec => []OnlyTappedCardsPay
<1>1. ASSUME HostType, PayInv PROVE OnlyTappedCardsPay
  <2>1. DOMAIN issued = 1..Len(issued)
    BY <1>1 DEF HostType
  <2>2. QED BY <1>1, <2>1 DEF PayInv, JobInv, OnlyTappedCardsPay
<1>2. Spec => []PayInv
  BY PayInit, PayStep, HostTyped, TapInvariant, PTL DEF Spec
<1>3. QED BY <1>1, <1>2, HostTyped, PTL

-----------------------------------------------------------------------------
(* Connections. The page's connection is the newest there is, so whoever drops *)
(* the sender after it registered is the thread of an older one.               *)

LinkInv ==
  /\ page.link = 0 \/ page.link = Len(conns)
  /\ OnlyLateCloseSilences

LEMMA LinkInit == Init => LinkInv
BY DEF Init, FreshPage, LinkInv, OnlyLateCloseSilences, Silenced

\* A step that leaves the connections and the sender alone.
LEMMA LinkFrame ==
  ASSUME LinkInv, UNCHANGED conns, page'.link = page.link,
         shared'.term_tx = shared.term_tx
  PROVE  LinkInv'
BY DEF LinkInv, OnlyLateCloseSilences, Silenced

LEMMA LinkStep == HostType /\ PageType /\ LinkInv /\ [Next]_vars => LinkInv'
<1> SUFFICES ASSUME HostType, PageType, LinkInv, [Next]_vars PROVE LinkInv'
  OBVIOUS
<1>0. conns \in Seq(ConnRecords) /\ shared \in SharedRecords /\ Len(conns) \in Nat
  BY DEF HostType
<1>1. ASSUME NEW new \in BOOLEAN, Connect(new) PROVE LinkInv'
  <2>1. page'.link = Len(conns) + 1 /\ shared'.term_tx = Len(conns) + 1
    BY <1>0, <1>1 DEF Connect, Register, FreshPage, PageType, SharedRecords
  <2>2. Len(conns') = Len(conns) + 1
    BY <1>0, <1>1 DEF Connect, Register
  <2>3. QED BY <2>1, <2>2 DEF LinkInv, OnlyLateCloseSilences, Silenced
<1>2. ASSUME NEW i \in DOMAIN conns, ConnectionEnds(i) PROVE LinkInv'
  <2>1. /\ page' = page /\ Len(conns') = Len(conns) /\ DOMAIN conns = 1..Len(conns)
        /\ \A k \in DOMAIN conns : k # i => conns'[k] = conns[k]
        /\ i # page.link
    BY <1>0, <1>2 DEF ConnectionEnds
  <2>2. CASE shared'.term_tx = 0 /\ conns'[i].silenced = Len(conns)
    <3>1. page.link # 0 => i \in 1..page.link - 1 /\ conns'[i].silenced = page.link
      BY <1>0, <2>1, <2>2 DEF LinkInv
    <3>2. QED BY <2>1, <2>2, <3>1 DEF LinkInv, OnlyLateCloseSilences, Silenced
  <2>3. CASE UNCHANGED shared /\ conns'[i].silenced = conns[i].silenced
    <3>1. \A k \in DOMAIN conns : conns'[k].silenced = conns[k].silenced
      BY <2>1, <2>3
    <3>2. page.link # 0 => 1..page.link - 1 \subseteq DOMAIN conns
      BY <1>0, <2>1 DEF LinkInv
    <3>3. OnlyLateCloseSilences'
      BY <2>1, <2>3, <3>1, <3>2 DEF LinkInv, OnlyLateCloseSilences, Silenced
    <3>4. QED BY <2>1, <3>3 DEF LinkInv
  <2>4. CASE /\ shared' = [shared EXCEPT !.term_tx = 0]
             /\ conns' = [conns EXCEPT ![i].up = FALSE, ![i].silenced = Len(conns)]
    <3>1. conns[i] \in ConnRecords /\ shared'.term_tx = 0
      BY <1>0, <2>4 DEF SharedRecords
    <3>2. conns'[i].silenced = Len(conns)
      BY <1>0, <2>4, <3>1 DEF ConnRecords
    <3>3. QED BY <2>2, <3>1, <3>2
  <2>5. CASE UNCHANGED shared /\ conns' = [conns EXCEPT ![i].up = FALSE]
    <3>1. conns'[i].silenced = conns[i].silenced
      <4>1. conns[i] \in ConnRecords
        BY <1>0
      <4>2. conns'[i] = [conns[i] EXCEPT !.up = FALSE]
        BY <1>0, <2>5
      <4>3. QED BY <4>1, <4>2 DEF ConnRecords
    <3>2. QED BY <2>3, <2>5, <3>1
  <2>6. QED BY <1>2, <2>4, <2>5 DEF ConnectionEnds
<1>3. CASE Disconnect
  <2>1. page'.link = 0 /\ UNCHANGED <<conns, shared>>
    BY <1>3 DEF Disconnect, PageType
  <2>2. QED BY <2>1 DEF LinkInv, OnlyLateCloseSilences, Silenced
<1>4. ASSUME \/ Report
             \/ \E i \in DOMAIN conns : HandleFaceOk(i)
      PROVE  LinkInv'
  <2>1. /\ UNCHANGED page /\ shared'.term_tx = shared.term_tx /\ Len(conns') = Len(conns)
        /\ \A k \in DOMAIN conns : conns'[k].silenced = conns[k].silenced
    <3>1. PICK i, n : conns' = [conns EXCEPT ![i].reports = n]
      BY <1>4 DEF Report, HandleFaceOk, TakeReport
    <3>2. Len(conns') = Len(conns) /\ \A k \in DOMAIN conns : conns'[k].silenced = conns[k].silenced
      BY <1>0, <3>1 DEF ConnRecords
    <3>3. UNCHANGED page /\ shared'.term_tx = shared.term_tx
      BY <1>0, <1>4 DEF Report, HandleFaceOk, TakeReport, SharedRecords
    <3>4. QED BY <3>2, <3>3
  <2>2. \A k \in 1..page.link - 1 : page.link # 0 => k \in DOMAIN conns
    BY <1>0 DEF LinkInv
  <2>3. QED BY <2>1, <2>2 DEF LinkInv, OnlyLateCloseSilences, Silenced
<1>5. ASSUME NEW m, Send(m), UNCHANGED shared PROVE LinkInv'
  <2>1. page'.link = page.link /\ UNCHANGED conns
    BY <1>5 DEF Send, PageType
  <2>2. QED BY <1>5, <2>1, LinkFrame
<1>6. CASE AnnounceCard \/ AnnounceRemoval \/ Sending
           \/ (\E i \in DOMAIN sims : AnnounceSim(i)) \/ \E j \in DOMAIN jobs : SendResult(j)
  BY <1>5, <1>6 DEF AnnounceCard, AnnounceRemoval, Sending, SendMode, SendRemoved, AnnounceSim,
     SendResult
<1>7. CASE Deliver
  <2>1. page'.link = page.link /\ UNCHANGED <<conns, shared>>
    BY <1>7 DEF Deliver, PageType
  <2>2. QED BY <2>1, LinkFrame
<1>8. CASE PublishCard \/ ForgetCard \/ Commands \/ \E i \in DOMAIN sims : PublishSim(i)
  <2>1. /\ UNCHANGED <<conns, page>> /\ shared'.term_tx = shared.term_tx
    BY <1>0, <1>8 DEF PublishCard, ForgetCard, Forget, Commands, SetMode, TestCard, Remove,
       PublishSim, StoreSim, StoreCard, SharedRecords, linkVars
  <2>2. QED BY <2>1, LinkFrame
<1>9. CASE Poll \/ Authenticate \/ ReadCard \/ ReadFails \/ UNCHANGED vars
           \/ (\E c \in Idis \cup {None} : MoveCard(c))
           \/ \E j \in DOMAIN jobs : CheckBalance(j) \/ PayExecutes(j) \/ PayFails(j)
  <2>1. UNCHANGED <<conns, page, shared>>
    BY <1>9 DEF Poll, Authenticate, ReadCard, ReadFails, SessionEnds, MoveCard, CheckBalance,
       AskBalance, PayExecutes, PayFails, linkVars, vars
  <2>2. QED BY <2>1, LinkFrame
<1>10. QED
  BY <1>1, <1>2, <1>3, <1>4, <1>6, <1>7, <1>8, <1>9
  DEF Next, FelicaLoop, Simulate, Link, RunPayment

LEMMA PageInit == Init => PageType
BY DEF Init, PageType, FreshPage

LEMMA PageStep == PageType /\ [Next]_vars => PageType'
BY DEF PageType, FreshPage, Next, FelicaLoop, Poll, Authenticate, ReadCard, ReadFails,
   SessionEnds, PublishCard, AnnounceCard, ForgetCard, Forget, AnnounceRemoval, Commands,
   SetMode, TestCard, Remove, Sending, SendMode, SendRemoved, Simulate, PublishSim, StoreSim,
   AnnounceSim, Link, Connect, Register, Deliver, Disconnect, Report, ConnectionEnds,
   HandleFaceOk, TakeReport, RunPayment, CheckBalance, AskBalance, PayExecutes, PayFails,
   SendResult, MoveCard, Send, linkVars, vars

\* A connected page is silenced by nothing but an older connection's late Close.
THEOREM OnlyLateCloseSilencesCorrect == Spec => []OnlyLateCloseSilences
<1>1. LinkInv => OnlyLateCloseSilences
  BY DEF LinkInv
<1>2. QED
  BY <1>1, LinkInit, LinkStep, PageInit, PageStep, HostTyped, PTL DEF Spec

-----------------------------------------------------------------------------
(* What the page is told. The rest of the type, and the modes on their way.   *)

HostMessages ==
  [type : {"cardRemoved"}] \cup [type : {"mode"}, payment : Modes]
    \cup [type : {"card"}, card : Idis] \cup [type : {"paymentResult"}, result : Results]
PageRecords == [link : Nat, mode : Modes, card : Idis \cup {None}, missed : BOOLEAN]
CliRecords == [pc : {"read", "mode", "removed"}, mode : Modes]

TellType ==
  /\ cli \in CliRecords /\ page \in PageRecords
  /\ toTerm \in Seq(HostMessages)
  /\ balance \in [Idis -> Nat]

LEMMA TellInit == Init => TellType
<1> SUFFICES ASSUME Init PROVE TellType
  OBVIOUS
<1>1. << >> \in Seq(HostMessages)
  OBVIOUS
<1>2. QED
  BY <1>1, HostAssumption DEF Init, TellType, FreshPage, CliRecords, PageRecords, Modes

LEMMA MessageTypes ==
  /\ CardRemoved \in HostMessages
  /\ \A mode \in Modes : ModeMsg(mode) \in HostMessages
  /\ \A c \in Idis : CardEvent(c) \in HostMessages
  /\ \A result \in Results : ResultMsg(result) \in HostMessages
BY DEF HostMessages, CardRemoved, ModeMsg, CardEvent, ResultMsg

\* A message is queued, or missed by a page that is not told.
LEMMA SendType ==
  ASSUME TellType, NEW m \in HostMessages, Send(m)
  PROVE  /\ page' \in PageRecords /\ toTerm' \in Seq(HostMessages)
         /\ page'.mode = page.mode /\ page'.link = page.link
         /\ Tellable => toTerm' = Append(toTerm, m)
<1>1. page \in PageRecords /\ toTerm \in Seq(HostMessages)
  BY DEF TellType
<1>2. CASE Tellable
  BY <1>1, <1>2 DEF Send
<1>3. CASE ~Tellable
  <2>1. page' = [page EXCEPT !.missed = @ \/ AboutCard(m)] /\ toTerm' = toTerm
    BY <1>3 DEF Send
  <2>2. (page.missed \/ AboutCard(m)) \in BOOLEAN
    BY <1>1 DEF PageRecords, AboutCard
  <2>3. QED BY <1>1, <1>3, <2>1, <2>2 DEF PageRecords
<1>4. QED BY <1>2, <1>3

\* Whatever is sent is a message.
LEMMA SentMessages ==
  ASSUME HostType, TellType,
         \/ AnnounceCard \/ AnnounceRemoval \/ Sending
         \/ \E i \in DOMAIN sims : AnnounceSim(i)
         \/ \E j \in DOMAIN jobs : SendResult(j)
  PROVE  /\ \E m \in HostMessages :
              Send(m) /\ (m.type # "mode" \/ (SendMode /\ m = ModeMsg(cli.mode)))
         /\ cli' \in CliRecords /\ UNCHANGED <<balance, shared>>
         /\ cli'.pc # "mode" \/ cli' = cli
         /\ cli.pc = "mode" => cli' = cli \/ SendMode
<1>1. CASE AnnounceCard
  <2>1. loop.card \in Idis
    BY <1>1 DEF AnnounceCard, HostType
  <2>2. CardEvent(loop.card) \in HostMessages /\ CardEvent(loop.card).type # "mode"
    BY <2>1, MessageTypes DEF CardEvent
  <2>3. QED BY <1>1, <2>2 DEF AnnounceCard, TellType, chainVars
<1>2. CASE AnnounceRemoval
  BY <1>2, MessageTypes DEF AnnounceRemoval, TellType, chainVars, CardRemoved
<1>3. CASE SendMode
  <2>1. ModeMsg(cli.mode) \in HostMessages
    BY MessageTypes DEF TellType, CliRecords
  <2>2. cli' \in CliRecords /\ cli'.pc # "mode"
    BY <1>3 DEF SendMode, CliRecords, Modes
  <2>3. QED BY <1>3, <2>1, <2>2 DEF SendMode, chainVars
<1>4. CASE SendRemoved
  <2>1. cli' \in CliRecords /\ cli'.pc # "mode" /\ cli.pc # "mode"
    BY <1>4 DEF SendRemoved, TellType, CliRecords
  <2>2. QED BY <1>4, <2>1, MessageTypes DEF SendRemoved, chainVars, CardRemoved
<1>5. ASSUME NEW i \in DOMAIN sims, AnnounceSim(i)
      PROVE  /\ \E m \in HostMessages : Send(m) /\ m.type # "mode"
             /\ UNCHANGED <<cli, balance, shared>>
  <2>1. sims[i] \in SimRecords
    BY DEF HostType
  <2>2. CardEvent(sims[i].card) \in HostMessages /\ CardEvent(sims[i].card).type # "mode"
    BY <2>1, MessageTypes DEF CardEvent, SimRecords
  <2>3. QED BY <1>5, <2>2 DEF AnnounceSim, chainVars
<1>6. ASSUME NEW j \in DOMAIN jobs, SendResult(j)
      PROVE  /\ \E m \in HostMessages : Send(m) /\ m.type # "mode"
             /\ UNCHANGED <<cli, balance, shared>>
  <2> DEFINE result == [ok |-> jobs[j].ok, amount |-> IF MerchantSet THEN jobs[j].amount ELSE 0]
  <2>1. jobs[j] \in JobRecords
    BY DEF HostType
  <2>2. result \in Results
    BY <2>1 DEF JobRecords, Results
  <2>3. ResultMsg(result) \in HostMessages /\ ResultMsg(result).type # "mode"
    BY <2>2, MessageTypes DEF ResultMsg
  <2>4. Send(ResultMsg(result)) /\ UNCHANGED <<cli, balance, shared>>
    BY <1>6 DEF SendResult, chainVars
  <2> HIDE DEF result
  <2>5. QED BY <2>3, <2>4
<1>7. QED BY <1>1, <1>2, <1>3, <1>4, <1>5, <1>6 DEF Sending, TellType

LEMMA TellStep == HostType /\ TellType /\ [Next]_vars => TellType'
<1> SUFFICES ASSUME HostType, TellType, [Next]_vars PROVE TellType'
  OBVIOUS
<1>0. shared \in SharedRecords /\ jobs \in Seq(JobRecords) /\ conns \in Seq(ConnRecords)
  BY DEF HostType
<1>1. CASE \/ AnnounceCard \/ AnnounceRemoval \/ Sending
           \/ \E i \in DOMAIN sims : AnnounceSim(i)
           \/ \E j \in DOMAIN jobs : SendResult(j)
  BY <1>1, SentMessages, SendType DEF TellType
<1>2. CASE Deliver
  <2>1. Head(toTerm) \in HostMessages /\ Tail(toTerm) \in Seq(HostMessages)
    BY <1>2 DEF Deliver, TellType
  <2>2. page' \in PageRecords
    <3> DEFINE m == Head(toTerm)
    <3>1. CASE m.type = "mode"
      <4>1. m.payment \in Modes
        BY <2>1, <3>1 DEF HostMessages
      <4>2. page' = [page EXCEPT !.mode = m.payment]
        BY <1>2, <3>1 DEF Deliver
      <4>3. QED BY <4>1, <4>2 DEF TellType, PageRecords
    <3>2. CASE m.type = "card"
      <4>1. m.card \in Idis
        BY <2>1, <3>2 DEF HostMessages
      <4>2. page' = [page EXCEPT !.card = m.card]
        BY <1>2, <3>2 DEF Deliver
      <4>3. QED BY <4>1, <4>2 DEF TellType, PageRecords
    <3>3. CASE m.type \notin {"mode", "card"}
      BY <1>2, <3>3 DEF Deliver, TellType, PageRecords
    <3>4. QED BY <3>1, <3>2, <3>3
  <2>3. QED BY <1>2, <2>1, <2>2 DEF Deliver, TellType, chainVars
<1>3. ASSUME NEW new \in BOOLEAN, Connect(new) PROVE TellType'
  <2>1. << ModeMsg(shared.pay_mode) >> \in Seq(HostMessages)
    BY <1>0, MessageTypes DEF SharedRecords
  <2>2. Len(conns) + 1 \in Nat
    BY <1>0
  <2>3. page' \in PageRecords
    BY <1>3, <2>2 DEF Connect, Register, TellType, PageRecords, FreshPage, Modes
  <2>4. QED BY <1>3, <2>1, <2>3 DEF Connect, Register, TellType, chainVars
<1>4. CASE Disconnect
  <2>1. << >> \in Seq(HostMessages)
    OBVIOUS
  <2>2. page' \in PageRecords
    <3> DEFINE lost == \E i \in DOMAIN toTerm : AboutCard(toTerm[i])
    <3>1. page' = [page EXCEPT !.link = 0, !.missed = @ \/ lost]
      BY <1>4 DEF Disconnect
    <3>2. (page.missed \/ lost) \in BOOLEAN
      BY DEF TellType, PageRecords
    <3> HIDE DEF lost
    <3>3. QED BY <3>1, <3>2 DEF TellType, PageRecords
  <2>3. QED BY <1>4, <2>1, <2>2 DEF Disconnect, TellType, chainVars
<1>5. ASSUME NEW j \in DOMAIN jobs, PayExecutes(j) PROVE TellType'
  <2>0. jobs[j] \in JobRecords
    BY <1>0
  <2>1. jobs[j].idi \in Idis /\ jobs[j].amount \in Nat
    BY <2>0, ProtocolAssumption DEF JobRecords
  <2>2. balance' \in [Idis -> Nat]
    BY <1>5, <2>1 DEF PayExecutes, TellType
  <2>3. QED BY <1>5, <2>2 DEF PayExecutes, TellType, linkVars
<1>6. CASE Commands
  <2>1. cli' \in CliRecords
    <3>1. ASSUME NEW mode \in Modes, SetMode(mode) PROVE cli' \in CliRecords
      BY <3>1 DEF SetMode, CliRecords
    <3>2. CASE Remove
      BY <3>2 DEF Remove, TellType, CliRecords
    <3>3. CASE UNCHANGED cli
      BY <3>3 DEF TellType
    <3>4. QED BY <1>6, <3>1, <3>2, <3>3 DEF Commands, TestCard
  <2>2. UNCHANGED <<page, toTerm, balance>>
    BY <1>6 DEF Commands, SetMode, TestCard, Remove, linkVars, chainVars
  <2>3. QED BY <2>1, <2>2 DEF TellType
<1>7. CASE \/ Poll \/ Authenticate \/ ReadCard \/ ReadFails \/ PublishCard \/ ForgetCard
           \/ Report \/ UNCHANGED vars
           \/ (\E i \in DOMAIN sims : PublishSim(i))
           \/ (\E i \in DOMAIN conns : ConnectionEnds(i) \/ HandleFaceOk(i))
           \/ (\E c \in Idis \cup {None} : MoveCard(c))
           \/ \E j \in DOMAIN jobs : CheckBalance(j) \/ PayFails(j)
  <2>1. UNCHANGED <<cli, page, toTerm, balance>>
    BY <1>7 DEF Poll, Authenticate, ReadCard, ReadFails, SessionEnds, PublishCard, ForgetCard,
       Forget, Report, PublishSim, StoreSim, ConnectionEnds, HandleFaceOk, TakeReport, MoveCard,
       CheckBalance, AskBalance, PayFails, linkVars, chainVars, vars
  <2>2. QED BY <2>1 DEF TellType
<1>8. QED
  BY <1>1, <1>2, <1>3, <1>4, <1>5, <1>6, <1>7
  DEF Next, FelicaLoop, Simulate, Link, RunPayment

\* The state of the older daemon and its page keeps its shape.
THEOREM TypeCorrect == Spec => []TypeOK
<1>1. HostType /\ TellType => TypeOK
  BY DEF HostType, TellType, TypeOK, LoopRecords, SharedRecords, SimRecords, ConnRecords,
     JobRecords, CliRecords, PageRecords
<1>2. Spec => []TellType
  BY TellInit, TellStep, HostTyped, PTL DEF Spec
<1>3. QED BY <1>1, <1>2, HostTyped, PTL

-----------------------------------------------------------------------------
(* The mode. The last mode on its way to a page that is told everything is the *)
(* host's, or the page shows it already, or the CLI is about to send it.       *)

\* The last mode event of q is m's, or q has none and the page shows m.
Says(q, shown, m) ==
  \/ \E k \in DOMAIN q :
       q[k] = ModeMsg(m) /\ \A l \in DOMAIN q : l > k => q[l].type # "mode"
  \/ shown = m /\ \A k \in DOMAIN q : q[k].type # "mode"

ModeInv ==
  /\ cli.pc = "mode" => cli.mode = shared.pay_mode
  /\ (Tellable /\ cli.pc # "mode") => Says(toTerm, page.mode, shared.pay_mode)

LEMMA ModeInit == Init => ModeInv
BY DEF Init, ModeInv, Tellable, FreshPage

LEMMA SaysAppended ==
  ASSUME NEW q \in Seq(HostMessages), NEW msg \in HostMessages, NEW shown, NEW m
  PROVE  /\ msg.type # "mode" /\ Says(q, shown, m) => Says(Append(q, msg), shown, m)
         /\ msg = ModeMsg(m) => Says(Append(q, msg), shown, m)
<1> DEFINE p == Append(q, msg)
<1>1. /\ DOMAIN q = 1..Len(q) /\ DOMAIN p = 1..Len(q) + 1 /\ Len(q) \in Nat
      /\ p[Len(q) + 1] = msg /\ \A k \in DOMAIN q : p[k] = q[k]
  OBVIOUS
<1> HIDE DEF p
<1>2. msg = ModeMsg(m) => Says(p, shown, m)
  BY <1>1 DEF Says
<1>3. msg.type # "mode" /\ Says(q, shown, m) => Says(p, shown, m)
  BY <1>1 DEF Says
<1>4. QED BY <1>2, <1>3 DEF p

LEMMA SaysDelivered ==
  ASSUME NEW q \in Seq(HostMessages), q # << >>, NEW shown, NEW m, Says(q, shown, m),
         NEW later, later = IF Head(q).type = "mode" THEN Head(q).payment ELSE shown
  PROVE  Says(Tail(q), later, m)
<1> DEFINE p == Tail(q)
<1>1. /\ DOMAIN q = 1..Len(q) /\ DOMAIN p = 1..Len(q) - 1
      /\ Len(q) \in Nat \ {0} /\ Head(q) = q[1]
      /\ \A k \in DOMAIN p : k + 1 \in DOMAIN q /\ p[k] = q[k + 1]
  OBVIOUS
<1> HIDE DEF p
<1>2. CASE shown = m /\ \A k \in DOMAIN q : q[k].type # "mode"
  BY <1>1, <1>2 DEF Says, p
<1>3. ASSUME NEW k \in DOMAIN q, q[k] = ModeMsg(m),
             \A l \in DOMAIN q : l > k => q[l].type # "mode"
      PROVE  Says(p, later, m)
  <2>1. CASE k = 1
    <3>1. later = m /\ \A l \in DOMAIN p : p[l].type # "mode"
      BY <1>1, <1>3, <2>1 DEF ModeMsg
    <3>2. QED BY <3>1 DEF Says
  <2>2. CASE k # 1
    <3>1. k - 1 \in DOMAIN p /\ p[k - 1] = ModeMsg(m)
      BY <1>1, <1>3, <2>2
    <3>2. \A l \in DOMAIN p : l > k - 1 => p[l].type # "mode"
      BY <1>1, <1>3, <2>2
    <3>3. QED BY <3>1, <3>2 DEF Says
  <2>3. QED BY <2>1, <2>2
<1>4. QED BY <1>2, <1>3 DEF Says, p

\* A step that leaves the mode, the CLI, the link and what is told alone.
LEMMA ModeFrame ==
  ASSUME ModeInv, UNCHANGED <<cli, toTerm, page>>,
         shared'.pay_mode = shared.pay_mode, shared'.term_tx = shared.term_tx
  PROVE  ModeInv'
BY DEF ModeInv, Tellable

LEMMA ModeStep == HostType /\ TellType /\ ModeInv /\ [Next]_vars => ModeInv'
<1> SUFFICES ASSUME HostType, TellType, ModeInv, [Next]_vars PROVE ModeInv'
  OBVIOUS
<1>0. /\ shared \in SharedRecords /\ cli \in CliRecords /\ page \in PageRecords
      /\ toTerm \in Seq(HostMessages) /\ Len(conns) \in Nat
  BY DEF HostType, TellType
<1>1. CASE \/ AnnounceCard \/ AnnounceRemoval \/ Sending
           \/ \E i \in DOMAIN sims : AnnounceSim(i)
           \/ \E j \in DOMAIN jobs : SendResult(j)
  <2>1. PICK m \in HostMessages :
          Send(m) /\ (m.type # "mode" \/ (SendMode /\ m = ModeMsg(cli.mode)))
    BY <1>1, SentMessages
  <2>2. /\ UNCHANGED shared
        /\ cli'.pc # "mode" \/ cli' = cli
        /\ cli.pc = "mode" => cli' = cli \/ SendMode
    BY <1>1, SentMessages
  <2>3. /\ page'.mode = page.mode /\ page'.link = page.link
        /\ Tellable => toTerm' = Append(toTerm, m)
    BY <2>1, SendType
  <2>4. ASSUME Tellable', cli'.pc # "mode"
        PROVE  Says(toTerm', page'.mode, shared'.pay_mode)
    <3>1. Tellable /\ toTerm' = Append(toTerm, m)
      BY <2>2, <2>3, <2>4 DEF Tellable
    <3>2. CASE cli.pc = "mode"
      <4>1. SendMode
        BY <2>2, <2>4, <3>2
      <4>2. m.type = "mode" => m = ModeMsg(shared.pay_mode)
        BY <2>1, <3>2 DEF ModeInv
      <4>3. Send(ModeMsg(cli.mode)) /\ cli.mode = shared.pay_mode
        BY <3>2, <4>1 DEF SendMode, ModeInv
      <4>4. ModeMsg(cli.mode) \in HostMessages
        BY <1>0, MessageTypes DEF CliRecords
      <4>5. toTerm' = Append(toTerm, ModeMsg(cli.mode))
        BY <3>1, <4>3, <4>4, SendType
      <4>6. QED BY <1>0, <2>2, <2>3, <4>3, <4>4, <4>5, SaysAppended
    <3>3. CASE cli.pc # "mode"
      <4>1. m.type # "mode"
        BY <2>1, <3>3 DEF SendMode
      <4>2. Says(toTerm, page.mode, shared.pay_mode)
        BY <3>1, <3>3 DEF ModeInv
      <4>3. QED BY <1>0, <2>2, <2>3, <3>1, <4>1, <4>2, SaysAppended
    <3>4. QED BY <3>2, <3>3
  <2>5. QED BY <2>2, <2>4 DEF ModeInv
<1>2. CASE Deliver
  <2>1. /\ toTerm # << >> /\ toTerm' = Tail(toTerm) /\ UNCHANGED <<cli, shared>>
        /\ page'.link = page.link
        /\ page'.mode = IF Head(toTerm).type = "mode" THEN Head(toTerm).payment ELSE page.mode
    BY <1>0, <1>2 DEF Deliver, PageRecords
  <2>2. Says(toTerm, page.mode, shared.pay_mode) =>
          Says(Tail(toTerm), page'.mode, shared.pay_mode)
    BY <1>0, <2>1, SaysDelivered
  <2>3. QED BY <2>1, <2>2 DEF ModeInv, Tellable
<1>3. ASSUME NEW new \in BOOLEAN, Connect(new) PROVE ModeInv'
  <2>1. /\ toTerm' = << ModeMsg(shared.pay_mode) >> /\ UNCHANGED cli
        /\ shared'.pay_mode = shared.pay_mode
    BY <1>0, <1>3 DEF Connect, Register, SharedRecords
  <2>2. Says(toTerm', page'.mode, shared'.pay_mode)
    BY <2>1 DEF Says
  <2>3. QED BY <2>1, <2>2 DEF ModeInv
<1>4. CASE Disconnect
  <2>1. page'.link = 0 /\ UNCHANGED <<cli, shared>>
    BY <1>0, <1>4 DEF Disconnect, PageRecords
  <2>2. QED BY <2>1 DEF ModeInv, Tellable
<1>5. ASSUME NEW i \in DOMAIN conns, ConnectionEnds(i) PROVE ModeInv'
  <2>1. /\ UNCHANGED <<cli, toTerm, page>>
        /\ UNCHANGED shared \/ shared' = [shared EXCEPT !.term_tx = 0]
    BY <1>5 DEF ConnectionEnds
  <2>2. shared'.pay_mode = shared.pay_mode /\ (Tellable' => Tellable)
    BY <1>0, <2>1 DEF SharedRecords, Tellable
  <2>3. QED BY <2>1, <2>2 DEF ModeInv
<1>6. ASSUME NEW mode \in Modes, SetMode(mode) PROVE ModeInv'
  <2>1. cli' = [pc |-> "mode", mode |-> mode] /\ shared'.pay_mode = mode
    BY <1>0, <1>6 DEF SetMode, SharedRecords
  <2>2. QED BY <2>1 DEF ModeInv
<1>7. CASE Remove
  <2>1. /\ cli.pc = "read" /\ cli'.pc = "removed" /\ UNCHANGED <<toTerm, page>>
        /\ shared'.pay_mode = shared.pay_mode /\ shared'.term_tx = shared.term_tx
    BY <1>0, <1>7 DEF Remove, StoreCard, SharedRecords, CliRecords, linkVars
  <2>2. QED BY <2>1 DEF ModeInv, Tellable
<1>8. CASE \/ PublishCard \/ ForgetCard
           \/ (\E i \in DOMAIN sims : PublishSim(i)) \/ \E i \in DOMAIN conns : HandleFaceOk(i)
  <2>1. /\ UNCHANGED <<cli, toTerm, page>>
        /\ shared'.pay_mode = shared.pay_mode /\ shared'.term_tx = shared.term_tx
    BY <1>0, <1>8 DEF PublishCard, ForgetCard, Forget, PublishSim, StoreSim, StoreCard,
       HandleFaceOk, TakeReport, SharedRecords, linkVars
  <2>2. QED BY <2>1, ModeFrame
<1>9. CASE \/ Poll \/ Authenticate \/ ReadCard \/ ReadFails \/ Report \/ UNCHANGED vars
           \/ (\E c \in Idis : TestCard(c)) \/ (\E c \in Idis \cup {None} : MoveCard(c))
           \/ \E j \in DOMAIN jobs : CheckBalance(j) \/ PayExecutes(j) \/ PayFails(j)
  <2>1. UNCHANGED <<cli, toTerm, page, shared>>
    BY <1>9 DEF Poll, Authenticate, ReadCard, ReadFails, SessionEnds, Report, TestCard,
       MoveCard, CheckBalance, AskBalance, PayExecutes, PayFails, linkVars, vars
  <2>2. QED BY <2>1, ModeFrame
<1>10. QED
  BY <1>1, <1>2, <1>3, <1>4, <1>5, <1>6, <1>7, <1>8, <1>9
  DEF Next, FelicaLoop, Commands, Simulate, Link, RunPayment

\* A page that hears the older daemon and was told everything shows its mode,
\* whatever connections came and went.
THEOREM ModeShownCorrect == Spec => []ModeShown
<1>1. ModeInv /\ TellType => ModeShown
  <2> SUFFICES ASSUME ModeInv, Tellable, toTerm = << >>, cli.pc # "mode"
               PROVE  page.mode = shared.pay_mode
    BY DEF ModeShown
  <2>1. Says(toTerm, page.mode, shared.pay_mode) /\ DOMAIN toTerm = {}
    BY DEF ModeInv
  <2>2. QED BY <2>1 DEF Says
<1>2. Spec => []TellType
  BY TellInit, TellStep, HostTyped, PTL DEF Spec
<1>3. Spec => []ModeInv
  BY <1>2, ModeInit, ModeStep, HostTyped, PTL DEF Spec
<1>4. QED BY <1>1, <1>2, <1>3, PTL

-----------------------------------------------------------------------------
(* The card. As long as no two threads published at once, whoever is about to  *)
(* announce a card announces the current one; as long as the page missed no    *)
(* such event either, the last one on its way, or the page, has it by then.    *)

LoopPublishes == loop.pc \in {"announce", "removed"}
CliPublishes == cli.pc = "removed"
SimPublishes(i) == sims[i].pc = "announce"

PublishInv ==
  /\ history \in [crossed : BOOLEAN, simulated : BOOLEAN]
  /\ ~history.crossed =>
       /\ LoopPublishes =>
            /\ ~CliPublishes /\ \A i \in DOMAIN sims : ~SimPublishes(i)
            /\ loop.pc = "announce" => shared.current_idi = loop.card
            /\ loop.pc = "removed" => shared.current_idi = None
       /\ CliPublishes =>
            shared.current_idi = None /\ \A i \in DOMAIN sims : ~SimPublishes(i)
       /\ \A i \in DOMAIN sims : SimPublishes(i) =>
            shared.current_idi = sims[i].card /\ \A k \in DOMAIN sims : SimPublishes(k) => k = i

LEMMA PublishInit == Init => PublishInv
BY DEF Init, PublishInv, LoopPublishes, CliPublishes

\* A step of neither of the publishing threads.
LEMMA PublishFrame ==
  ASSUME PublishInv, UNCHANGED <<loop, cli, sims, history>>,
         shared'.current_idi = shared.current_idi
  PROVE  PublishInv'
BY DEF PublishInv, LoopPublishes, CliPublishes, SimPublishes

\* Who stores a card without crossing another thread is alone with it.
LEMMA StoresAlone ==
  ASSUME HostType, PublishInv, NEW c, NEW att, NEW simulated \in BOOLEAN,
         StoreCard(c, att, simulated)
  PROVE  /\ history' \in [crossed : BOOLEAN, simulated : BOOLEAN]
         /\ shared'.current_idi = c
         /\ ~history'.crossed =>
              /\ ~history.crossed /\ ~LoopPublishes /\ ~CliPublishes
              /\ \A i \in DOMAIN sims : ~SimPublishes(i)
<1>1. Publishing \in BOOLEAN /\ (history.simulated \/ simulated) \in BOOLEAN
  BY DEF Publishing
<1>2. shared \in SharedRecords
  BY DEF HostType
<1>3. history' = [crossed |-> history.crossed \/ Publishing,
                  simulated |-> history.simulated \/ simulated]
  BY DEF StoreCard
<1>4. /\ (history.crossed \/ Publishing) \in BOOLEAN
      /\ history'.crossed = (history.crossed \/ Publishing)
  BY <1>1, <1>3
<1>5. history' \in [crossed : BOOLEAN, simulated : BOOLEAN]
  BY <1>1, <1>3, <1>4
<1>6. QED
  BY <1>2, <1>4, <1>5
  DEF StoreCard, SharedRecords, Publishing, LoopPublishes, CliPublishes, SimPublishes

LEMMA PublishStep == HostType /\ TellType /\ PublishInv /\ [Next]_vars => PublishInv'
<1> SUFFICES ASSUME HostType, TellType, PublishInv, [Next]_vars PROVE PublishInv'
  OBVIOUS
<1>0. /\ loop \in LoopRecords /\ shared \in SharedRecords /\ sims \in Seq(SimRecords)
      /\ cli \in CliRecords /\ history \in [crossed : BOOLEAN, simulated : BOOLEAN]
  BY DEF HostType, TellType, PublishInv
<1>1. CASE Poll \/ Authenticate \/ ReadCard \/ ReadFails \/ AnnounceCard \/ AnnounceRemoval
  <2>1. UNCHANGED <<cli, sims, shared, history>> /\ ~LoopPublishes'
    BY <1>0, <1>1 DEF Poll, Authenticate, ReadCard, ReadFails, SessionEnds, AnnounceCard,
       AnnounceRemoval, LoopPublishes, LoopRecords
  <2>2. QED BY <2>1 DEF PublishInv, CliPublishes, SimPublishes
<1>2. CASE PublishCard
  <2>1. StoreCard(loop.card, loop.att, FALSE) /\ UNCHANGED <<cli, sims>>
        /\ loop'.pc = "announce" /\ loop'.card = loop.card
    BY <1>0, <1>2 DEF PublishCard, LoopRecords
  <2>2. QED BY <2>1, StoresAlone DEF PublishInv, LoopPublishes, CliPublishes, SimPublishes
<1>3. CASE ForgetCard
  <2>1. StoreCard(None, None, FALSE) /\ UNCHANGED <<cli, sims>> /\ loop'.pc = "removed"
    BY <1>0, <1>3 DEF ForgetCard, Forget, LoopRecords
  <2>2. QED BY <2>1, StoresAlone DEF PublishInv, LoopPublishes, CliPublishes, SimPublishes
<1>4. CASE Remove
  <2>1. StoreCard(None, None, TRUE) /\ UNCHANGED <<loop, sims>> /\ cli'.pc = "removed"
    BY <1>0, <1>4 DEF Remove, CliRecords, readerVars
  <2>2. QED BY <2>1, StoresAlone DEF PublishInv, LoopPublishes, CliPublishes, SimPublishes
<1>5. CASE SendMode \/ SendRemoved \/ \E mode \in Modes : SetMode(mode)
  <2>1. /\ UNCHANGED <<loop, sims, history>> /\ ~CliPublishes'
        /\ shared'.current_idi = shared.current_idi
    BY <1>0, <1>5 DEF SendMode, SendRemoved, SetMode, CliPublishes, CliRecords, SharedRecords,
       readerVars
  <2>2. QED BY <2>1 DEF PublishInv, LoopPublishes, SimPublishes
<1>6. ASSUME NEW c \in Idis, TestCard(c) PROVE PublishInv'
  <2>1. /\ sims' = Append(sims, [pc |-> "store", card |-> c])
        /\ history' = [history EXCEPT !.simulated = TRUE] /\ UNCHANGED <<loop, cli, shared>>
    BY <1>6 DEF TestCard, readerVars
  <2>2. /\ \A i \in DOMAIN sims' : SimPublishes(i)' => i \in DOMAIN sims /\ sims'[i] = sims[i]
        /\ \A i \in DOMAIN sims : i \in DOMAIN sims' /\ sims'[i] = sims[i]
    BY <1>0, <2>1 DEF SimPublishes
  <2>3. history' \in [crossed : BOOLEAN, simulated : BOOLEAN] /\ history'.crossed = history.crossed
    BY <1>0, <2>1
  <2>4. QED BY <2>1, <2>2, <2>3 DEF PublishInv, LoopPublishes, CliPublishes, SimPublishes
<1>7. ASSUME NEW i \in DOMAIN sims, PublishSim(i) PROVE PublishInv'
  <2>1. /\ StoreCard(sims[i].card, None, TRUE) /\ UNCHANGED <<loop, cli>>
        /\ DOMAIN sims' = DOMAIN sims /\ sims'[i].card = sims[i].card
        /\ \A k \in DOMAIN sims : k # i => sims'[k] = sims[k]
    <3>1. sims[i] \in SimRecords
      BY <1>0
    <3>2. sims'[i] = [sims[i] EXCEPT !.pc = "announce"]
      BY <1>0, <1>7 DEF PublishSim, StoreSim
    <3>3. sims'[i].card = sims[i].card
      BY <3>1, <3>2 DEF SimRecords
    <3>4. QED BY <1>0, <1>7, <3>3 DEF PublishSim, StoreSim, readerVars
  <2>2. /\ history' \in [crossed : BOOLEAN, simulated : BOOLEAN]
        /\ shared'.current_idi = sims'[i].card
        /\ ~history'.crossed => /\ ~LoopPublishes /\ ~CliPublishes
                               /\ \A k \in DOMAIN sims : ~SimPublishes(k)
    BY <2>1, StoresAlone
  <2>3. ~history'.crossed =>
          ~LoopPublishes' /\ ~CliPublishes' /\ \A k \in DOMAIN sims' : SimPublishes(k)' => k = i
    BY <2>1, <2>2 DEF LoopPublishes, CliPublishes, SimPublishes
  <2>4. QED BY <2>2, <2>3 DEF PublishInv
<1>8. ASSUME NEW i \in DOMAIN sims, AnnounceSim(i) PROVE PublishInv'
  <2>1. /\ UNCHANGED <<loop, cli, shared, history>>
        /\ DOMAIN sims' = DOMAIN sims /\ ~SimPublishes(i)'
        /\ \A k \in DOMAIN sims : k # i => sims'[k] = sims[k]
    <3>1. sims[i] \in SimRecords
      BY <1>0
    <3>2. sims'[i] = [sims[i] EXCEPT !.pc = "done"]
      BY <1>0, <1>8 DEF AnnounceSim
    <3>3. sims'[i].pc = "done"
      BY <3>1, <3>2 DEF SimRecords
    <3>4. QED BY <1>0, <1>8, <3>3 DEF AnnounceSim, SimPublishes, readerVars
  <2>2. \A k \in DOMAIN sims' : SimPublishes(k)' => SimPublishes(k) /\ sims'[k] = sims[k]
    BY <2>1 DEF SimPublishes
  <2>3. QED BY <2>1, <2>2 DEF PublishInv, LoopPublishes, CliPublishes
<1>9. CASE \/ Link \/ UNCHANGED vars \/ (\E c \in Idis \cup {None} : MoveCard(c))
           \/ \E j \in DOMAIN jobs : RunPayment(j)
  <2>1. UNCHANGED <<loop, cli, sims, history>> /\ shared'.current_idi = shared.current_idi
    BY <1>0, <1>9 DEF Link, Connect, Register, Deliver, Disconnect, Report, ConnectionEnds,
       HandleFaceOk, TakeReport, MoveCard, RunPayment, CheckBalance, AskBalance, PayExecutes,
       PayFails, SendResult, SharedRecords, readerVars, vars
  <2>2. QED BY <2>1, PublishFrame
<1>10. QED
  BY <1>1, <1>2, <1>3, <1>4, <1>5, <1>6, <1>7, <1>8, <1>9
  DEF Next, FelicaLoop, Commands, Sending, Simulate

LEMMA PublishInvariant == Spec => []PublishInv
<1>1. Spec => []TellType
  BY TellInit, TellStep, HostTyped, PTL DEF Spec
<1>2. QED BY <1>1, PublishInit, PublishStep, HostTyped, PTL DEF Spec

\* An event after which a page shows c or no card.
Leaves(msg, c) == msg = CardRemoved \/ msg = CardEvent(c)

\* The last event of q about a card leaves c, or q has none and the page shows it.
Holds(q, shown, c) ==
  \/ \E k \in DOMAIN q : Leaves(q[k], c) /\ \A l \in DOMAIN q : l > k => ~AboutCard(q[l])
  \/ shown \in {None, c} /\ \A k \in DOMAIN q : ~AboutCard(q[k])

CardInv ==
  /\ page.link = 0 => toTerm = << >>
  /\ (~history.crossed /\ ~page.missed /\ ~Publishing) =>
       Holds(toTerm, page.card, shared.current_idi)

LEMMA CardInit == Init => CardInv
BY DEF Init, CardInv, Holds, FreshPage

LEMMA HoldsAppended ==
  ASSUME NEW q \in Seq(HostMessages), NEW msg \in HostMessages, NEW shown, NEW c
  PROVE  /\ ~AboutCard(msg) /\ Holds(q, shown, c) => Holds(Append(q, msg), shown, c)
         /\ Leaves(msg, c) => Holds(Append(q, msg), shown, c)
<1> DEFINE p == Append(q, msg)
<1>1. /\ DOMAIN q = 1..Len(q) /\ DOMAIN p = 1..Len(q) + 1 /\ Len(q) \in Nat
      /\ p[Len(q) + 1] = msg /\ \A k \in DOMAIN q : p[k] = q[k]
  OBVIOUS
<1> HIDE DEF p
<1>2. Leaves(msg, c) => Holds(p, shown, c)
  BY <1>1 DEF Holds
<1>3. ~AboutCard(msg) /\ Holds(q, shown, c) => Holds(p, shown, c)
  BY <1>1 DEF Holds
<1>4. QED BY <1>2, <1>3 DEF p

LEMMA HoldsDelivered ==
  ASSUME NEW q \in Seq(HostMessages), q # << >>, NEW shown, NEW c, Holds(q, shown, c),
         NEW later,
         later = CASE Head(q).type = "card" -> Head(q).card
                   [] Head(q).type = "cardRemoved" -> None [] OTHER -> shown
  PROVE  Holds(Tail(q), later, c)
<1> DEFINE p == Tail(q)
<1>1. /\ DOMAIN q = 1..Len(q) /\ DOMAIN p = 1..Len(q) - 1
      /\ Len(q) \in Nat \ {0} /\ Head(q) = q[1]
      /\ \A k \in DOMAIN p : k + 1 \in DOMAIN q /\ p[k] = q[k + 1]
  OBVIOUS
<1> HIDE DEF p
<1>2. CASE shown \in {None, c} /\ \A k \in DOMAIN q : ~AboutCard(q[k])
  BY <1>1, <1>2 DEF Holds, AboutCard, p
<1>3. ASSUME NEW k \in DOMAIN q, Leaves(q[k], c),
             \A l \in DOMAIN q : l > k => ~AboutCard(q[l])
      PROVE  Holds(p, later, c)
  <2>1. CASE k = 1
    <3>1. later \in {None, c}
      BY <1>1, <1>3, <2>1 DEF Leaves, CardRemoved, CardEvent
    <3>2. \A l \in DOMAIN p : ~AboutCard(p[l])
      BY <1>1, <1>3, <2>1
    <3>3. QED BY <3>1, <3>2 DEF Holds
  <2>2. CASE k # 1
    <3>1. k - 1 \in DOMAIN p /\ Leaves(p[k - 1], c)
      BY <1>1, <1>3, <2>2
    <3>2. \A l \in DOMAIN p : l > k - 1 => ~AboutCard(p[l])
      BY <1>1, <1>3, <2>2
    <3>3. QED BY <3>1, <3>2 DEF Holds
  <2>3. QED BY <2>1, <2>2
<1>4. QED BY <1>2, <1>3 DEF Holds, p

\* A message about no card changes nothing; one about a card is missed, or it
\* is what the page will hold.
LEMMA SendHolds ==
  ASSUME TellType, CardInv, NEW m \in HostMessages, Send(m)
  PROVE  /\ page'.link = 0 => toTerm' = << >>
         /\ ~AboutCard(m) => /\ page'.missed = page.missed
                             /\ \A c : Holds(toTerm, page.card, c) => Holds(toTerm', page'.card, c)
         /\ AboutCard(m) /\ ~page'.missed =>
              \A c : Leaves(m, c) => Holds(toTerm', page'.card, c)
<1>1. page \in PageRecords /\ toTerm \in Seq(HostMessages)
  BY DEF TellType
<1>2. CASE Tellable
  <2>1. toTerm' = Append(toTerm, m) /\ page' = page /\ page.link # 0
    BY <1>2 DEF Send, Tellable
  <2>2. QED BY <1>1, <2>1, HoldsAppended
<1>3. CASE ~Tellable
  <2>1. page' = [page EXCEPT !.missed = @ \/ AboutCard(m)] /\ toTerm' = toTerm
    BY <1>3 DEF Send
  <2>2. /\ page'.link = page.link /\ page'.card = page.card
        /\ page'.missed = (page.missed \/ AboutCard(m)) /\ page.missed \in BOOLEAN
    BY <1>1, <2>1 DEF PageRecords
  <2>3. QED BY <1>1, <2>1, <2>2 DEF CardInv
<1>4. QED BY <1>2, <1>3

\* A step that tells the page nothing, stores no card and ends no announcement.
LEMMA CardFrame ==
  ASSUME CardInv, UNCHANGED <<page, toTerm>>, history'.crossed = history.crossed,
         shared'.current_idi = shared.current_idi, Publishing => Publishing'
  PROVE  CardInv'
BY DEF CardInv

LEMMA CardStep ==
  HostType /\ TellType /\ PublishInv /\ CardInv /\ [Next]_vars => CardInv'
<1> SUFFICES ASSUME HostType, TellType, PublishInv, CardInv, [Next]_vars PROVE CardInv'
  OBVIOUS
<1>0. /\ loop \in LoopRecords /\ shared \in SharedRecords /\ sims \in Seq(SimRecords)
      /\ cli \in CliRecords /\ page \in PageRecords /\ toTerm \in Seq(HostMessages)
      /\ jobs \in Seq(JobRecords) /\ Len(conns) \in Nat
      /\ history \in [crossed : BOOLEAN, simulated : BOOLEAN]
  BY DEF HostType, TellType, PublishInv
\* An announcement of the current card.
<1>1. ASSUME NEW m \in HostMessages, Send(m), AboutCard(m), UNCHANGED <<shared, history>>,
             ~history.crossed => Leaves(m, shared.current_idi)
      PROVE  CardInv'
  BY <1>1, SendHolds DEF CardInv
<1>2. CASE AnnounceCard
  <2>1. CardEvent(loop.card) \in HostMessages /\ AboutCard(CardEvent(loop.card))
    BY <1>2, MessageTypes DEF AnnounceCard, HostType, AboutCard, CardEvent
  <2>2. ~history.crossed => Leaves(CardEvent(loop.card), shared.current_idi)
    BY <1>2 DEF AnnounceCard, PublishInv, LoopPublishes, Leaves
  <2>3. QED BY <1>1, <1>2, <2>1, <2>2 DEF AnnounceCard
<1>3. CASE AnnounceRemoval \/ SendRemoved
  <2>1. CardRemoved \in HostMessages /\ AboutCard(CardRemoved)
    BY MessageTypes DEF AboutCard, CardRemoved
  <2>2. QED BY <1>1, <1>3, <2>1 DEF AnnounceRemoval, SendRemoved, Leaves
<1>4. ASSUME NEW i \in DOMAIN sims, AnnounceSim(i) PROVE CardInv'
  <2>1. sims[i] \in SimRecords
    BY <1>0
  <2>2. CardEvent(sims[i].card) \in HostMessages /\ AboutCard(CardEvent(sims[i].card))
    BY <2>1, MessageTypes DEF SimRecords, AboutCard, CardEvent
  <2>3. ~history.crossed => Leaves(CardEvent(sims[i].card), shared.current_idi)
    BY <1>4 DEF AnnounceSim, PublishInv, SimPublishes, Leaves
  <2>4. QED BY <1>1, <1>4, <2>2, <2>3 DEF AnnounceSim
<1>5. CASE SendMode \/ \E j \in DOMAIN jobs : SendResult(j)
  <2>1. PICK m \in HostMessages : Send(m) /\ ~AboutCard(m)
    <3>1. CASE SendMode
      <4>1. ModeMsg(cli.mode) \in HostMessages /\ ~AboutCard(ModeMsg(cli.mode))
        BY <1>0, MessageTypes DEF CliRecords, AboutCard, ModeMsg
      <4>2. QED BY <3>1, <4>1 DEF SendMode
    <3>2. ASSUME NEW j \in DOMAIN jobs, SendResult(j)
          PROVE  \E m \in HostMessages : Send(m) /\ ~AboutCard(m)
      <4> DEFINE result ==
            [ok |-> jobs[j].ok, amount |-> IF MerchantSet THEN jobs[j].amount ELSE 0]
      <4>1. jobs[j] \in JobRecords
        BY <1>0
      <4>2. result \in Results
        BY <4>1 DEF JobRecords, Results
      <4>3. ResultMsg(result) \in HostMessages /\ ~AboutCard(ResultMsg(result))
        BY <4>2, MessageTypes DEF AboutCard, ResultMsg
      <4>4. Send(ResultMsg(result))
        BY <3>2 DEF SendResult
      <4> HIDE DEF result
      <4>5. QED BY <4>3, <4>4
    <3>3. QED BY <1>5, <3>1, <3>2
  <2>2. UNCHANGED <<shared, history>> /\ (Publishing => Publishing')
    BY <1>0, <1>5 DEF SendMode, SendResult, Publishing, readerVars
  <2>3. QED BY <2>1, <2>2, SendHolds DEF CardInv
<1>6. CASE Deliver
  <2>1. /\ toTerm # << >> /\ toTerm' = Tail(toTerm)
        /\ UNCHANGED <<shared, history, loop, cli, sims>>
        /\ page'.link = page.link /\ page'.missed = page.missed
        /\ page'.card = CASE Head(toTerm).type = "card" -> Head(toTerm).card
                          [] Head(toTerm).type = "cardRemoved" -> None [] OTHER -> page.card
    BY <1>0, <1>6 DEF Deliver, PageRecords, readerVars
  <2>2. Holds(toTerm, page.card, shared.current_idi) =>
          Holds(Tail(toTerm), page'.card, shared.current_idi)
    BY <1>0, <2>1, HoldsDelivered
  <2>3. Publishing' <=> Publishing
    BY <2>1 DEF Publishing
  <2>4. QED BY <2>1, <2>2, <2>3 DEF CardInv
<1>7. ASSUME NEW new \in BOOLEAN, Connect(new) PROVE CardInv'
  <2>1. /\ toTerm = << >> /\ toTerm' = << ModeMsg(shared.pay_mode) >>
        /\ UNCHANGED <<history, loop, cli, sims>>
        /\ shared'.current_idi = shared.current_idi /\ page'.link = Len(conns) + 1
        /\ page'.card = None \/ (page'.card = page.card /\ page'.missed = page.missed)
    BY <1>0, <1>7 DEF Connect, Register, FreshPage, CardInv, PageRecords, SharedRecords,
       readerVars
  <2>2. \A k \in DOMAIN toTerm' : ~AboutCard(toTerm'[k])
    BY <2>1 DEF AboutCard, ModeMsg
  <2>3. Holds(toTerm, page.card, shared.current_idi) => page.card \in {None, shared.current_idi}
    BY <2>1 DEF Holds
  <2>4. Publishing' <=> Publishing
    BY <2>1 DEF Publishing
  <2>5. QED BY <1>0, <2>1, <2>2, <2>3, <2>4 DEF CardInv, Holds
<1>8. CASE Disconnect
  <2> DEFINE lost == \E i \in DOMAIN toTerm : AboutCard(toTerm[i])
  <2>1. /\ toTerm' = << >> /\ page' = [page EXCEPT !.link = 0, !.missed = @ \/ lost]
        /\ UNCHANGED <<shared, history, loop, cli, sims>>
    BY <1>8 DEF Disconnect, readerVars
  <2>2. page'.card = page.card /\ page'.missed = (page.missed \/ lost)
    BY <1>0, <2>1 DEF PageRecords
  <2>3. ~lost /\ Holds(toTerm, page.card, shared.current_idi) =>
          Holds(<< >>, page.card, shared.current_idi)
    BY DEF Holds, Leaves, AboutCard, CardRemoved, CardEvent
  <2>4. Publishing' <=> Publishing
    BY <2>1 DEF Publishing
  <2> HIDE DEF lost
  <2>5. page.missed \in BOOLEAN /\ lost \in BOOLEAN
    BY <1>0 DEF PageRecords, lost
  <2>6. QED BY <2>1, <2>2, <2>3, <2>4, <2>5 DEF CardInv
<1>9. CASE PublishCard \/ ForgetCard \/ Remove \/ \E i \in DOMAIN sims : PublishSim(i)
  <2>1. UNCHANGED <<page, toTerm>>
    BY <1>9 DEF PublishCard, ForgetCard, Forget, Remove, PublishSim, StoreSim, linkVars
  <2>2. Publishing'
    <3>1. CASE PublishCard \/ ForgetCard \/ Remove
      BY <1>0, <3>1 DEF PublishCard, ForgetCard, Forget, Remove, Publishing, LoopRecords,
         CliRecords
    <3>2. ASSUME NEW i \in DOMAIN sims, PublishSim(i) PROVE Publishing'
      <4>1. sims' = [sims EXCEPT ![i].pc = "announce"] /\ sims[i] \in SimRecords
        BY <1>0, <3>2 DEF PublishSim, StoreSim
      <4>2. sims'[i] = [sims[i] EXCEPT !.pc = "announce"] /\ i \in DOMAIN sims'
        BY <1>0, <4>1
      <4>3. sims'[i].pc = "announce"
        BY <4>1, <4>2 DEF SimRecords
      <4>4. QED BY <4>2, <4>3 DEF Publishing
    <3>3. QED BY <1>9, <3>1, <3>2
  <2>3. QED BY <2>1, <2>2 DEF CardInv
<1>10. ASSUME NEW c \in Idis, TestCard(c) PROVE CardInv'
  <2>1. /\ UNCHANGED <<page, toTerm, shared, loop, cli>>
        /\ sims' = Append(sims, [pc |-> "store", card |-> c])
        /\ history'.crossed = history.crossed
    BY <1>0, <1>10 DEF TestCard, readerVars, linkVars
  <2>2. \A i \in DOMAIN sims : i \in DOMAIN sims' /\ sims'[i] = sims[i]
    BY <1>0, <2>1
  <2>3. QED BY <2>1, <2>2, CardFrame DEF Publishing
<1>11. CASE \/ Poll \/ Authenticate \/ ReadCard \/ ReadFails \/ Report \/ UNCHANGED vars
            \/ (\E mode \in Modes : SetMode(mode))
            \/ (\E i \in DOMAIN conns : ConnectionEnds(i) \/ HandleFaceOk(i))
            \/ (\E c \in Idis \cup {None} : MoveCard(c))
            \/ \E j \in DOMAIN jobs : CheckBalance(j) \/ PayExecutes(j) \/ PayFails(j)
  <2>1. /\ UNCHANGED <<page, toTerm, history, sims>>
        /\ shared'.current_idi = shared.current_idi
    BY <1>0, <1>11 DEF Poll, Authenticate, ReadCard, ReadFails, SessionEnds, Report, SetMode,
       ConnectionEnds, HandleFaceOk, TakeReport, MoveCard, CheckBalance, AskBalance,
       PayExecutes, PayFails, SharedRecords, linkVars, vars
  <2>2. Publishing => Publishing'
    BY <1>0, <1>11 DEF Poll, Authenticate, ReadCard, ReadFails, SessionEnds, Report, SetMode,
       ConnectionEnds, HandleFaceOk, TakeReport, MoveCard, CheckBalance, AskBalance,
       PayExecutes, PayFails, Publishing, readerVars, vars
  <2>3. QED BY <2>1, <2>2, CardFrame
<1>12. QED
  BY <1>2, <1>3, <1>4, <1>5, <1>6, <1>7, <1>8, <1>9, <1>10, <1>11
  DEF Next, FelicaLoop, Commands, Sending, Simulate, Link, RunPayment

\* A page that was told everything shows the current card or none, unless two
\* threads published at once or an event about a card was lost on a dead link.
THEOREM StaleCardHasACauseCorrect == Spec => []StaleCardHasACause
<1>1. CardInv /\ PublishInv /\ TellType => StaleCardHasACause
  <2> SUFFICES ASSUME CardInv, PublishInv, TellType, toTerm = << >>, ~Publishing,
                      ~history.crossed, ~page.missed
               PROVE  page.card \in {None, shared.current_idi}
    BY DEF StaleCardHasACause, PublishInv, TellType, PageRecords
  <2>1. Holds(toTerm, page.card, shared.current_idi) /\ DOMAIN toTerm = {}
    BY DEF CardInv
  <2>2. QED BY <2>1 DEF Holds
<1>2. Spec => []TellType
  BY TellInit, TellStep, HostTyped, PTL DEF Spec
<1>3. Spec => []CardInv
  BY <1>2, CardInit, CardStep, HostTyped, PublishInvariant, PTL DEF Spec
<1>4. QED BY <1>1, <1>2, <1>3, PublishInvariant, PTL

-----------------------------------------------------------------------------
(* The till. This daemon, too, is one: a session is on offer while its         *)
(* attestation is in Shared, and taken while a payment holds it; the simulated *)
(* cards only withdraw.                                                        *)

SessionOf(att) == IF att = None THEN 0 ELSE att.r1
TakenSessions ==
  {[session |-> jobs[j].att.r1, amount |-> jobs[j].amount] :
     j \in {k \in DOMAIN jobs : jobs[k].att # None}}

HostTill == INSTANCE Till WITH
              Cards <- Idis, Opening <- InitBalance, Numbers <- MaxR1,
              asked <- shared.pay_mode, sessions <- issued, fresh <- (loop.att # None),
              current <- SessionOf(shared.current_att), taken <- TakenSessions,
              spent <- burned

\* What the card loop holds is the last session, and no payment holds what it
\* or Shared holds.
ApartInv ==
  /\ loop.att # None => loop.att.r1 = Len(issued)
  /\ \A j \in DOMAIN jobs : jobs[j].att # None =>
       /\ loop.att # None => loop.att.r1 # jobs[j].att.r1
       /\ shared.current_att # None => shared.current_att.r1 # jobs[j].att.r1
  /\ loop.att # None /\ shared.current_att # None => loop.att.r1 # shared.current_att.r1

LEMMA ApartInit == Init => ApartInv
BY DEF Init, ApartInv

\* Whoever holds an attestation holds it, gives it to nobody, or drops it.
LEMMA ApartFrame ==
  ASSUME ApartInv, UNCHANGED issued, loop'.att \in {loop.att, None},
         shared'.current_att \in {shared.current_att, None}, DOMAIN jobs' = DOMAIN jobs,
         \A j \in DOMAIN jobs : jobs'[j].att = jobs[j].att
  PROVE  ApartInv'
BY DEF ApartInv

LEMMA ApartStep == HostType /\ TapInv /\ PayInv /\ ApartInv /\ [Next]_vars => ApartInv'
<1> SUFFICES ASSUME HostType, TapInv, PayInv, ApartInv, [Next]_vars PROVE ApartInv'
  OBVIOUS
<1>0. /\ loop \in LoopRecords /\ shared \in SharedRecords /\ issued \in Seq(Idis)
      /\ jobs \in Seq(JobRecords)
  BY DEF HostType
<1>1. CASE ReadCard /\ loop.card # last_idm
  <2>1. /\ loop'.att.r1 = Len(issued) + 1 /\ Len(issued') = Len(issued) + 1
        /\ UNCHANGED <<shared, jobs>>
    <3>1. /\ loop' = [loop EXCEPT !.pc = "store",
                                  !.att = [idi |-> loop.card, r1 |-> Len(issued) + 1]]
          /\ issued' = Append(issued, loop.card) /\ UNCHANGED <<shared, jobs>>
      BY <1>1 DEF ReadCard
    <3>2. loop'.att = [idi |-> loop.card, r1 |-> Len(issued) + 1]
      BY <1>0, <3>1 DEF LoopRecords
    <3>3. Len(issued') = Len(issued) + 1
      BY <1>0, <3>1
    <3>4. QED BY <3>1, <3>2, <3>3
  <2>2. /\ \A j \in DOMAIN jobs : jobs[j].att # None => jobs[j].att.r1 \in 1..Len(issued)
        /\ shared.current_att # None => shared.current_att.r1 \in 1..Len(issued)
    BY DEF PayInv, JobInv, TapInv, Backed
  <2>3. /\ \A j \in DOMAIN jobs : jobs[j].att # None => jobs[j].att.r1 # Len(issued) + 1
        /\ shared.current_att # None => shared.current_att.r1 # Len(issued) + 1
    BY <1>0, <2>2
  <2>4. QED BY <2>1, <2>3 DEF ApartInv
<1>2. CASE PublishCard
  <2>1. /\ loop'.att = None /\ shared'.current_att = loop.att /\ UNCHANGED <<issued, jobs>>
    BY <1>0, <1>2 DEF PublishCard, StoreCard, LoopRecords, SharedRecords, chainVars
  <2>2. QED BY <2>1 DEF ApartInv
<1>3. ASSUME NEW i \in DOMAIN conns, HandleFaceOk(i) PROVE ApartInv'
  <2>1. UNCHANGED <<loop, issued>>
    BY <1>3 DEF HandleFaceOk, TakeReport, readerVars, chainVars
  <2>2. CASE jobs' = Append(jobs, NewJob(i)) /\ shared' = [shared EXCEPT !.current_att = None]
    <3>1. shared'.current_att = None /\ NewJob(i).att = shared.current_att
      BY <1>0, <2>2 DEF SharedRecords, NewJob
    <3>2. \A j \in DOMAIN jobs' : jobs'[j] = NewJob(i) \/ (j \in DOMAIN jobs /\ jobs'[j] = jobs[j])
      BY <1>0, <2>2
    <3>3. QED BY <2>1, <3>1, <3>2 DEF ApartInv
  <2>3. CASE UNCHANGED <<jobs, shared>>
    BY <2>1, <2>3, ApartFrame
  <2>4. QED BY <1>3, <2>2, <2>3 DEF HandleFaceOk, TakeReport
<1>4. ASSUME NEW j \in DOMAIN jobs, RunPayment(j) PROVE ApartInv'
  <2>1. UNCHANGED <<loop, issued, shared>>
    <3>1. CASE CheckBalance(j) \/ PayFails(j)
      BY <3>1 DEF CheckBalance, AskBalance, PayFails, readerVars, chainVars
    <3>2. CASE PayExecutes(j)
      BY <3>2 DEF PayExecutes, readerVars
    <3>3. CASE SendResult(j)
      BY <3>3 DEF SendResult, readerVars, chainVars
    <3>4. QED BY <1>4, <3>1, <3>2, <3>3 DEF RunPayment
  <2>2. DOMAIN jobs' = DOMAIN jobs /\ \A k \in DOMAIN jobs : jobs'[k].att = jobs[k].att
    BY <1>4, PaymentType
  <2>3. QED BY <2>1, <2>2, ApartFrame
<1>5. CASE FelicaLoop /\ ~PublishCard /\ ~(ReadCard /\ loop.card # last_idm)
  <2>1. /\ loop'.att \in {loop.att, None} /\ UNCHANGED <<issued, jobs>>
        /\ shared'.current_att \in {shared.current_att, None}
    BY <1>0, <1>5 DEF FelicaLoop, Poll, Authenticate, ReadCard, ReadFails, SessionEnds,
       AnnounceCard, ForgetCard, Forget, StoreCard, AnnounceRemoval, LoopRecords, SharedRecords,
       chainVars
  <2>2. QED BY <2>1, ApartFrame
<1>6. CASE Commands \/ Sending \/ Simulate
  <2>1. UNCHANGED <<loop, issued, jobs>>
    <3>1. CASE Commands
      BY <3>1 DEF Commands, SetMode, TestCard, Remove, readerVars, chainVars
    <3>2. CASE Sending
      BY <3>2 DEF Sending, SendMode, SendRemoved, readerVars, chainVars
    <3>3. CASE Simulate
      BY <3>3 DEF Simulate, PublishSim, StoreSim, AnnounceSim, readerVars, chainVars
    <3>4. QED BY <1>6, <3>1, <3>2, <3>3
  <2>2. shared'.current_att \in {shared.current_att, None}
    <3>1. CASE Commands
      BY <1>0, <3>1 DEF Commands, SetMode, TestCard, Remove, StoreCard, SharedRecords
    <3>2. CASE Sending
      BY <3>2 DEF Sending, SendMode, SendRemoved
    <3>3. ASSUME NEW i \in DOMAIN sims, PublishSim(i) \/ AnnounceSim(i)
          PROVE  shared'.current_att \in {shared.current_att, None}
      BY <1>0, <3>3 DEF PublishSim, StoreSim, AnnounceSim, StoreCard, SharedRecords
    <3>4. QED BY <1>6, <3>1, <3>2, <3>3 DEF Simulate
  <2>3. QED BY <2>1, <2>2, ApartFrame
<1>7. CASE Link /\ ~\E i \in DOMAIN conns : HandleFaceOk(i)
  <2>1. \/ \E new \in BOOLEAN : Connect(new)
        \/ Deliver \/ Disconnect \/ Report
        \/ \E i \in DOMAIN conns : ConnectionEnds(i)
    BY <1>7 DEF Link
  <2>2. UNCHANGED <<loop, issued, jobs>> /\ shared'.current_att = shared.current_att
    <3>1. ASSUME NEW new \in BOOLEAN, Connect(new)
          PROVE  UNCHANGED <<loop, issued, jobs>> /\ shared'.current_att = shared.current_att
      BY <1>0, <3>1 DEF Connect, Register, SharedRecords, readerVars, chainVars
    <3>2. CASE Deliver \/ Disconnect \/ Report
      BY <3>2 DEF Deliver, Disconnect, Report, readerVars, chainVars
    <3>3. ASSUME NEW i \in DOMAIN conns, ConnectionEnds(i)
          PROVE  UNCHANGED <<loop, issued, jobs>> /\ shared'.current_att = shared.current_att
      BY <1>0, <3>3 DEF ConnectionEnds, SharedRecords, readerVars, chainVars
    <3>4. QED BY <2>1, <3>1, <3>2, <3>3
  <2>3. QED BY <2>2, ApartFrame
<1>8. CASE UNCHANGED vars \/ \E c \in Idis \cup {None} : MoveCard(c)
  <2>1. UNCHANGED <<loop, shared, issued, jobs>>
    BY <1>8 DEF MoveCard, readerVars, chainVars, vars
  <2>2. QED BY <2>1, ApartFrame
<1>9. QED BY <1>1, <1>2, <1>3, <1>4, <1>5, <1>6, <1>7, <1>8 DEF Next

LEMMA TakenMember ==
  \A t : t \in TakenSessions <=>
    \E j \in DOMAIN jobs :
      jobs[j].att # None /\ t = [session |-> jobs[j].att.r1, amount |-> jobs[j].amount]
BY DEF TakenSessions

\* A payment goes on and keeps what it holds.
LEMMA TakenKept ==
  ASSUME DOMAIN jobs' = DOMAIN jobs,
         \A j \in DOMAIN jobs : jobs'[j].att = jobs[j].att /\ jobs'[j].amount = jobs[j].amount
  PROVE  TakenSessions' = TakenSessions
<1>1. \A t : t \in TakenSessions' <=>
        \E j \in DOMAIN jobs' :
          jobs'[j].att # None /\ t = [session |-> jobs'[j].att.r1, amount |-> jobs'[j].amount]
  BY DEF TakenSessions
<1>2. \A t : t \in TakenSessions' <=> t \in TakenSessions
  BY <1>1, TakenMember
<1>3. QED BY <1>2

\* A payment starts.
LEMMA TakenMore ==
  ASSUME HostType, NEW job, jobs' = Append(jobs, job)
  PROVE  TakenSessions' =
           TakenSessions \cup
             (IF job.att = None THEN {}
              ELSE {[session |-> job.att.r1, amount |-> job.amount]})
<1> DEFINE n == Len(jobs) + 1
           more == IF job.att = None THEN {}
                   ELSE {[session |-> job.att.r1, amount |-> job.amount]}
<1>0. jobs \in Seq(JobRecords)
  BY DEF HostType
<1>1. /\ DOMAIN jobs' = DOMAIN jobs \cup {n} /\ jobs'[n] = job /\ n \notin DOMAIN jobs
      /\ \A j \in DOMAIN jobs : jobs'[j] = jobs[j]
  BY <1>0
<1>2. \A t : t \in TakenSessions' <=>
        \E j \in DOMAIN jobs' :
          jobs'[j].att # None /\ t = [session |-> jobs'[j].att.r1, amount |-> jobs'[j].amount]
  BY DEF TakenSessions
<1>3. \A t : t \in more <=>
        job.att # None /\ t = [session |-> job.att.r1, amount |-> job.amount]
  OBVIOUS
<1> HIDE DEF n, more
<1>4. \A t : t \in TakenSessions' <=> t \in TakenSessions \/ t \in more
  BY <1>1, <1>2, <1>3, TakenMember
<1>5. TakenSessions' = TakenSessions \cup more
  BY <1>4
<1>6. QED BY <1>5 DEF more

\* A step the till does not see.
LEMMA TillStutters ==
  ASSUME shared'.pay_mode = shared.pay_mode, issued' = issued,
         loop'.att = loop.att, shared'.current_att = shared.current_att,
         TakenSessions' = TakenSessions, burned' = burned, balance' = balance
  PROVE  [HostTill!Next]_(HostTill!vars)
BY DEF HostTill!vars, SessionOf

\* A step that may only take what is on offer away.
LEMMA TillWithdraws ==
  ASSUME shared'.pay_mode = shared.pay_mode, shared'.current_att \in {shared.current_att, None},
         loop'.att = loop.att, UNCHANGED <<issued, jobs, burned, balance>>
  PROVE  [HostTill!Next]_(HostTill!vars)
<1>1. TakenSessions' = TakenSessions
  BY TakenKept
<1>2. CASE shared'.current_att = shared.current_att
  BY <1>1, <1>2, TillStutters
<1>3. CASE shared'.current_att = None
  <2>1. HostTill!Withdraw
    BY <1>1, <1>3 DEF HostTill!Withdraw, SessionOf
  <2>2. QED BY <2>1 DEF HostTill!Next
<1>4. QED BY <1>2, <1>3

LEMMA TillLoop ==
  ASSUME HostType, TapInv, ApartInv, FelicaLoop
  PROVE  [HostTill!Next]_(HostTill!vars)
<1>0. /\ loop \in LoopRecords /\ shared \in SharedRecords /\ issued \in Seq(Idis)
      /\ loop.pc \in {"session", "attest", "store", "announce"} => loop.card \in Idis
  BY DEF HostType
<1>1. UNCHANGED <<jobs, burned, balance>>
  BY DEF FelicaLoop, Poll, Authenticate, ReadCard, ReadFails, SessionEnds, PublishCard,
     AnnounceCard, ForgetCard, Forget, AnnounceRemoval, chainVars
<1>2. TakenSessions' = TakenSessions
  BY <1>1, TakenKept
<1>3. CASE ReadCard /\ loop.card # last_idm
  <2>1. /\ loop' = [loop EXCEPT !.pc = "store",
                                !.att = [idi |-> loop.card, r1 |-> Len(issued) + 1]]
        /\ issued' = Append(issued, loop.card) /\ UNCHANGED shared /\ loop.card \in Idis
        /\ loop.pc = "attest" /\ Len(issued) < MaxTaps
    BY <1>0, <1>3 DEF ReadCard
  <2>2. loop'.att = [idi |-> loop.card, r1 |-> Len(issued) + 1]
    BY <1>0, <2>1 DEF LoopRecords
  <2>3. loop.att = None /\ loop'.att # None
    <3>1. Len(issued) + 1 \in MaxR1
      BY <1>0, <2>1, HostAssumption DEF MaxR1
    <3>2. loop'.att \in Attestations
      BY <2>1, <2>2, <3>1 DEF Attestations
    <3>3. loop.att = None
      BY <2>1 DEF TapInv
    <3>4. QED BY <3>2, <3>3, NoneAssumption
  <2>4. HostTill!Attest(loop.card)
    BY <1>1, <1>2, <2>1, <2>3 DEF HostTill!Attest
  <2>5. QED BY <2>1, <2>4 DEF HostTill!Next
<1>4. CASE PublishCard
  <2>1. loop.att # None /\ loop.att.r1 = Len(issued)
    BY <1>4 DEF PublishCard, TapInv, ApartInv
  <2>2. /\ loop'.att = None /\ shared'.current_att = loop.att
        /\ shared'.pay_mode = shared.pay_mode /\ issued' = issued
    BY <1>0, <1>4 DEF PublishCard, StoreCard, LoopRecords, SharedRecords, chainVars
  <2>3. HostTill!Offer
    BY <1>1, <1>2, <2>1, <2>2 DEF HostTill!Offer, SessionOf
  <2>4. QED BY <2>3 DEF HostTill!Next
<1>5. CASE \/ Poll \/ Authenticate \/ ReadFails \/ AnnounceCard \/ ForgetCard \/ AnnounceRemoval
           \/ (ReadCard /\ loop.card = last_idm)
  <2>1. loop'.att = loop.att /\ issued' = issued
    BY <1>0, <1>5 DEF Poll, Authenticate, ReadCard, ReadFails, SessionEnds, AnnounceCard,
       ForgetCard, Forget, AnnounceRemoval, LoopRecords, chainVars
  <2>2. /\ shared'.pay_mode = shared.pay_mode
        /\ shared'.current_att \in {shared.current_att, None}
    BY <1>0, <1>5 DEF Poll, Authenticate, ReadCard, ReadFails, SessionEnds, AnnounceCard,
       ForgetCard, Forget, StoreCard, AnnounceRemoval, SharedRecords
  <2>3. QED BY <1>1, <2>1, <2>2, TillWithdraws
<1>6. QED BY <1>3, <1>4, <1>5 DEF FelicaLoop

LEMMA TillFaceOk ==
  ASSUME HostType, TapInv, ApartInv, NEW i \in DOMAIN conns, HandleFaceOk(i)
  PROVE  [HostTill!Next]_(HostTill!vars)
<1>0. shared \in SharedRecords /\ UNCHANGED <<loop, issued, burned, balance>>
  BY DEF HostType, HandleFaceOk, TakeReport, readerVars, chainVars
<1>1. CASE shared.pay_mode # None /\ shared.current_idi # None
  <2>1. /\ jobs' = Append(jobs, NewJob(i)) /\ shared'.current_att = None
        /\ shared'.pay_mode = shared.pay_mode
    <3>1. jobs' = Append(jobs, NewJob(i)) /\ shared' = [shared EXCEPT !.current_att = None]
      BY <1>1 DEF HandleFaceOk, TakeReport
    <3>2. QED BY <1>0, <3>1 DEF SharedRecords
  <2>2. NewJob(i).att = shared.current_att /\ NewJob(i).amount = shared.pay_mode
    BY DEF NewJob
  <2>3. TakenSessions' =
          TakenSessions \cup
            (IF shared.current_att = None THEN {}
             ELSE {[session |-> shared.current_att.r1, amount |-> shared.pay_mode]})
    BY <2>1, <2>2, TakenMore
  <2>4. CASE shared.current_att = None
    BY <1>0, <2>1, <2>3, <2>4, TillStutters
  <2>5. CASE shared.current_att # None
    <3>1. shared.current_att.r1 \in MaxR1
      BY <1>0, <2>5 DEF SharedRecords, Attestations
    <3>2. /\ SessionOf(shared.current_att) = shared.current_att.r1
          /\ shared.current_att.r1 # 0
          /\ SessionOf(shared.current_att)' = 0
      BY <2>1, <2>5, <3>1 DEF SessionOf, MaxR1
    <3>3. \A t \in TakenSessions : t.session # shared.current_att.r1
      BY <2>5, TakenMember DEF ApartInv
    <3>4. TakenSessions' = TakenSessions \cup
            {[session |-> SessionOf(shared.current_att), amount |-> shared.pay_mode]}
      BY <2>3, <2>5, <3>2
    <3>5. HostTill!Take
      BY <1>0, <1>1, <2>1, <3>2, <3>3, <3>4 DEF HostTill!Take
    <3>6. QED BY <3>5 DEF HostTill!Next
  <2>6. QED BY <2>4, <2>5
<1>2. CASE ~(shared.pay_mode # None /\ shared.current_idi # None)
  <2>1. UNCHANGED <<jobs, shared>>
    BY <1>2 DEF HandleFaceOk, TakeReport
  <2>2. QED BY <1>0, <2>1, TillWithdraws
<1>3. QED BY <1>1, <1>2

LEMMA TillPayment ==
  ASSUME HostType, PayInv, NEW j \in DOMAIN jobs, RunPayment(j)
  PROVE  [HostTill!Next]_(HostTill!vars)
<1>0. jobs \in Seq(JobRecords) /\ jobs[j] \in JobRecords
  BY DEF HostType
<1>1. UNCHANGED <<loop, shared, issued>>
  <2>1. CASE CheckBalance(j) \/ PayFails(j)
    BY <2>1 DEF CheckBalance, AskBalance, PayFails, readerVars, chainVars
  <2>2. CASE PayExecutes(j)
    BY <2>2 DEF PayExecutes, readerVars
  <2>3. CASE SendResult(j)
    BY <2>3 DEF SendResult, readerVars, chainVars
  <2>4. QED BY <2>1, <2>2, <2>3 DEF RunPayment
<1>2. \A k \in DOMAIN jobs : jobs'[k].amount = jobs[k].amount
  <2>1. CASE CheckBalance(j)
    BY <1>0, <2>1 DEF CheckBalance, AskBalance, JobRecords
  <2>2. CASE PayExecutes(j)
    <3>1. PICK heard \in BOOLEAN : jobs' = [jobs EXCEPT ![j].pc = "send", ![j].ok = heard]
      BY <2>2, Zenon DEF PayExecutes
    <3>2. QED BY <1>0, <3>1 DEF JobRecords
  <2>3. CASE PayFails(j)
    BY <1>0, <2>3 DEF PayFails, JobRecords
  <2>4. CASE SendResult(j)
    <3>1. PICK told : jobs' = [jobs EXCEPT ![j].pc = "done", ![j].told = told]
      BY <2>4 DEF SendResult
    <3>2. QED BY <1>0, <3>1 DEF JobRecords
  <2>5. QED BY <2>1, <2>2, <2>3, <2>4 DEF RunPayment
<1>3. DOMAIN jobs' = DOMAIN jobs /\ \A k \in DOMAIN jobs : jobs'[k].att = jobs[k].att
  BY PaymentType
<1>4. TakenSessions' = TakenSessions
  BY <1>2, <1>3, TakenKept
<1>5. CASE PayExecutes(j)
  <2> DEFINE t == [session |-> jobs[j].att.r1, amount |-> jobs[j].amount]
  <2>1. jobs[j].att # None /\ issued[jobs[j].att.r1] = jobs[j].idi
    BY <1>5 DEF PayExecutes, PayInv, JobInv, Backed
  <2>2. t \in TakenSessions
    BY <2>1, TakenMember
  <2>3. /\ burned[t.session] = << >> /\ balance[issued[t.session]] >= t.amount
        /\ burned' = [burned EXCEPT ![t.session] =
                        << [wallet |-> issued[t.session], amount |-> t.amount] >>]
        /\ balance' = [balance EXCEPT ![issued[t.session]] = @ - t.amount]
    BY <1>5, <2>1 DEF PayExecutes
  <2> HIDE DEF t
  <2>4. HostTill!Pay(t)
    BY <1>1, <1>4, <2>3 DEF HostTill!Pay
  <2>5. QED BY <2>2, <2>4 DEF HostTill!Next
<1>6. CASE CheckBalance(j) \/ PayFails(j) \/ SendResult(j)
  <2>1. UNCHANGED <<burned, balance>>
    BY <1>6 DEF CheckBalance, AskBalance, PayFails, SendResult, chainVars
  <2>2. QED BY <1>1, <1>4, <2>1, TillStutters
<1>7. QED BY <1>5, <1>6 DEF RunPayment

\* The operator's commands, the simulated cards and the connections.
LEMMA TillOthers ==
  ASSUME HostType, Commands \/ Sending \/ Simulate
                     \/ (Link /\ ~\E i \in DOMAIN conns : HandleFaceOk(i))
                     \/ (\E c \in Idis \cup {None} : MoveCard(c)) \/ UNCHANGED vars
  PROVE  [HostTill!Next]_(HostTill!vars)
<1>0. shared \in SharedRecords
  BY DEF HostType
<1>1. ASSUME NEW mode \in Modes, SetMode(mode) PROVE [HostTill!Next]_(HostTill!vars)
  <2>1. /\ shared'.pay_mode = mode /\ shared'.current_att = shared.current_att
        /\ UNCHANGED <<loop, jobs, issued, burned, balance>>
    BY <1>0, <1>1 DEF SetMode, SharedRecords, readerVars, chainVars
  <2>2. TakenSessions' = TakenSessions
    BY <2>1, TakenKept
  <2>3. HostTill!Ask(mode)
    BY <2>1, <2>2 DEF HostTill!Ask, SessionOf
  <2>4. QED BY <2>3 DEF HostTill!Next, Modes
<1>2. CASE Remove \/ \E c \in Idis : TestCard(c)
  <2>1. UNCHANGED <<loop, jobs, issued, burned, balance>>
    BY <1>2 DEF Remove, TestCard, readerVars, chainVars
  <2>2. /\ shared'.pay_mode = shared.pay_mode
        /\ shared'.current_att \in {shared.current_att, None}
    BY <1>0, <1>2 DEF Remove, TestCard, StoreCard, SharedRecords
  <2>3. QED BY <2>1, <2>2, TillWithdraws
<1>3. CASE Sending
  <2>1. UNCHANGED <<loop, shared, jobs, issued, burned, balance>>
    BY <1>3 DEF Sending, SendMode, SendRemoved, readerVars, chainVars
  <2>2. QED BY <2>1, TillWithdraws
<1>4. ASSUME NEW i \in DOMAIN sims, PublishSim(i) \/ AnnounceSim(i)
      PROVE  [HostTill!Next]_(HostTill!vars)
  <2>1. UNCHANGED <<loop, jobs, issued, burned, balance>>
    BY <1>4 DEF PublishSim, StoreSim, AnnounceSim, readerVars, chainVars
  <2>2. /\ shared'.pay_mode = shared.pay_mode
        /\ shared'.current_att \in {shared.current_att, None}
    BY <1>0, <1>4 DEF PublishSim, StoreSim, AnnounceSim, StoreCard, SharedRecords
  <2>3. QED BY <2>1, <2>2, TillWithdraws
<1>5. ASSUME NEW new \in BOOLEAN, Connect(new) PROVE [HostTill!Next]_(HostTill!vars)
  <2>1. /\ UNCHANGED <<loop, jobs, issued, burned, balance>>
        /\ shared'.pay_mode = shared.pay_mode /\ shared'.current_att = shared.current_att
    BY <1>0, <1>5 DEF Connect, Register, SharedRecords, readerVars, chainVars
  <2>2. QED BY <2>1, TillWithdraws
<1>6. CASE Deliver \/ Disconnect \/ Report
  <2>1. UNCHANGED <<loop, shared, jobs, issued, burned, balance>>
    BY <1>6 DEF Deliver, Disconnect, Report, readerVars, chainVars
  <2>2. QED BY <2>1, TillWithdraws
<1>7. ASSUME NEW i \in DOMAIN conns, ConnectionEnds(i) PROVE [HostTill!Next]_(HostTill!vars)
  <2>1. /\ UNCHANGED <<loop, jobs, issued, burned, balance>>
        /\ shared'.pay_mode = shared.pay_mode /\ shared'.current_att = shared.current_att
    BY <1>0, <1>7 DEF ConnectionEnds, SharedRecords, readerVars, chainVars
  <2>2. QED BY <2>1, TillWithdraws
<1>8. CASE (\E c \in Idis \cup {None} : MoveCard(c)) \/ UNCHANGED vars
  <2>1. UNCHANGED <<loop, shared, jobs, issued, burned, balance>>
    BY <1>8 DEF MoveCard, readerVars, chainVars, vars
  <2>2. QED BY <2>1, TillWithdraws
<1>9. QED
  BY <1>1, <1>2, <1>3, <1>4, <1>5, <1>6, <1>7, <1>8 DEF Commands, Simulate, Link

LEMMA TillStep ==
  ASSUME HostType, TapInv, PayInv, ApartInv, [Next]_vars
  PROVE  [HostTill!Next]_(HostTill!vars)
BY TillLoop, TillFaceOk, TillPayment, TillOthers DEF Next

\* The older daemon implements the same till, whatever cards it simulates and
\* whichever connection reports the face: a session is offered, taken and spent
\* once at most, by the wallet of its card (main.rs:191-212, 369-374, 434-447).
THEOREM ImplementsTill == Spec => HostTill!Spec
<1>1. Init => HostTill!Init
  BY DEF Init, HostTill!Init, SessionOf, TakenSessions
<1>2. QED
  BY <1>1, TillStep, ApartInit, ApartStep, PayInit, PayStep, TapInvariant, HostTyped, PTL
  DEF Spec, HostTill!Spec
=============================================================================
