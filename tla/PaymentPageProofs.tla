-------------------------- MODULE PaymentPageProofs --------------------------
(* The page's screens and its captures, for any cards and any schedule of      *)
(* events, taps and late answers of the engine; and what the page holds once   *)
(* its events are all delivered: the host's card, result and mode, because the *)
(* last event on its way about each, or the page when there is none, already   *)
(* has it, unless a thread of the host is about to send one.                   *)
EXTENDS PaymentSafetyProofs

Mine == {i \in DOMAIN captures : captures[i].mine}

\* What a screen is shown with. Besides what ScreenHasItsData says: a face is
\* matched against the card's holder, who is enrolled.
HasData(u) ==
  /\ u.screen \in CaptureScreens \cup {"registerPrompt"} => u.card # None
  /\ u.screen = "lcd" => u.lcd # None
  /\ u.screen = "auth" => u.enrolledIdi = u.card.idi
  /\ u.screen \in {"balance", "paying"} =>
       u.late \/ (u.card # None /\ u.enrolledIdi = u.card.idi)

\* A capture runs only on its own screen, so every way off that screen ends it,
\* and for the card on the page, unless another one came up.
PageInv ==
  /\ HasData(ui)
  /\ ui.busy => ui.screen \in CaptureScreens
  /\ \A i, k \in Mine : i = k
  /\ ui.busy = (Mine # {})
  /\ \A i \in Mine : /\ captures[i].screen = ui.screen
                     /\ captures[i].swapped \/ captures[i].card = ui.card

\* A page with nothing in flight.
LEMMA FreshPage == ui = FreshUi /\ captures = << >> => PageInv
<1> SUFFICES ASSUME ui = FreshUi, captures = << >> PROVE PageInv
  OBVIOUS
<1>1. Mine = {}
  BY DEF Mine
<1>2. QED BY <1>1 DEF FreshUi, PageInv, HasData, CaptureScreens

LEMMA PageInit == Init => PageInv
BY FreshPage DEF Init, TerminalInit

\* Leaving the screen detaches its captures, staying keeps them.
LEMMA DetachedMine ==
  ASSUME TerminalTypeOK, NEW u, NEW other \in BOOLEAN
  PROVE  /\ Detached(u, other) \in Seq(CaptureType)
         /\ Len(Detached(u, other)) = Len(captures)
         /\ DOMAIN Detached(u, other) = DOMAIN captures
         /\ \A i \in DOMAIN captures :
              /\ Detached(u, other)[i].mine <=> (captures[i].mine /\ ui.screen = u.screen)
              /\ Detached(u, other)[i].swapped <=> (captures[i].swapped \/ other)
              /\ Detached(u, other)[i].screen = captures[i].screen
              /\ Detached(u, other)[i].card = captures[i].card
<1>1. captures \in Seq(CaptureType)
  BY DEF TerminalTypeOK, CaptureType
<1>2. /\ Detached(u, other) \in Seq(CaptureType)
      /\ Len(Detached(u, other)) = Len(captures)
  BY <1>1, DetachedType
<1>3. DOMAIN Detached(u, other) = DOMAIN captures
  BY <1>1 DEF Detached
<1>4. ASSUME NEW i \in DOMAIN captures
      PROVE  /\ Detached(u, other)[i].mine <=> (captures[i].mine /\ ui.screen = u.screen)
             /\ Detached(u, other)[i].swapped <=> (captures[i].swapped \/ other)
             /\ Detached(u, other)[i].screen = captures[i].screen
             /\ Detached(u, other)[i].card = captures[i].card
  <2>1. captures[i] \in CaptureType
    BY <1>1
  <2>2. Detached(u, other)[i] =
          [captures[i] EXCEPT !.mine = @ /\ ui.screen = u.screen, !.swapped = @ \/ other]
    BY DEF Detached
  <2>3. QED BY <2>1, <2>2, Zenon DEF CaptureType
<1>5. QED BY <1>2, <1>3, <1>4

\* The page goes to u: staying on the screen keeps its capture, leaving drops it.
LEMMA BecomePage ==
  ASSUME TerminalTypeOK, PageInv, NEW u, NEW other \in BOOLEAN, Become(u, other), HasData(u),
         u.screen \in CaptureScreens /\ u.screen = ui.screen => other \/ u.card = ui.card,
         u.busy = (ui.busy /\ u.screen = ui.screen)
  PROVE  PageInv'
<1>1. /\ ui' = u /\ DOMAIN captures' = DOMAIN captures
      /\ \A i \in DOMAIN captures :
           /\ captures'[i].mine <=> (captures[i].mine /\ ui.screen = u.screen)
           /\ captures'[i].swapped <=> (captures[i].swapped \/ other)
           /\ captures'[i].screen = captures[i].screen
           /\ captures'[i].card = captures[i].card
  BY DetachedMine DEF Become
<1>2. HasData(ui)'
  BY <1>1 DEF HasData
<1>3. CASE u.screen = ui.screen
  <2>1. \A i \in DOMAIN captures : captures'[i].mine <=> captures[i].mine
    BY <1>1, <1>3
  <2>2. Mine' = Mine
    BY <1>1, <2>1 DEF Mine
  <2>3. ui'.busy = ui.busy
    BY <1>1, <1>3 DEF TerminalTypeOK
  <2>4. ASSUME NEW i \in Mine
        PROVE  /\ captures'[i].screen = ui'.screen
               /\ captures'[i].swapped \/ captures'[i].card = ui'.card
    <3>1. i \in DOMAIN captures /\ ui.busy
      BY <2>4 DEF Mine, PageInv
    <3>2. u.screen \in CaptureScreens
      BY <1>3, <3>1 DEF PageInv
    <3>3. QED BY <1>1, <1>3, <2>4, <3>1, <3>2 DEF PageInv
  <2>5. \A i \in Mine' : /\ captures'[i].screen = ui'.screen
                         /\ captures'[i].swapped \/ captures'[i].card = ui'.card
    BY <2>2, <2>4
  <2>6. /\ ui'.busy => ui'.screen \in CaptureScreens
        /\ \A i, k \in Mine' : i = k
        /\ ui'.busy = (Mine' # {})
    BY <1>1, <1>3, <2>2, <2>3 DEF PageInv
  <2>7. QED BY <1>2, <2>5, <2>6 DEF PageInv, HasData
<1>4. CASE u.screen # ui.screen
  <2>1. Mine' = {}
    BY <1>1, <1>4 DEF Mine
  <2>2. ui'.busy = FALSE
    BY <1>1, <1>4
  <2>3. QED BY <1>2, <2>1, <2>2 DEF PageInv, HasData
<1>5. QED BY <1>3, <1>4

LEMMA DeliverPage == TypeInv /\ PageInv /\ Deliver => PageInv'
<1> SUFFICES ASSUME TypeInv, PageInv, Deliver PROVE PageInv'
  OBVIOUS
<1> DEFINE m == Head(toTerm)
           u == OnEvent(ui, m)
<1>0. TerminalTypeOK
  BY DEF TypeInv
<1>1. m \in Messages /\ Become(u, OtherCard(m)) /\ OtherCard(m) \in BOOLEAN
  BY HeadTail DEF TypeInv, LinkType, Deliver, Receive, OtherCard
<1> HIDE DEF m
<1>2. /\ m.type \in {"detecting", "cardRemoved", "mode", "card", "paymentResult"}
      /\ m.type = "card" => m.card \in Cards /\ m.card # None
      /\ m.type = "paymentResult" => m.result \in Results /\ m.result # None
  BY <1>1, MessageParts, NoneAssumption
<1>3. /\ HasData(u)
      /\ u.screen \in CaptureScreens /\ u.screen = ui.screen => OtherCard(m) \/ u.card = ui.card
      /\ u.busy = (ui.busy /\ u.screen = ui.screen)
  <2>1. CASE m.type = "detecting"
    BY <1>0, <2>1 DEF OnEvent, Show, TerminalTypeOK, PageInv, HasData, CaptureScreens
  <2>2. CASE m.type = "mode"
    BY <1>0, <2>2 DEF OnEvent, TerminalTypeOK, PageInv, HasData, CaptureScreens
  <2>3. CASE m.type = "card"
    BY <1>0, <1>2, <2>3 DEF OnEvent, Show, CardScreen, OtherCard, TerminalTypeOK, HasData,
       CaptureScreens
  <2>4. CASE m.type = "cardRemoved"
    BY <1>0, <2>4 DEF OnEvent, GoWaiting, Show, TerminalTypeOK, HasData, CaptureScreens
  <2>5. CASE m.type = "paymentResult"
    BY <1>0, <1>2, <2>5 DEF OnEvent, Show, TerminalTypeOK, HasData, CaptureScreens
  <2>6. QED BY <1>2, <2>1, <2>2, <2>3, <2>4, <2>5
<1>4. QED BY <1>0, <1>1, <1>3, BecomePage

LEMMA CapturePage == TypeInv /\ PageInv /\ Capture => PageInv'
<1> SUFFICES ASSUME TypeInv, PageInv, Capture PROVE PageInv'
  OBVIOUS
<1> DEFINE new == [screen |-> ui.screen, card |-> ui.card, payMode |-> ui.payMode,
                   mine |-> TRUE, swapped |-> FALSE]
<1>0. TerminalTypeOK
  BY DEF TypeInv
<1>1. /\ ui.screen \in CaptureScreens /\ ui.card # None /\ ~ui.busy
      /\ ui' = [ui EXCEPT !.busy = TRUE] /\ captures' = Append(captures, new)
  BY DEF Capture, StartCapture
<1>2. /\ DOMAIN captures' = 1..Len(captures) + 1 /\ DOMAIN captures = 1..Len(captures)
      /\ Len(captures) \in Nat
      /\ captures'[Len(captures) + 1] = new
      /\ \A i \in DOMAIN captures : captures'[i] = captures[i]
  BY <1>0, <1>1 DEF TerminalTypeOK
<1>3. Mine = {}
  BY <1>1 DEF PageInv
<1>4. Mine' = {Len(captures) + 1}
  <2>1. \A i \in DOMAIN captures : ~captures'[i].mine
    BY <1>2, <1>3 DEF Mine
  <2>2. QED BY <1>2, <2>1 DEF Mine
<1>5. /\ ui'.busy = TRUE /\ ui'.screen = ui.screen /\ ui'.card = ui.card /\ ui'.lcd = ui.lcd
      /\ ui'.enrolledIdi = ui.enrolledIdi
  BY <1>0, <1>1 DEF TerminalTypeOK
<1>6. HasData(ui)'
  BY <1>1, <1>5 DEF PageInv, HasData, CaptureScreens
<1>7. \A i \in Mine' : /\ captures'[i].screen = ui'.screen
                       /\ captures'[i].swapped \/ captures'[i].card = ui'.card
  BY <1>2, <1>4, <1>5
<1>8. ui'.screen \in CaptureScreens /\ \A i, k \in Mine' : i = k
  BY <1>1, <1>4, <1>5
<1>9. QED BY <1>4, <1>5, <1>6, <1>7, <1>8 DEF PageInv, HasData

\* The answer to the oldest request goes to its result's screen, which is no
\* capture's, whatever the page shows by then. The answer to the mounted instance's
\* request is about the card on the page, unless another one came up.
LEMMA AnswerPage == TypeInv /\ PageInv /\ Answer => PageInv'
<1> SUFFICES ASSUME TypeInv, PageInv, Answer PROVE PageInv'
  OBVIOUS
<1> DEFINE c == Head(captures)
<1>0. TerminalTypeOK
  BY DEF TypeInv
<1>1. PICK out : FinishCapture(out) /\ captures # << >>
  BY DEF Answer
<1> DEFINE u == FaceResult([ui EXCEPT !.busy = @ /\ ~c.mine], c, out.ok)
<1>2. ui' = u /\ captures' = Tail(Detached(u, FALSE))
  BY <1>1 DEF FinishCapture
<1>3. u.screen \in {"waiting", "balance", "paying"}
      /\ u.busy = (ui.busy /\ ~c.mine /\ u.screen = ui.screen)
  BY <1>0 DEF FaceResult, Dismiss, GoWaiting, Show, TerminalTypeOK
<1>4. HasData(u)
  <2>1. CASE ~out.ok
    BY <1>0, <2>1 DEF FaceResult, Dismiss, GoWaiting, Show, TerminalTypeOK, HasData,
       CaptureScreens
  <2>2. CASE out.ok /\ (~c.mine \/ c.swapped)
    <3>1. u.late
      BY <1>0, <2>2 DEF FaceResult, Show, TerminalTypeOK
    <3>2. u.screen \in {"balance", "paying"}
      BY <1>0, <2>2 DEF FaceResult, Show, TerminalTypeOK
    <3> HIDE DEF u
    <3>3. QED BY <3>1, <3>2 DEF HasData, CaptureScreens
  <2>3. CASE out.ok /\ c.mine /\ ~c.swapped
    <3>1. c = captures[1] /\ 1 \in DOMAIN captures
      BY <1>0, <1>1 DEF TerminalTypeOK
    <3>2. c.screen = ui.screen /\ c.card = ui.card /\ ui.screen \in {"enroll", "auth"}
      BY <2>3, <3>1 DEF PageInv, Mine, CaptureScreens
    <3>3. ui.card # None /\ (ui.screen = "auth" => ui.enrolledIdi = ui.card.idi)
      BY <3>2 DEF PageInv, HasData, CaptureScreens
    <3>4. /\ u.screen \in {"balance", "paying"} /\ u.card = ui.card
          /\ u.enrolledIdi = IF c.screen = "enroll" THEN c.card.idi ELSE ui.enrolledIdi
      BY <1>0, <2>3 DEF FaceResult, Show, TerminalTypeOK
    <3> HIDE DEF u, c
    <3>5. QED BY <3>2, <3>3, <3>4 DEF HasData, CaptureScreens
  <2>4. QED BY <2>1, <2>2, <2>3
<1> HIDE DEF u
<1>5. ~u.busy
  BY <1>3 DEF PageInv, CaptureScreens
<1>6. /\ Detached(u, FALSE) \in Seq(CaptureType) /\ Len(Detached(u, FALSE)) = Len(captures)
      /\ \A i \in DOMAIN captures :
           Detached(u, FALSE)[i].mine <=> (captures[i].mine /\ ui.screen = u.screen)
  BY <1>0, DetachedMine
<1>7. \A i \in DOMAIN captures : ~Detached(u, FALSE)[i].mine
  <2>1. SUFFICES ASSUME NEW i \in DOMAIN captures, captures[i].mine, ui.screen = u.screen
                 PROVE  FALSE
    BY <1>6
  <2>2. ui.screen \in CaptureScreens
    BY <2>1 DEF PageInv, Mine
  <2>3. QED BY <1>3, <2>1, <2>2 DEF CaptureScreens
<1>8. Mine' = {}
  <2> DEFINE d == Detached(u, FALSE)
  <2>1. DOMAIN captures = 1..Len(captures) /\ Len(captures) \in Nat \ {0}
    BY <1>0, <1>1 DEF TerminalTypeOK
  <2>2. d \in Seq(CaptureType) /\ Len(d) = Len(captures) /\ captures' = Tail(d)
    BY <1>2, <1>6
  <2>3. \A i \in DOMAIN captures : ~d[i].mine
    BY <1>7
  <2> HIDE DEF d
  <2>4. /\ DOMAIN captures' = 1..Len(captures) - 1
        /\ \A i \in DOMAIN captures' : captures'[i] = d[i + 1]
    BY <2>1, <2>2
  <2>5. ASSUME NEW i \in DOMAIN captures' PROVE ~captures'[i].mine
    <3>1. i + 1 \in DOMAIN captures /\ captures'[i] = d[i + 1]
      BY <2>1, <2>4
    <3>2. QED BY <2>3, <3>1
  <2>6. QED BY <2>5 DEF Mine
<1>9. HasData(ui)'
  BY <1>2, <1>4 DEF HasData
<1>10. ui'.busy = FALSE
  BY <1>2, <1>3, <1>5
<1>11. QED BY <1>8, <1>9, <1>10 DEF PageInv, HasData

LEMMA PageStep == TypeInv /\ PageInv /\ [Next]_vars => PageInv'
<1> SUFFICES ASSUME TypeInv, PageInv, [Next]_vars PROVE PageInv'
  OBVIOUS
<1>0. TerminalTypeOK
  BY DEF TypeInv
<1>1. CASE Deliver
  BY <1>1, DeliverPage
<1>2. CASE Capture
  BY <1>2, CapturePage
<1>3. CASE Answer
  BY <1>3, AnswerPage
<1>4. CASE Tap
  <2> DEFINE u == Dismiss(ui)
  <2>1. Become(u, FALSE)
    BY <1>4 DEF Tap, Leave
  <2>2. u.screen = "waiting" /\ u.busy = (ui.busy /\ u.screen = ui.screen)
    BY <1>0 DEF Dismiss, GoWaiting, Show, TerminalTypeOK
  <2> HIDE DEF u
  <2>3. HasData(u) /\ u.screen \notin CaptureScreens
    BY <2>2 DEF HasData, CaptureScreens
  <2>4. QED BY <1>0, <2>1, <2>2, <2>3, BecomePage
<1>5. CASE Load
  <2>1. (ui = FreshUi /\ captures = << >>)'
    BY <1>5 DEF Load, Reload, FreshUi
  <2>2. (ui = FreshUi /\ captures = << >> => PageInv)'
    BY FreshPage, PTL
  <2>3. QED BY <2>1, <2>2
<1>6. CASE HostStep \/ Environment \/ UNCHANGED vars
  BY <1>6 DEF HostStep, Environment, vars, terminalVars, PageInv, HasData, Mine
<1>7. QED BY <1>1, <1>2, <1>3, <1>4, <1>5, <1>6 DEF Next

\* Every screen is shown with its card or its result, what follows a face with the
\* card whose holder is enrolled unless a late answer led to it, and busy counts
\* the captures that the page waits for.
THEOREM ScreenHasItsDataCorrect == Spec => []ScreenHasItsData
<1>1. ASSUME PageInv PROVE ScreenHasItsData
  <2>1. CASE Mine = {}
    <3>1. Cardinality(Mine) = 0
      BY <2>1, FS_EmptySet
    <3>2. QED BY <1>1, <2>1, <3>1 DEF PageInv, HasData, ScreenHasItsData, Mine
  <2>2. CASE Mine # {}
    <3>1. PICK i : i \in Mine
      BY <2>2
    <3>2. Mine = {i}
      BY <1>1, <3>1 DEF PageInv
    <3>3. Cardinality(Mine) = 1
      BY <3>2, FS_Singleton
    <3>4. QED BY <1>1, <2>2, <3>3 DEF PageInv, HasData, ScreenHasItsData, Mine
  <2>3. QED BY <2>1, <2>2
<1>2. QED BY <1>1, PageInit, PageStep, TypeInvariant, PTL DEF Spec

-----------------------------------------------------------------------------
(* What the page holds, once the events on their way to it arrived.           *)

\* The last event of q about a matter is one that leaves it right, or q has
\* none and it is right already.
Holds(q, about, leaving, right) ==
  \/ \E k \in DOMAIN q :
       q[k] \in leaving /\ \A l \in DOMAIN q : l > k => q[l].type \notin about
  \/ right /\ \A k \in DOMAIN q : q[k].type \notin about

\* What tells a page the host's card.
CardNow == IF shared.last_card = None THEN CardRemoved ELSE CardMsg(shared.last_card)

CardSaid ==
  Holds(toTerm, {"card", "cardRemoved"}, {CardNow},
        ui.card = IF ui.dismissed THEN None ELSE shared.last_card)
LcdSaid ==
  Holds(toTerm, {"paymentResult"}, {ResultMsg(shared.last_payment)},
        ui.lcd \in {None, shared.last_payment})
ModeSaid ==
  Holds(toTerm, {"mode"}, {ModeMsg(shared.pay_mode)}, ui.payMode = shared.pay_mode)

\* The card the loop is about to announce is the host's, and so is that there is
\* none. The page holds the host's card or will, unless the loop is about to say so.
CardInv ==
  /\ loop.pc = "announce" => shared.last_card = FoundCard
  /\ loop.pc = "removed" => shared.last_card = None
  /\ (connected /\ loop.pc \notin {"announce", "removed"}) => CardSaid

\* With one payment, the result it is about to send is the host's, and the lcd
\* shows the host's result or will, unless the payment is about to send it.
LcdInv ==
  Len(jobs) <= 1 =>
    /\ \A j \in DOMAIN jobs :
         jobs[j].pc = "send" => shared.last_payment = JobResult(jobs[j])
    /\ (connected /\ \A j \in DOMAIN jobs : jobs[j].pc # "send") => LcdSaid

ShownInv == CardInv /\ LcdInv

LEMMA ShownInit == Init => ShownInv
BY DEF Init, FacepayInit, ShownInv, CardInv, LcdInv

LEMMA HoldsAppended ==
  ASSUME NEW q \in Seq(Messages), NEW msg \in Messages, NEW about, NEW leaving, NEW right
  PROVE  /\ msg.type \notin about /\ Holds(q, about, leaving, right)
              => Holds(Append(q, msg), about, leaving, right)
         /\ msg \in leaving => Holds(Append(q, msg), about, leaving, right)
<1> DEFINE p == Append(q, msg)
<1>1. /\ DOMAIN q = 1..Len(q) /\ DOMAIN p = 1..Len(q) + 1 /\ Len(q) \in Nat
      /\ p[Len(q) + 1] = msg /\ \A k \in DOMAIN q : p[k] = q[k]
  OBVIOUS
<1> HIDE DEF p
<1>2. msg \in leaving => Holds(p, about, leaving, right)
  BY <1>1 DEF Holds
<1>3. msg.type \notin about /\ Holds(q, about, leaving, right) => Holds(p, about, leaving, right)
  BY <1>1 DEF Holds
<1>4. QED BY <1>2, <1>3 DEF p

LEMMA HoldsDelivered ==
  ASSUME NEW q \in Seq(Messages), q # << >>, NEW about, NEW leaving, NEW right, NEW later,
         Holds(q, about, leaving, right),
         Head(q).type \notin about /\ right => later, Head(q) \in leaving => later
  PROVE  Holds(Tail(q), about, leaving, later)
<1> DEFINE p == Tail(q)
<1>1. /\ DOMAIN q = 1..Len(q) /\ DOMAIN p = 1..Len(q) - 1
      /\ Len(q) \in Nat \ {0} /\ Head(q) = q[1]
      /\ \A k \in DOMAIN p : k + 1 \in DOMAIN q /\ p[k] = q[k + 1]
  OBVIOUS
<1> HIDE DEF p
<1>2. CASE right /\ \A k \in DOMAIN q : q[k].type \notin about
  BY <1>1, <1>2 DEF Holds
<1>3. ASSUME NEW k \in DOMAIN q, q[k] \in leaving,
             \A l \in DOMAIN q : l > k => q[l].type \notin about
      PROVE  Holds(p, about, leaving, later)
  <2>1. CASE k = 1
    BY <1>1, <1>3, <2>1 DEF Holds
  <2>2. CASE k # 1
    <3>1. k - 1 \in DOMAIN p /\ p[k - 1] \in leaving
      BY <1>1, <1>3, <2>2
    <3>2. \A l \in DOMAIN p : l > k - 1 => p[l].type \notin about
      BY <1>1, <1>3, <2>2
    <3>3. QED BY <3>1, <3>2 DEF Holds
  <2>3. QED BY <2>1, <2>2
<1>4. QED BY <1>2, <1>3 DEF Holds, p

LEMMA Joined ==
  ASSUME NEW q \in Seq(Messages), NEW msg \in Messages
  PROVE  /\ q \o << msg >> \in Seq(Messages) /\ Len(q \o << msg >>) = Len(q) + 1
         /\ (q \o << msg >>)[Len(q) + 1] = msg
         /\ \A k \in 1..Len(q) : (q \o << msg >>)[k] = q[k]
<1>1. << msg >> \in Seq(Messages) /\ Len(<< msg >>) = 1 /\ << msg >>[1] = msg
  OBVIOUS
<1> DEFINE one == << msg >>
<1> HIDE DEF one
<1>2. QED BY <1>1, ConcatProperties DEF one

\* A new client is told the host's mode, and its card and result when it has them.
LEMMA SnapshotHolds ==
  TypeInv =>
    /\ Holds(Snapshot, {"card", "cardRemoved"}, {CardNow}, shared.last_card = None)
    /\ Holds(Snapshot, {"paymentResult"}, {ResultMsg(shared.last_payment)}, TRUE)
    /\ Holds(Snapshot, {"mode"}, {ModeMsg(shared.pay_mode)}, FALSE)
<1> SUFFICES ASSUME TypeInv
             PROVE  /\ Holds(Snapshot, {"card", "cardRemoved"}, {CardNow},
                             shared.last_card = None)
                    /\ Holds(Snapshot, {"paymentResult"}, {ResultMsg(shared.last_payment)}, TRUE)
                    /\ Holds(Snapshot, {"mode"}, {ModeMsg(shared.pay_mode)}, FALSE)
  OBVIOUS
<1> DEFINE m == ModeMsg(shared.pay_mode)
           c == CardMsg(shared.last_card)
           r == ResultMsg(shared.last_payment)
<1>1. m.type = "mode" /\ c.type = "card" /\ r.type = "paymentResult"
  BY DEF ModeMsg, CardMsg, ResultMsg
<1>2. Snapshot = << m >> \o (IF shared.last_card = None THEN << >> ELSE << c >>)
                        \o (IF shared.last_payment = None THEN << >> ELSE << r >>)
  BY DEF Snapshot
<1>3. SharedType /\ << m >> \in Seq(Messages) /\ Len(<< m >>) = 1 /\ << m >>[1] = m
  BY MessagesType DEF TypeInv, DaemonType, SharedType
<1>4. /\ shared.last_card # None => c \in Messages
      /\ shared.last_payment # None => r \in Messages
  BY <1>3, MessagesType DEF SharedType
<1> shared.last_card # None => c = CardNow
  BY DEF CardNow
<1> HIDE DEF m, c, r
<1>5. CASE shared.last_card = None /\ shared.last_payment = None
  <2>1. Snapshot = << m >>
    BY <1>2, <1>5
  <2>2. QED BY <1>1, <1>5, <2>1 DEF Holds, m
<1>6. CASE shared.last_card # None /\ shared.last_payment = None
  <2>1. Snapshot = << m >> \o << c >>
    BY <1>2, <1>3, <1>4, <1>6
  <2>2. DOMAIN Snapshot = 1..2 /\ Snapshot[1] = m /\ Snapshot[2] = c
    BY <1>3, <1>4, <1>6, <2>1, Joined
  <2>3. QED BY <1>1, <1>6, <2>2 DEF Holds, m, r
<1>7. CASE shared.last_card = None /\ shared.last_payment # None
  <2>1. Snapshot = << m >> \o << r >>
    BY <1>2, <1>3, <1>7
  <2>2. DOMAIN Snapshot = 1..2 /\ Snapshot[1] = m /\ Snapshot[2] = r
    BY <1>3, <1>4, <1>7, <2>1, Joined
  <2>3. QED BY <1>1, <1>7, <2>2 DEF Holds, m, r
<1>8. CASE shared.last_card # None /\ shared.last_payment # None
  <2> DEFINE front == << m >> \o << c >>
  <2>1. Snapshot = front \o << r >>
    BY <1>2, <1>8
  <2>2. front \in Seq(Messages) /\ Len(front) = 2 /\ front[1] = m /\ front[2] = c
    BY <1>3, <1>4, <1>8, Joined
  <2> HIDE DEF front
  <2>3. r \in Messages
    BY <1>4, <1>8
  <2>4. /\ front \o << r >> \in Seq(Messages) /\ Len(front \o << r >>) = Len(front) + 1
        /\ (front \o << r >>)[Len(front) + 1] = r
        /\ \A k \in 1..Len(front) : (front \o << r >>)[k] = front[k]
    BY <2>2, <2>3, Joined
  <2>5. DOMAIN Snapshot = 1..3 /\ Snapshot[1] = m /\ Snapshot[2] = c /\ Snapshot[3] = r
    BY <2>1, <2>2, <2>4
  <2>6. QED BY <1>1, <1>8, <2>5 DEF Holds, m, r
<1>9. QED BY <1>5, <1>6, <1>7, <1>8

\* What an event makes of the card and the result.
LEMMA EventShown ==
  ASSUME NEW u \in UiType, NEW m \in Messages
  PROVE  /\ OnEvent(u, m).card = CASE m.type = "card" -> m.card
                                   [] m.type = "cardRemoved" -> None [] OTHER -> u.card
         /\ OnEvent(u, m).lcd = CASE m.type = "paymentResult" -> m.result
                                  [] m.type = "cardRemoved" -> None [] OTHER -> u.lcd
         /\ OnEvent(u, m).dismissed =
              (u.dismissed /\ m.type \notin {"card", "cardRemoved"})
<1>1. m.type \in {"detecting", "cardRemoved", "mode", "card", "paymentResult"}
  BY MessageParts
<1>2. CASE m.type = "detecting"
  BY <1>2 DEF OnEvent, Show, UiType
<1>3. CASE m.type = "mode"
  BY <1>3 DEF OnEvent, UiType
<1>4. CASE m.type = "card"
  BY <1>4 DEF OnEvent, Show, CardScreen, UiType
<1>5. CASE m.type = "cardRemoved"
  BY <1>5 DEF OnEvent, GoWaiting, Show, UiType
<1>6. CASE m.type = "paymentResult"
  BY <1>6 DEF OnEvent, Show, UiType
<1>7. QED BY <1>1, <1>2, <1>3, <1>4, <1>5, <1>6

LEMMA DeliverShown == TypeInv /\ ShownInv /\ Deliver => ShownInv'
<1> SUFFICES ASSUME TypeInv, ShownInv, Deliver PROVE ShownInv'
  OBVIOUS
<1> DEFINE m == Head(toTerm)
<1>1. ui \in UiType /\ toTerm \in Seq(Messages)
  BY DEF TypeInv, TerminalTypeOK, UiType, LinkType
<1>2. /\ toTerm # << >> /\ toTerm' = Tail(toTerm) /\ ui' = OnEvent(ui, m)
      /\ UNCHANGED <<connected, loop, shared, jobs>>
  BY DEF Deliver, Receive, Become, daemonVars
<1>3. m \in Messages
  BY <1>1, <1>2, HeadTail
<1> HIDE DEF m
<1>4. CardSaid => CardSaid'
  <2> DEFINE leaving == {CardNow}
             right == ui.card = IF ui.dismissed THEN None ELSE shared.last_card
             later == ui'.card = IF ui'.dismissed THEN None ELSE shared.last_card
  <2>1. m.type \notin {"card", "cardRemoved"} /\ right => later
    BY <1>1, <1>2, <1>3, EventShown
  <2>2. m \in leaving => later
    <3>1. ASSUME m = CardRemoved PROVE ui'.card = None /\ ui'.dismissed = FALSE
      BY <1>1, <1>2, <1>3, <3>1, EventShown DEF CardRemoved
    <3>2. ASSUME m = CardMsg(shared.last_card)
          PROVE  ui'.card = shared.last_card /\ ui'.dismissed = FALSE
      BY <1>1, <1>2, <1>3, <3>2, EventShown DEF CardMsg
    <3>3. QED BY <3>1, <3>2 DEF CardNow
  <2> HIDE DEF leaving, right, later
  <2>3. Holds(toTerm, {"card", "cardRemoved"}, leaving, right)
          => Holds(Tail(toTerm), {"card", "cardRemoved"}, leaving, later)
    BY <1>1, <1>2, <2>1, <2>2, HoldsDelivered DEF m
  <2>4. QED BY <1>2, <2>3 DEF CardSaid, CardNow, leaving, right, later
<1>5. LcdSaid => LcdSaid'
  <2> DEFINE leaving == {ResultMsg(shared.last_payment)}
             right == ui.lcd \in {None, shared.last_payment}
             later == ui'.lcd \in {None, shared.last_payment}
  <2>1. m.type \notin {"paymentResult"} /\ right => later
    BY <1>1, <1>2, <1>3, EventShown
  <2>2. m \in leaving => later
    BY <1>1, <1>2, <1>3, EventShown DEF ResultMsg
  <2> HIDE DEF leaving, right, later
  <2>3. Holds(toTerm, {"paymentResult"}, leaving, right)
          => Holds(Tail(toTerm), {"paymentResult"}, leaving, later)
    BY <1>1, <1>2, <2>1, <2>2, HoldsDelivered DEF m
  <2>4. QED BY <1>2, <2>3 DEF LcdSaid, leaving, right, later
<1>6. QED BY <1>2, <1>4, <1>5 DEF ShownInv, CardInv, LcdInv, FoundCard

\* A step of the page that leaves the card and the result, or dismisses them.
LEMMA PageShown ==
  ASSUME ShownInv, UNCHANGED <<connected, loop, shared, jobs, toTerm>>,
         \/ ui'.card = ui.card /\ ui'.dismissed = ui.dismissed
         \/ ui'.card = None /\ ui'.dismissed = TRUE,
         ui'.lcd \in {None, ui.lcd}
  PROVE  ShownInv'
<1>1. CardSaid => CardSaid'
  BY DEF CardSaid, CardNow, Holds
<1>2. LcdSaid => LcdSaid'
  BY DEF LcdSaid, Holds
<1>3. QED BY <1>1, <1>2 DEF ShownInv, CardInv, LcdInv, FoundCard

\* A step of the host that sends nothing about a card, and keeps the host's card.
LEMMA CardFrame ==
  ASSUME TypeInv, CardInv, UNCHANGED <<ui, connected>>, shared'.last_card = shared.last_card,
         {loop.pc, loop'.pc} \cap {"announce", "removed"} # {} => UNCHANGED loop,
         \/ UNCHANGED toTerm
         \/ \E msg \in Messages : msg.type \notin {"card", "cardRemoved"} /\ Send(msg)
  PROVE  CardInv'
<1>1. connected /\ CardSaid => CardSaid'
  <2>1. CASE UNCHANGED toTerm
    BY <2>1 DEF CardSaid, CardNow
  <2>2. ASSUME NEW msg \in Messages, msg.type \notin {"card", "cardRemoved"}, Send(msg),
               connected, CardSaid
        PROVE  CardSaid'
    <3>1. toTerm \in Seq(Messages) /\ toTerm' = Append(toTerm, msg)
      BY <2>2 DEF Send, TypeInv, LinkType
    <3>2. QED BY <2>2, <3>1, HoldsAppended DEF CardSaid, CardNow
  <2>3. QED BY <2>1, <2>2
<1>2. QED BY <1>1 DEF CardInv, FoundCard

\* A step of the host that sends no result and keeps the host's, with no payment
\* going to or from its send.
LEMMA LcdFrame ==
  ASSUME TypeInv, LcdInv, UNCHANGED <<ui, connected>>,
         shared'.last_payment = shared.last_payment,
         Len(jobs') <= 1 => Len(jobs) <= 1,
         \A j \in DOMAIN jobs' : jobs'[j].pc = "send" =>
           j \in DOMAIN jobs /\ jobs'[j] = jobs[j],
         \A j \in DOMAIN jobs : jobs[j].pc = "send" =>
           j \in DOMAIN jobs' /\ jobs'[j] = jobs[j],
         \/ UNCHANGED toTerm
         \/ \E msg \in Messages : msg.type \notin {"paymentResult"} /\ Send(msg)
  PROVE  LcdInv'
<1>1. connected /\ LcdSaid => LcdSaid'
  <2>1. CASE UNCHANGED toTerm
    BY <2>1 DEF LcdSaid
  <2>2. ASSUME NEW msg \in Messages, msg.type \notin {"paymentResult"}, Send(msg),
               connected, LcdSaid
        PROVE  LcdSaid'
    <3>1. toTerm \in Seq(Messages) /\ toTerm' = Append(toTerm, msg)
      BY <2>2 DEF Send, TypeInv, LinkType
    <3>2. QED BY <2>2, <3>1, HoldsAppended DEF LcdSaid
  <2>3. QED BY <2>1, <2>2
<1>2. Len(jobs') <= 1 =>
        \A j \in DOMAIN jobs' :
          jobs'[j].pc = "send" => shared'.last_payment = JobResult(jobs'[j])
  BY DEF LcdInv
<1>3. (\A j \in DOMAIN jobs' : jobs'[j].pc # "send")
         => \A j \in DOMAIN jobs : jobs[j].pc # "send"
  OBVIOUS
<1>4. QED BY <1>1, <1>2, <1>3 DEF LcdInv

\* The announcements leave the page with the host's card.
LEMMA AnnouncedShown ==
  ASSUME TypeInv, CardInv, AnnounceCard \/ AnnounceRemoval, UNCHANGED ui
  PROVE  CardInv'
<1> DEFINE msg == IF loop.pc = "announce" THEN CardMsg(FoundCard) ELSE CardRemoved
<1>1. Send(msg) /\ loop'.pc = "poll" /\ UNCHANGED shared
  BY DEF AnnounceCard, AnnounceRemoval, TypeInv, DaemonType, LoopType
<1>2. msg \in Messages
  <2>1. loop.pc = "announce" => FoundCard \in Cards
    BY DEF FoundCard, Cards, TypeInv, DaemonType, LoopHolds, LoopType
  <2>2. QED BY <2>1, MessagesType
<1>3. msg = CardNow /\ CardNow' = CardNow
  <2>1. loop.pc \in {"announce", "removed"}
    BY DEF AnnounceCard, AnnounceRemoval
  <2>2. loop.pc = "announce" => FoundCard \in Cards /\ FoundCard # None
    BY NoneAssumption DEF FoundCard, Cards, TypeInv, DaemonType, LoopHolds, LoopType
  <2>3. QED BY <1>1, <2>1, <2>2 DEF CardInv, CardNow
<1> HIDE DEF msg
<1>4. connected' => connected /\ toTerm \in Seq(Messages) /\ toTerm' = Append(toTerm, msg)
  BY <1>1 DEF Send, TypeInv, LinkType
<1>5. connected' => CardSaid'
  BY <1>1, <1>2, <1>3, <1>4, HoldsAppended DEF CardSaid
<1>6. QED BY <1>1, <1>5 DEF CardInv

\* A result is kept before it is sent, and what is sent is what was kept.
LEMMA ResultShown ==
  ASSUME TypeInv, LcdInv, NEW j \in DOMAIN jobs, KeepResult(j) \/ SendResult(j), UNCHANGED ui
  PROVE  LcdInv'
<1>0. jobs \in Seq(Jobs) /\ jobs[j] \in Jobs /\ SharedType /\ ThreadType
  BY DEF TypeInv, DaemonType, ThreadType
<1>1. /\ DOMAIN jobs' = DOMAIN jobs /\ Len(jobs') = Len(jobs)
      /\ jobs'[j].pc = IF jobs[j].pc = "emit" THEN "send" ELSE "done"
      /\ JobResult(jobs'[j]) = JobResult(jobs[j])
  BY <1>0 DEF KeepResult, SendResult, AdvanceJob, JobResult, Jobs
<1>2. Len(jobs) <= 1 => DOMAIN jobs = {j}
  <2>1. DOMAIN jobs = 1..Len(jobs) /\ Len(jobs) \in Nat
    BY <1>0
  <2>2. QED BY <2>1
<1>3. CASE KeepResult(j)
  <2>1. shared'.last_payment = JobResult(jobs'[j]) /\ jobs'[j].pc = "send"
    BY <1>0, <1>1, <1>3 DEF KeepResult, SharedType
  <2>2. QED BY <1>1, <1>2, <2>1 DEF LcdInv
<1>4. CASE SendResult(j)
  <2> DEFINE msg == ResultMsg(JobResult(jobs[j]))
  <2>1. Len(jobs) <= 1 => msg \in {ResultMsg(shared'.last_payment)}
    BY <1>4 DEF LcdInv, SendResult
  <2>2. msg \in Messages
    BY <1>0, ResultType, MessagesType
  <2> HIDE DEF msg
  <2>3. connected' => toTerm \in Seq(Messages) /\ toTerm' = Append(toTerm, msg)
    BY <1>4 DEF SendResult, Send, TypeInv, LinkType, msg
  <2>4. Len(jobs) <= 1 /\ connected' => LcdSaid'
    BY <2>1, <2>2, <2>3, HoldsAppended DEF LcdSaid
  <2>5. jobs'[j].pc # "send"
    BY <1>1, <1>4 DEF SendResult
  <2>6. QED BY <1>1, <1>2, <2>4, <2>5 DEF LcdInv
<1>5. QED BY <1>3, <1>4

LEMMA PageStepShown ==
  TypeInv /\ PageInv /\ ShownInv /\ (Capture \/ Answer \/ Tap \/ Load) => ShownInv'
<1> SUFFICES ASSUME TypeInv, PageInv, ShownInv, Capture \/ Answer \/ Tap \/ Load
             PROVE  ShownInv'
  OBVIOUS
<1>0. TerminalTypeOK
  BY DEF TypeInv
<1>1. CASE Capture
  <2>1. ui' = [ui EXCEPT !.busy = TRUE]
    BY <1>1 DEF Capture, StartCapture
  <2>2. ui'.card = ui.card /\ ui'.lcd = ui.lcd /\ ui'.dismissed = ui.dismissed
    BY <1>0, <2>1 DEF TerminalTypeOK
  <2>3. QED BY <1>1, <2>2, PageShown DEF Capture, facepayVars, linkVars, daemonVars
<1>2. CASE Answer
  <2>1. PICK out : FinishCapture(out)
    BY <1>2 DEF Answer
  <2>2. ui' = FaceResult([ui EXCEPT !.busy = @ /\ ~Head(captures).mine], Head(captures), out.ok)
    BY <2>1 DEF FinishCapture
  <2>3. /\ \/ ui'.card = ui.card /\ ui'.dismissed = ui.dismissed
           \/ ui'.card = None /\ ui'.dismissed = TRUE
        /\ ui'.lcd \in {None, ui.lcd}
    BY <1>0, <2>2 DEF FaceResult, Dismiss, GoWaiting, Show, TerminalTypeOK
  <2>4. QED BY <1>2, <2>3, PageShown DEF Answer, daemonVars
<1>3. CASE Tap
  <2>1. ui' = Dismiss(ui)
    BY <1>3 DEF Tap, Leave, Become
  <2>2. ui'.card = None /\ ui'.lcd = None /\ ui'.dismissed = TRUE
    BY <1>0, <2>1 DEF Dismiss, GoWaiting, Show, TerminalTypeOK
  <2>3. QED BY <1>3, <2>2, PageShown DEF Tap, facepayVars, linkVars, daemonVars
<1>4. CASE Load
  <2>1. /\ ui'.card = None /\ ui'.lcd = None /\ ui'.dismissed = FALSE /\ toTerm' = Snapshot
        /\ UNCHANGED <<loop, shared, jobs>>
    BY <1>4 DEF Load, Reload, FreshUi, Connect, daemonVars
  <2>2. CardSaid' /\ LcdSaid'
    BY <2>1, SnapshotHolds DEF CardSaid, CardNow, LcdSaid, Holds
  <2>3. QED BY <2>1, <2>2 DEF ShownInv, CardInv, LcdInv, FoundCard
<1>5. QED BY <1>1, <1>2, <1>3, <1>4

LEMMA LoopShown == TypeInv /\ ShownInv /\ CardLoop /\ UNCHANGED ui => ShownInv'
<1> SUFFICES ASSUME TypeInv, ShownInv, CardLoop, UNCHANGED ui PROVE ShownInv'
  OBVIOUS
<1>0. SharedType /\ LoopType /\ LoopHolds
  BY DEF TypeInv, DaemonType
<1>1. LcdInv'
  <2>1. shared'.last_payment = shared.last_payment /\ UNCHANGED <<jobs, connected>>
    BY <1>0 DEF CardLoop, Detect, Authenticate, Attest, AttestFails, LookUpBalance, PublishCard,
       AnnounceCard, ForgetCard, AnnounceRemoval, Send, linkVars, SharedType
  <2>2. /\ Detecting \in Messages /\ Detecting.type = "detecting"
        /\ CardRemoved \in Messages /\ CardRemoved.type = "cardRemoved"
    BY MessagesType DEF Detecting, CardRemoved
  <2>3. AnnounceCard => CardMsg(FoundCard) \in Messages /\ CardMsg(FoundCard).type = "card"
    <3>1. AnnounceCard => FoundCard \in Cards
      BY <1>0 DEF AnnounceCard, FoundCard, Cards, LoopHolds, LoopType
    <3>2. QED BY <3>1, MessagesType DEF CardMsg
  <2>4. CASE Detect \/ AnnounceRemoval \/ AnnounceCard
    <3>1. \E msg \in Messages : msg.type \notin {"paymentResult"} /\ Send(msg)
      BY <2>2, <2>3, <2>4 DEF Detect, AnnounceRemoval, AnnounceCard
    <3>2. QED BY <2>1, <3>1, LcdFrame DEF ShownInv
  <2>5. CASE \/ Authenticate \/ Attest \/ AttestFails \/ LookUpBalance
             \/ PublishCard \/ ForgetCard
    <3>1. UNCHANGED toTerm
      BY <2>5 DEF Authenticate, Attest, AttestFails, LookUpBalance, PublishCard, ForgetCard,
         linkVars
    <3>2. QED BY <2>1, <3>1, LcdFrame DEF ShownInv
  <2>6. QED BY <2>4, <2>5 DEF CardLoop
<1>2. CardInv'
  <2>1. CASE AnnounceCard \/ AnnounceRemoval
    BY <2>1, AnnouncedShown DEF ShownInv
  <2>2. CASE PublishCard
    BY <1>0, <2>2 DEF PublishCard, CardInv, FoundCard, LoopType, SharedType
  <2>3. CASE ForgetCard
    BY <1>0, <2>3 DEF ForgetCard, CardInv, LoopType, SharedType
  <2>4. CASE Detect
    <3>1. Detecting \in Messages /\ Detecting.type \notin {"card", "cardRemoved"}
      BY MessagesType DEF Detecting
    <3>2. loop.pc = "poll" /\ loop'.pc = "authenticate" /\ UNCHANGED <<shared, connected>>
      BY <1>0, <2>4 DEF Detect, Send, LoopType
    <3>3. QED BY <2>4, <3>1, <3>2, CardFrame DEF Detect, ShownInv
  <2>5. CASE Authenticate \/ Attest \/ AttestFails \/ LookUpBalance
    <3>1. /\ loop.pc \in {"authenticate", "attest", "balance"}
          /\ loop'.pc \in {"poll", "attest", "balance", "publish"}
          /\ UNCHANGED <<shared, connected, toTerm>>
      BY <1>0, <2>5 DEF Authenticate, Attest, AttestFails, LookUpBalance, LoopType, linkVars
    <3>2. QED BY <3>1, CardFrame DEF ShownInv
  <2>6. QED BY <2>1, <2>2, <2>3, <2>4, <2>5 DEF CardLoop
<1>3. QED BY <1>1, <1>2 DEF ShownInv

LEMMA OthersShown ==
  TypeInv /\ ShownInv /\ (Operate \/ Payment \/ HandleFaceOk) /\ UNCHANGED ui => ShownInv'
<1> SUFFICES ASSUME TypeInv, ShownInv, Operate \/ Payment \/ HandleFaceOk, UNCHANGED ui
             PROVE  ShownInv'
  OBVIOUS
<1>0. SharedType /\ ThreadType /\ jobs \in Seq(Jobs)
  BY DEF TypeInv, DaemonType, ThreadType
<1>1. CASE Operate
  <2>1. PICK o \in Operators : SendMode(o) \/ \E mode \in Modes : SetPayMode(o, mode)
    BY <1>1 DEF Operate
  <2>2. CASE SendMode(o)
    <3>1. ModeMsg(ops[o].mode) \in Messages /\ ModeMsg(ops[o].mode).type = "mode"
      BY <1>0, <2>2, MessagesType DEF ThreadType, ModeMsg
    <3>2. UNCHANGED <<shared, loop, jobs, connected>> /\ Send(ModeMsg(ops[o].mode))
      BY <2>2 DEF SendMode, Send
    <3>3. CardInv' /\ LcdInv'
      BY <3>1, <3>2, CardFrame, LcdFrame DEF ShownInv
    <3>4. QED BY <3>3 DEF ShownInv
  <2>3. CASE \E mode \in Modes : SetPayMode(o, mode)
    <3>1. /\ UNCHANGED <<loop, jobs, connected, toTerm>>
          /\ shared'.last_card = shared.last_card
          /\ shared'.last_payment = shared.last_payment
      BY <1>0, <2>3 DEF SetPayMode, SharedType, linkVars
    <3>2. CardInv' /\ LcdInv'
      BY <3>1, CardFrame, LcdFrame DEF ShownInv
    <3>3. QED BY <3>2 DEF ShownInv
  <2>4. QED BY <2>1, <2>2, <2>3
<1>2. CASE HandleFaceOk
  <2>1. /\ UNCHANGED <<loop, connected, toTerm>>
        /\ shared'.last_card = shared.last_card
        /\ shared'.last_payment = shared.last_payment
    BY <1>0, <1>2 DEF HandleFaceOk, SharedType
  <2>2. jobs' = jobs \/ (jobs' = Append(jobs, NewJob) /\ NewJob.pc # "send")
    BY <1>2 DEF HandleFaceOk, NewJob
  <2>3. /\ Len(jobs') <= 1 => Len(jobs) <= 1
        /\ \A j \in DOMAIN jobs' : jobs'[j].pc = "send" =>
             j \in DOMAIN jobs /\ jobs'[j] = jobs[j]
        /\ \A j \in DOMAIN jobs : jobs[j].pc = "send" =>
             j \in DOMAIN jobs' /\ jobs'[j] = jobs[j]
    BY <1>0, <2>2
  <2>4. CardInv' /\ LcdInv'
    BY <2>1, <2>3, CardFrame, LcdFrame DEF ShownInv
  <2>5. QED BY <2>4 DEF ShownInv
<1>3. CASE Payment
  <2>1. PICK j \in DOMAIN jobs : RunPayment(j)
    BY <1>3, Zenon DEF Payment
  <2>2. shared'.last_card = shared.last_card /\ UNCHANGED <<loop, connected>>
    <3>1. CASE CheckBalance(j) \/ PayExecutes(j) \/ PayFails(j)
      BY <3>1, Zenon DEF CheckBalance, PayExecutes, PayFails, linkVars
    <3>2. CASE KeepResult(j)
      BY <1>0, <3>2 DEF KeepResult, linkVars, SharedType
    <3>3. CASE SendResult(j)
      BY <3>3, Zenon DEF SendResult, Send
    <3>4. QED BY <2>1, <3>1, <3>2, <3>3, Zenon DEF RunPayment
  <2>3. CASE KeepResult(j)
    <3>1. CardInv'
      BY <2>2, <2>3, CardFrame DEF KeepResult, linkVars, ShownInv
    <3>2. QED BY <2>3, <3>1, ResultShown DEF ShownInv
  <2>4. CASE SendResult(j)
    <3>1. /\ ResultMsg(JobResult(jobs[j])) \in Messages
          /\ ResultMsg(JobResult(jobs[j])).type \notin {"card", "cardRemoved"}
      BY <1>0, ResultType, MessagesType DEF ResultMsg
    <3>2. CardInv'
      BY <2>2, <2>4, <3>1, CardFrame DEF SendResult, ShownInv
    <3>3. QED BY <2>4, <3>2, ResultShown DEF ShownInv
  <2>5. CASE CheckBalance(j) \/ PayExecutes(j) \/ PayFails(j)
    <3>1. UNCHANGED <<shared, toTerm>>
      BY <2>5, Zenon DEF CheckBalance, PayExecutes, PayFails, linkVars
    <3>2. /\ DOMAIN jobs' = DOMAIN jobs /\ Len(jobs') = Len(jobs)
          /\ jobs[j].pc # "send" /\ jobs'[j].pc # "send"
          /\ \A k \in DOMAIN jobs : k # j => jobs'[k] = jobs[k]
      <4>1. jobs[j] \in Jobs
        BY <1>0
      <4>2. CASE CheckBalance(j)
        BY <1>0, <4>1, <4>2 DEF CheckBalance, AdvanceJob, Jobs
      <4>3. CASE PayExecutes(j)
        BY <1>0, <4>1, <4>3 DEF PayExecutes, Jobs
      <4>4. CASE PayFails(j)
        BY <1>0, <4>1, <4>4 DEF PayFails, AdvanceJob, Jobs
      <4>5. QED BY <2>5, <4>2, <4>3, <4>4
    <3>3. CardInv' /\ LcdInv'
      BY <2>2, <3>1, <3>2, CardFrame, LcdFrame, SMTT(40) DEF ShownInv
    <3>4. QED BY <3>3, Zenon DEF ShownInv
  <2>6. QED BY <2>1, <2>3, <2>4, <2>5 DEF RunPayment
<1>4. QED BY <1>1, <1>2, <1>3

LEMMA ShownStep == TypeInv /\ PageInv /\ ShownInv /\ [Next]_vars => ShownInv'
<1> SUFFICES ASSUME TypeInv, PageInv, ShownInv, [Next]_vars PROVE ShownInv'
  OBVIOUS
<1>1. CASE Deliver
  BY <1>1, DeliverShown
<1>2. CASE Capture \/ Answer \/ Tap \/ Load
  BY <1>2, PageStepShown
<1>3. CASE HostStep
  BY <1>3, LoopShown, OthersShown DEF HostStep, terminalVars
<1>4. CASE Environment \/ UNCHANGED vars
  <2>1. CASE Drop /\ UNCHANGED terminalVars
    <3>1. ~connected' /\ UNCHANGED <<ui, loop, shared, jobs>>
      BY <2>1 DEF Drop, daemonVars, terminalVars
    <3>2. CardInv'
      BY <3>1 DEF ShownInv, CardInv, FoundCard
    <3>3. LcdInv'
      BY <3>1 DEF ShownInv, LcdInv
    <3>4. QED BY <3>2, <3>3 DEF ShownInv
  <2>2. CASE \/ (\E c \in Idis \cup {None} : MoveCard(c)) /\ UNCHANGED terminalVars
             \/ UNCHANGED vars
    <3>1. UNCHANGED <<ui, loop, shared, jobs, connected, toTerm>>
      BY <2>2 DEF MoveCard, vars, facepayVars, daemonVars, linkVars, terminalVars
    <3>2. CardInv'
      BY <3>1 DEF ShownInv, CardInv, CardSaid, CardNow, FoundCard
    <3>3. LcdInv'
      BY <3>1 DEF ShownInv, LcdInv, LcdSaid
    <3>4. QED BY <3>2, <3>3 DEF ShownInv
  <2>3. QED BY <1>4, <2>1, <2>2 DEF Environment
<1>5. QED BY <1>1, <1>2, <1>3, <1>4 DEF Next

\* A connected terminal that was told everything has the host's card, unless the
\* card was dismissed, and with one payment at most the host's result or none.
THEOREM PageIsUpToDateCorrect == Spec => []PageIsUpToDate
<1>1. TypeInv /\ ShownInv => PageIsUpToDate
  <2> SUFFICES ASSUME TypeInv, ShownInv, connected, toTerm = << >>,
                      loop.pc \notin {"announce", "removed"}
               PROVE  /\ ui.card = IF ui.dismissed THEN None ELSE shared.last_card
                      /\ (Len(jobs) <= 1
                            /\ \A j \in DOMAIN jobs : jobs[j].pc \notin {"emit", "send"}) =>
                           ui.lcd \in {None, shared.last_payment}
    BY DEF PageIsUpToDate
  <2>1. ui.card = IF ui.dismissed THEN None ELSE shared.last_card
    BY DEF ShownInv, CardInv, CardSaid, Holds
  <2>2. (Len(jobs) <= 1 /\ \A j \in DOMAIN jobs : jobs[j].pc \notin {"emit", "send"}) =>
          ui.lcd \in {None, shared.last_payment}
    BY DEF ShownInv, LcdInv, LcdSaid, Holds
  <2>3. QED BY <2>1, <2>2
<1>2. QED BY <1>1, ShownInit, ShownStep, PageInit, PageStep, TypeInvariant, PTL DEF Spec

-----------------------------------------------------------------------------
(* The mode. While the host's mode was not stored over another operator's send, *)
(* who has still to send it sends that mode.                                   *)

Crossed == \E o \in Operators : ops[o].crossed

ModeInv ==
  ~Crossed =>
    /\ \A o \in Operators : ops[o].pc = "send" => ops[o].mode = shared.pay_mode
    /\ (connected /\ \A o \in Operators : ops[o].pc = "idle") => ModeSaid

LEMMA ModeInit == Init => ModeInv
BY DEF Init, FacepayInit, ModeInv

\* A step that sends nothing, or an event that is no mode, and leaves the mode.
LEMMA ModeFrame ==
  ASSUME TypeInv, ModeInv, shared'.pay_mode = shared.pay_mode, ui'.payMode = ui.payMode,
         UNCHANGED <<ops, connected>>,
         \/ UNCHANGED toTerm
         \/ \E msg \in Messages : msg.type # "mode" /\ Send(msg)
  PROVE  ModeInv'
<1>1. toTerm \in Seq(Messages)
  BY DEF TypeInv, LinkType
<1>2. CASE UNCHANGED toTerm
  BY <1>2 DEF ModeInv, ModeSaid, Crossed
<1>3. ASSUME NEW msg \in Messages, msg.type # "mode", Send(msg) PROVE ModeInv'
  <2>1. connected => toTerm' = Append(toTerm, msg)
    BY <1>3 DEF Send
  <2>2. connected /\ ModeSaid => ModeSaid'
    BY <1>1, <1>3, <2>1, HoldsAppended DEF ModeSaid
  <2>3. QED BY <1>3, <2>2 DEF ModeInv, Crossed, Send
<1>4. QED BY <1>2, <1>3

LEMMA ModePage ==
  TypeInv /\ ModeInv /\ (Deliver \/ Capture \/ Answer \/ Tap \/ Load) => ModeInv'
<1> SUFFICES ASSUME TypeInv, ModeInv, Deliver \/ Capture \/ Answer \/ Tap \/ Load
             PROVE  ModeInv'
  OBVIOUS
<1>0. TerminalTypeOK /\ toTerm \in Seq(Messages)
  BY DEF TypeInv, LinkType
<1>1. CASE Deliver
  <2> DEFINE m == Head(toTerm)
  <2>1. m \in Messages /\ ui' = OnEvent(ui, m) /\ toTerm # << >> /\ toTerm' = Tail(toTerm)
    BY <1>0, <1>1, HeadTail DEF Deliver, Receive, Become
  <2>2. UNCHANGED <<ops, shared, connected>>
    BY <1>1 DEF Deliver, daemonVars
  <2> HIDE DEF m
  <2>3. ui'.payMode = IF m.type = "mode" THEN m.payment ELSE ui.payMode
    BY <1>0, <2>1, MessageParts DEF OnEvent, GoWaiting, Show, TerminalTypeOK
  <2> DEFINE leaving == {ModeMsg(shared.pay_mode)}
             right == ui.payMode = shared.pay_mode
             later == ui'.payMode = shared.pay_mode
  <2>4. m.type \notin {"mode"} /\ right => later
    BY <2>3
  <2>5. m \in leaving => later
    BY <2>3 DEF ModeMsg
  <2> HIDE DEF leaving, right, later
  <2>6. Holds(toTerm, {"mode"}, leaving, right) => Holds(Tail(toTerm), {"mode"}, leaving, later)
    BY <1>0, <2>1, <2>4, <2>5, HoldsDelivered DEF m
  <2>7. ModeSaid => ModeSaid'
    BY <2>1, <2>2, <2>6 DEF ModeSaid, leaving, right, later
  <2>8. QED BY <2>2, <2>7 DEF ModeInv, Crossed
<1>2. CASE Capture \/ Tap
  <2>1. ui'.payMode = ui.payMode /\ UNCHANGED <<shared, ops, connected, toTerm>>
    BY <1>0, <1>2 DEF Capture, StartCapture, Tap, Leave, Become, Dismiss, GoWaiting,
       Show, TerminalTypeOK, facepayVars, daemonVars, linkVars
  <2>2. QED BY <2>1, ModeFrame
<1>3. CASE Answer
  <2>1. PICK out : FinishCapture(out)
    BY <1>3 DEF Answer
  <2>2. ui'.payMode = ui.payMode
    BY <1>0, <2>1 DEF FinishCapture, FaceResult, Dismiss, GoWaiting, Show,
       TerminalTypeOK
  <2>3. QED BY <1>3, <2>2, ModeFrame DEF Answer, daemonVars
<1>4. CASE Load
  <2>1. toTerm' = Snapshot /\ UNCHANGED <<ops, shared>>
    BY <1>4 DEF Load, Connect, daemonVars
  <2>2. ModeSaid'
    BY <2>1, SnapshotHolds DEF ModeSaid, Holds
  <2>3. QED BY <2>1, <2>2 DEF ModeInv, Crossed
<1>5. QED BY <1>1, <1>2, <1>3, <1>4

LEMMA ModeOperate ==
  ASSUME TypeInv, ModeInv, Operate, UNCHANGED ui
  PROVE  ModeInv'
<1>0. SharedType /\ ThreadType /\ toTerm \in Seq(Messages)
  BY DEF TypeInv, DaemonType, LinkType
<1>1. ASSUME NEW o \in Operators, SendMode(o) PROVE ModeInv'
  <2>1. /\ DOMAIN ops = Operators /\ UNCHANGED shared
        /\ \A p \in Operators : ops'[p].crossed = ops[p].crossed
        /\ \A p \in Operators \ {o} : ops'[p] = ops[p]
        /\ ops'[o].pc = "idle"
    BY <1>0, <1>1 DEF SendMode, ThreadType
  <2>2. SUFFICES ASSUME ~Crossed PROVE ModeInv'
    BY <2>1 DEF ModeInv, Crossed
  <2>3. ops[o].mode = shared.pay_mode /\ ops[o].mode \in Modes
    BY <1>0, <1>1, <2>2 DEF SendMode, ModeInv, ThreadType
  <2>4. ModeMsg(shared.pay_mode) \in Messages
    BY <2>3, MessagesType
  <2>5. connected' => toTerm' = Append(toTerm, ModeMsg(shared.pay_mode))
    BY <1>1, <2>3 DEF SendMode, Send
  <2>6. connected' => ModeSaid'
    BY <1>0, <2>1, <2>4, <2>5, HoldsAppended DEF ModeSaid
  <2>7. \A p \in Operators : ops'[p].pc = "send" => ops'[p].mode = shared'.pay_mode
    <3>1. SUFFICES ASSUME NEW p \in Operators \ {o}, ops[p].pc = "send"
                   PROVE  ops[p].mode = shared.pay_mode
      BY <2>1
    <3>2. QED BY <2>2, <3>1 DEF ModeInv
  <2>8. QED BY <2>6, <2>7 DEF ModeInv
<1>2. ASSUME NEW o \in Operators, NEW mode \in Modes, SetPayMode(o, mode) PROVE ModeInv'
  <2>1. shared'.pay_mode = mode /\ ops' = Stored(o, mode)
    BY <1>0, <1>2 DEF SetPayMode, SharedType
  <2>2. /\ ops'[o].pc = "send" /\ ops'[o].mode = mode
        /\ ops'[o].crossed = \E q \in Operators \ {o} : ops[q].pc = "send"
        /\ \A p \in Operators \ {o} : ops'[p].pc = ops[p].pc
    BY <1>0, <2>1 DEF Stored, ThreadType
  <2>3. SUFFICES ASSUME ~Crossed' PROVE ModeInv'
    BY DEF ModeInv
  <2>4. \A p \in Operators \ {o} : ops'[p].pc # "send"
    BY <2>2, <2>3 DEF Crossed
  <2>5. QED BY <2>1, <2>2, <2>4 DEF ModeInv
<1>3. QED BY <1>1, <1>2 DEF Operate

LEMMA ModeStep == TypeInv /\ ModeInv /\ [Next]_vars => ModeInv'
<1> SUFFICES ASSUME TypeInv, ModeInv, [Next]_vars PROVE ModeInv'
  OBVIOUS
<1>0. SharedType /\ LoopType /\ LoopHolds /\ ThreadType
  BY DEF TypeInv, DaemonType
<1>1. CASE Deliver \/ Capture \/ Answer \/ Tap \/ Load
  BY <1>1, ModePage
<1>2. CASE Operate /\ UNCHANGED terminalVars
  BY <1>2, ModeOperate DEF terminalVars
<1>3. CASE Drop
  BY <1>3 DEF Drop, ModeInv, Crossed, daemonVars
<1>4. CASE /\ \E msg \in Messages : msg.type # "mode" /\ Send(msg)
           /\ UNCHANGED <<shared, ops, ui>>
  BY <1>4, ModeFrame DEF Send
<1>5. CASE (Detect \/ AnnounceRemoval) /\ UNCHANGED ui
  <2>1. /\ Detecting \in Messages /\ Detecting.type # "mode"
        /\ CardRemoved \in Messages /\ CardRemoved.type # "mode"
    BY MessagesType DEF Detecting, CardRemoved
  <2>2. QED BY <1>4, <1>5, <2>1 DEF Detect, AnnounceRemoval
<1>6. CASE AnnounceCard /\ UNCHANGED ui
  <2>1. FoundCard \in Cards
    BY <1>0, <1>6 DEF AnnounceCard, FoundCard, Cards, LoopHolds, LoopType
  <2>2. CardMsg(FoundCard) \in Messages /\ CardMsg(FoundCard).type # "mode"
    BY <2>1, MessagesType DEF CardMsg
  <2>3. QED BY <1>4, <1>6, <2>2 DEF AnnounceCard
<1>7. CASE Payment /\ UNCHANGED ui
  <2>1. PICK j \in DOMAIN jobs : RunPayment(j)
    BY <1>7 DEF Payment
  <2>2. CASE SendResult(j)
    <3>1. ResultMsg(JobResult(jobs[j])) \in Messages
      BY <1>0, ResultType, MessagesType
    <3>2. ResultMsg(JobResult(jobs[j])).type # "mode"
      BY DEF ResultMsg
    <3>3. QED BY <1>4, <1>7, <2>2, <3>1, <3>2 DEF SendResult
  <2>3. CASE CheckBalance(j) \/ PayExecutes(j) \/ PayFails(j) \/ KeepResult(j)
    <3>1. shared'.pay_mode = shared.pay_mode /\ UNCHANGED <<ops, connected, toTerm>>
      <4>1. CASE CheckBalance(j) \/ PayExecutes(j) \/ PayFails(j)
        BY <4>1, Zenon DEF CheckBalance, PayExecutes, PayFails, linkVars
      <4>2. CASE KeepResult(j)
        BY <1>0, <4>2 DEF KeepResult, SharedType, linkVars
      <4>3. QED BY <2>3, <4>1, <4>2
    <3>2. QED BY <1>7, <3>1, ModeFrame
  <2>4. QED BY <2>1, <2>2, <2>3 DEF RunPayment
<1>8. CASE \/ (PublishCard \/ ForgetCard \/ HandleFaceOk) /\ UNCHANGED ui
           \/ (Authenticate \/ Attest \/ AttestFails \/ LookUpBalance) /\ UNCHANGED ui
           \/ (\E c \in Idis \cup {None} : MoveCard(c)) /\ UNCHANGED ui
           \/ UNCHANGED vars
  <2>1. CASE (PublishCard \/ ForgetCard \/ HandleFaceOk) /\ UNCHANGED ui
    <3>1. shared'.pay_mode = shared.pay_mode /\ UNCHANGED <<ops, connected, toTerm>>
      BY <1>0, <2>1 DEF PublishCard, ForgetCard, HandleFaceOk, SharedType, linkVars
    <3>2. QED BY <2>1, <3>1, ModeFrame
  <2>2. CASE \/ (Authenticate \/ Attest \/ AttestFails \/ LookUpBalance) /\ UNCHANGED ui
             \/ (\E c \in Idis \cup {None} : MoveCard(c)) /\ UNCHANGED ui
             \/ UNCHANGED vars
    <3>1. UNCHANGED <<shared, ops, connected, toTerm, ui>>
      BY <2>2 DEF Authenticate, Attest, AttestFails, LookUpBalance, MoveCard, linkVars,
         daemonVars, facepayVars, terminalVars, vars
    <3>2. QED BY <3>1, ModeFrame
  <2>3. QED BY <1>8, <2>1, <2>2
<1>9. QED
  BY <1>1, <1>2, <1>3, <1>5, <1>6, <1>7, <1>8
  DEF Next, HostStep, Environment, CardLoop, terminalVars

\* A connected terminal that was told everything shows the mode the host is in,
\* whatever operators there are, unless that mode was stored over another's send.
THEOREM ModeShownCorrect == Spec => []ModeShown
<1>1. TypeInv /\ ModeInv => ModeShown
  BY DEF ModeInv, ModeSaid, Holds, ModeShown, Crossed
<1>2. QED BY <1>1, ModeStep, ModeInit, TypeInvariant, PTL DEF Spec
=============================================================================
