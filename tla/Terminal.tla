------------------------------ MODULE Terminal ------------------------------
(* The payment terminal's page (face-auth-ui): its screens, the face captures *)
(* that outlive a screen, and the one-person store of the face engine. The    *)
(* page is event driven: an action is one host event, one tap or one answer   *)
(* of the engine. What arrives from and leaves for the host is a parameter,   *)
(* so that PaymentTerminal can join the page to the daemon.                   *)
EXTENDS TerminalProtocol, Sequences, SequencesExt

VARIABLES
  ui,        \* the React state of the page; late and dismissed are history
  captures,  \* engine requests in flight, oldest first, with what they closed over;
             \* swapped is history
  store      \* the card whose holder the face engine remembers

Screens == {"waiting", "detecting", "registerPrompt", "enroll", "auth", "balance",
            "paying", "lcd"}
CaptureScreens == {"enroll", "auth"}

FreshUi == [screen |-> "waiting", card |-> None, payMode |-> None, lcd |-> None,
            enrolledIdi |-> None, busy |-> FALSE, late |-> FALSE, dismissed |-> FALSE]

terminalVars == <<ui, captures, store>>

TerminalInit ==
  /\ ui = FreshUi
  /\ captures = << >>
  /\ store = None

-----------------------------------------------------------------------------
(* How the page's state moves. A FaceCapture is one component instance per    *)
(* visit to its screen, and busy is the state of the mounted instance. Its    *)
(* history: late, while the screen is one that a late answer led to, and      *)
(* dismissed, since the page went idle without being told that the card left. *)

\* Mutant: busy survives the screen it belongs to.
ShowKeepsBusy(u, screen) == [u EXCEPT !.screen = screen, !.late = @ /\ u.screen = screen]

Show(u, screen) ==
  [u EXCEPT !.screen = screen, !.busy = @ /\ u.screen = screen,
            !.late = @ /\ u.screen = screen]

GoWaiting(u) == [Show(u, "waiting") EXCEPT !.card = None, !.lcd = None]

Dismiss(u) == [GoWaiting(u) EXCEPT !.dismissed = TRUE]

CardScreen(u, card) ==
  IF ~card.registered THEN "registerPrompt"
  ELSE IF u.enrolledIdi = card.idi THEN "auth" ELSE "enroll"

\* Mutant: a capture under way is finished before the card is dropped.
OnEventFinishesCapture(u, m) ==
  CASE m.type = "detecting" ->
         IF u.screen = "waiting" THEN Show(u, "detecting") ELSE u
    [] m.type = "mode" -> [u EXCEPT !.payMode = m.payment]
    [] m.type = "card" -> [Show(u, CardScreen(u, m.card)) EXCEPT !.card = m.card,
                                                               !.dismissed = FALSE]
    [] m.type = "cardRemoved" -> IF u.busy THEN u ELSE [GoWaiting(u) EXCEPT !.dismissed = FALSE]
    [] m.type = "paymentResult" -> [Show(u, "lcd") EXCEPT !.lcd = m.result]

\* The handler given to subscribe: one case per event type.
OnEvent(u, m) ==
  CASE m.type = "detecting" ->
         IF u.screen = "waiting" THEN Show(u, "detecting") ELSE u
    [] m.type = "mode" -> [u EXCEPT !.payMode = m.payment]
    [] m.type = "card" -> [Show(u, CardScreen(u, m.card)) EXCEPT !.card = m.card,
                                                               !.dismissed = FALSE]
    [] m.type = "cardRemoved" -> [GoWaiting(u) EXCEPT !.dismissed = FALSE]
    [] m.type = "paymentResult" -> [Show(u, "lcd") EXCEPT !.lcd = m.result]

\* Leaving a screen unmounts its FaceCapture. A request in flight stays in
\* flight, but is no longer the mounted instance's. A card that brings up the
\* screen shown already leaves the instance, and its request, in place.
Detached(u, other) ==
  [i \in DOMAIN captures |->
     [captures[i] EXCEPT !.mine = @ /\ ui.screen = u.screen, !.swapped = @ \/ other]]

Become(u, other) == ui' = u /\ captures' = Detached(u, other)

-----------------------------------------------------------------------------
OtherCard(m) == m.type = "card" /\ m.card # ui.card

Receive(m) == Become(OnEvent(ui, m), OtherCard(m)) /\ UNCHANGED store

\* The gate held long enough, or the button was pressed. The request closes
\* over the card and the mode shown now.
StartCapture ==
  /\ ui.screen \in CaptureScreens /\ ui.card # None /\ ~ui.busy
  /\ ui' = [ui EXCEPT !.busy = TRUE]
  /\ captures' = Append(captures, [screen |-> ui.screen, card |-> ui.card,
                                   payMode |-> ui.payMode, mine |-> TRUE,
                                   swapped |-> FALSE])
  /\ UNCHANGED store

\* The engine serves its requests one by one, in order. register clears the
\* store before it learns, so it can fail with the store emptied.
EngineOutcomes(capture) ==
  IF capture.screen = "enroll"
    THEN {[ok |-> TRUE, store |-> capture.card.idi], [ok |-> FALSE, store |-> store],
          [ok |-> FALSE, store |-> None]}
    ELSE {[ok |-> TRUE, store |-> store] : x \in {store} \ {None}}
           \cup {[ok |-> FALSE, store |-> store]}

\* onFaceResult, run with the card and the mode the request closed over, on
\* whatever screen the page shows by now.
FaceResult(u, capture, ok) ==
  IF ~ok THEN Dismiss(u)
  ELSE [Show(u, IF capture.payMode # None THEN "paying" ELSE "balance")
          EXCEPT !.enrolledIdi = IF capture.screen = "enroll" THEN capture.card.idi ELSE @,
                 !.late = ~capture.mine \/ capture.swapped]

\* The answer to the oldest request. The finally block ends busy for the
\* instance that asked.
FinishCapture(out) ==
  LET c == Head(captures)
      u == FaceResult([ui EXCEPT !.busy = @ /\ ~c.mine], c, out.ok)
  IN /\ ui' = u
     /\ captures' = Tail(Detached(u, FALSE))
     /\ store' = out.store

\* The reports that answer leaves: faceOk for the card the request closed over.
FaceReports(out) == IF out.ok THEN << Head(captures).card.idi >> ELSE << >>

\* A tap on a screen that says "Tap the screen to go back", or Cancel.
Leave ==
  /\ \/ ui.screen \in {"registerPrompt", "lcd"}
     \/ ui.screen \in CaptureScreens \cup {"balance"} /\ ui.card # None
  /\ Become(Dismiss(ui), FALSE)
  /\ UNCHANGED store

\* The shell loads the page again: all of its state goes. An answer of the
\* engine to the old page is taken to be lost.
Reload ==
  /\ ui' = FreshUi
  /\ captures' = << >>
  /\ UNCHANGED store

-----------------------------------------------------------------------------
TerminalTypeOK ==
  /\ ui \in [screen : Screens, card : Cards \cup {None}, payMode : Modes,
             lcd : Results \cup {None}, enrolledIdi : Idis \cup {None}, busy : BOOLEAN,
             late : BOOLEAN, dismissed : BOOLEAN]
  /\ captures \in Seq([screen : CaptureScreens, card : Cards, payMode : Modes,
                       mine : BOOLEAN, swapped : BOOLEAN])
  /\ store \in Idis \cup {None}
=============================================================================
