--------------------------- MODULE DeviceShellProofs ---------------------------
(* The device's shell for any screens and any number of screens shown, pages   *)
(* loaded, pauses, failures and requests: what its LED, its camera and the     *)
(* page's requests are left in. The three parts share the page alone, so each  *)
(* has an invariant of its own.                                                *)
EXTENDS DeviceShell, SequenceTheorems, FiniteSetTheorems, TLAPS

-----------------------------------------------------------------------------
(* The LED.                                                                   *)

\* The controller has done nothing before its first task, which comes once.
NotYetReady ==
  /\ \A i \in DOMAIN ledExec : i > 1 => ledExec[i] # "init"
  /\ (ledExec # << >> /\ Head(ledExec) = "init") =>
       led.pc = "idle" /\ led.mode = "off" /\ ~led.ready /\ led.thread = 0

\* The thread that blinks is the last one started; the others were interrupted
\* or are done. The holder of the monitor writes while no thread blinks.
LastThreadBlinks ==
  /\ led.thread # 0 <=> (led.mode = "blue_blink" /\ led.ready)
  /\ led.thread # 0 =>
       led.blinking /\ blinkers[led.thread].pc # "done" /\ ~blinkers[led.thread].interrupted
  /\ \A i \in DOMAIN blinkers :
       i # led.thread => blinkers[i].pc = "done" \/ blinkers[i].interrupted
  /\ led.pc # "idle" => led.ready /\ led.mode # "blue_blink"

\* A pin that has been written for the last command: by the holder of the
\* monitor, or by the thread that blinks.
WrittenByHolder(pin) ==
  \/ pin = "red" /\ led.pc # "red"
  \/ pin = "green" /\ led.pc \notin {"red", "green"}
  \/ pin = "blue" /\ led.pc = "idle"
WrittenByThread(pin) ==
  \/ pin = "red" /\ blinkers[led.thread].pc \notin {"check", "red"}
  \/ pin = "green" /\ blinkers[led.thread].pc \notin {"check", "red", "green"}

\* Once its write got through, only blue may be lit against the last command, and
\* only by a thread that was stopped; that thread may also put a pin out.
PinsFollow ==
  led.ready =>
    IF led.mode = "blue_blink"
      THEN \A pin \in {"red", "green"} \ missed : WrittenByThread(pin) => pin \notin pins
      ELSE \A pin \in Pins \ missed : WrittenByHolder(pin) =>
             /\ pin \in pins => pin \in Lit(led.mode) \/ (stale /\ pin = "blue")
             /\ pin \in Lit(led.mode) => pin \in pins \/ stale

LedInv == LedTypeOK /\ NotYetReady /\ LastThreadBlinks /\ PinsFollow

-----------------------------------------------------------------------------
(* The bridge to the engine.                                                  *)

\* A request on its way has a number of its own within its page, and an answer
\* says no more than requests of its kind are told.
Numbered(r) == r.from <= page.n /\ (r.from = page.n => r.id <= page.seq)

RequestsInv ==
  /\ page \in [n : Nat, seq : Nat, pending : SUBSET Requests]
  /\ \A r \in InFlight : Numbered(r)
  /\ \A r, q \in InFlight : r.from = q.from /\ r.id = q.id => r = q
  /\ \A i \in DOMAIN answers : answers[i].says \subseteq Needs(answers[i].request.method)

BridgeInv == BridgeTypeOK /\ RequestsInv /\ AnswersBelong

-----------------------------------------------------------------------------
(* The camera.                                                                *)

IsTask(i, what, d) == posts[i].what = what /\ posts[i].device = d
Posted(what, d) == \E i \in DOMAIN posts : IsTask(i, what, d)
Closing == \E i \in DOMAIN posts : posts[i].what = "close"

\* An open that no close follows.
LastOpen(i) ==
  /\ i \in DOMAIN posts /\ posts[i].what = "open"
  /\ \A j \in DOMAIN posts : j > i => posts[j].what # "close"
Reopening == \E i \in DOMAIN posts : LastOpen(i)

Once == "twice" \notin trouble
Uncrossed == "crossed" \notin trouble
Unfailed == "failed" \notin trouble

\* The flag and the loop: who started the preview goes on to start the camera.
LoopInv ==
  /\ (previewOn /\ bridge \notin StartSteps) => loops > 0
  /\ bridge \in {"stopWanted", "stopPost"} => ~previewOn
  /\ ~view => devices = << >>
  /\ (cam.camera # 0 /\ ~cam.wanted) => Closing \/ bridge = "stopPost" \/ uiStop = "post"

\* Where no load or pause crosses a start, the camera is wanted while the
\* preview is on, but for the step between the two assignments.
WantedInv ==
  Uncrossed =>
    /\ previewOn => uiStop = "idle" /\ (cam.wanted <=> bridge # "startWanted")
    /\ ~previewOn => /\ bridge \notin StartSteps
                     /\ cam.wanted => bridge = "stopWanted" \/ uiStop = "wanted"

\* A device is opened when all before it are gone, so the tasks about devices
\* come in their order, and about each in the order of its life.
InOrder ==
  \A i, j \in DOMAIN posts :
    (i < j /\ posts[i].what \in {"opened", "gone", "configured"}
           /\ posts[j].what \in {"opened", "gone", "configured"}) =>
      /\ posts[i].device <= posts[j].device
      /\ posts[i].device = posts[j].device => posts[j].what # "opened"
TaskInv(i) ==
  LET d == posts[i].device IN
  /\ posts[i].what \in {"opened", "gone", "configured", "configureFailed"} =>
       d \in DOMAIN devices /\ devices[d].state # "opening"
  /\ posts[i].what \in {"opened", "gone", "configured"} => cam.camera <= d
  /\ posts[i].what = "opened" =>
       cam.camera # d /\ devices[d].state # "closed" /\ devices[d].config = "none"
  /\ posts[i].what = "gone" => devices[d].state \in {"lost", "closed"}
LifeInv(d) ==
  LET s == devices[d].state IN
  /\ s \in {"opening", "open"} => d = Len(devices)
  /\ s = "opening" => devices[d].config = "none" /\ cam.camera # d
  /\ s = "open" => cam.camera = d \/ Posted("opened", d)
  /\ s = "lost" => Posted("gone", d)
  /\ cam.camera = d => s \in {"open", "lost"} /\ devices[d].config # "none"
DevicesInv ==
  Once =>
    /\ InOrder
    /\ \A i \in DOMAIN posts : TaskInv(i)
    /\ \A d \in DOMAIN devices : LifeInv(d)

\* What is to come of a start: while the preview is on, a device is opening or
\* open, or the task that opens one is posted behind every close, unless a
\* device failed; and the device in the field gets its session.
Begun == previewOn /\ bridge \notin {"startWanted", "startPost"}
SessionInv ==
  (previewOn /\ bridge # "startWanted" /\ Unfailed /\ ~Closing /\ cam.camera \in Open) =>
    /\ devices[cam.camera].config # "refused"
    /\ devices[cam.camera].config = "told" =>
         cam.session = cam.camera \/ Posted("configured", cam.camera)
ComingInv ==
  (Uncrossed /\ Once) =>
    /\ (~previewOn /\ bridge = "idle" /\ uiStop = "idle") => ~Reopening
    /\ (Begun /\ Closing) => Reopening
    /\ (Begun /\ Unfailed /\ view) => Reopening \/ Opening \cup Open # {}
    /\ (previewOn /\ Unfailed) =>
         \A i, j \in DOMAIN posts : LastOpen(i) /\ i < j => posts[j].what # "gone"
    /\ SessionInv

\* The page's screen and the calls of its effects.
PageInv ==
  /\ screen \in Screens /\ {loading, unwatched, paused} \subseteq BOOLEAN
  /\ calls \in {<< >>, <<FALSE>>, <<TRUE>>, <<FALSE, TRUE>>}
  /\ calls # << >> => (calls # <<FALSE>> <=> screen \in CaptureScreens)
  /\ previewOn => screen \in CaptureScreens \/ calls = <<FALSE>> \/ unwatched
  /\ (screen \in CaptureScreens /\ calls = << >> /\ ~paused /\ ~loading) => previewOn

CameraInv == CameraTypeOK /\ LoopInv /\ WantedInv /\ DevicesInv /\ ComingInv /\ PageInv

-----------------------------------------------------------------------------
(* Queues.                                                                    *)

LEMMA Appended ==
  ASSUME NEW S, NEW s \in Seq(S), NEW e \in S
  PROVE  /\ Append(s, e) \in Seq(S) /\ Append(s, e) # << >>
         /\ Len(s) \in Nat /\ Len(Append(s, e)) = Len(s) + 1
         /\ DOMAIN s = 1..Len(s) /\ DOMAIN Append(s, e) = 1..(Len(s) + 1)
         /\ \A i \in 1..Len(s) : Append(s, e)[i] = s[i]
         /\ Append(s, e)[Len(s) + 1] = e
BY AppendProperties, LenProperties

LEMMA Dropped ==
  ASSUME NEW S, NEW s \in Seq(S), s # << >>
  PROVE  /\ Head(s) \in S /\ Tail(s) \in Seq(S)
         /\ Len(s) \in Nat \ {0} /\ Head(s) = s[1]
         /\ DOMAIN s = 1..Len(s) /\ DOMAIN Tail(s) = 1..(Len(s) - 1)
         /\ \A i \in 1..(Len(s) - 1) : Tail(s)[i] = s[i + 1]
<1>1. /\ Head(s) \in S /\ Tail(s) \in Seq(S)
      /\ Len(Tail(s)) = Len(s) - 1
      /\ \A i \in 1..Len(Tail(s)) : Tail(s)[i] = s[i + 1]
  BY HeadTailProperties
<1>2. Len(s) \in Nat \ {0} /\ DOMAIN s = 1..Len(s)
  BY EmptySeq, LenProperties
<1>3. DOMAIN Tail(s) = 1..(Len(s) - 1)
  BY <1>1, LenProperties
<1>4. QED BY <1>1, <1>2, <1>3

LEMMA SameRange == ASSUME NEW n \in Nat, NEW m \in Nat, 1..n = 1..m PROVE n = m
<1>1. n > 0 => n \in 1..m
  OBVIOUS
<1>2. m > 0 => m \in 1..n
  OBVIOUS
<1>3. QED BY <1>1, <1>2

LEMMA Changed ==
  ASSUME NEW S, NEW s \in Seq(S), NEW i \in DOMAIN s, NEW e \in S
  PROVE  LET t == [s EXCEPT ![i] = e] IN
         /\ t \in Seq(S) /\ Len(t) = Len(s) /\ DOMAIN t = DOMAIN s
         /\ \A j \in DOMAIN s : t[j] = IF j = i THEN e ELSE s[j]
BY ExceptSeq, LenProperties

LEMMA Untouched ==
  ASSUME NEW S, NEW s \in Seq(S), NEW i, i \notin DOMAIN s, NEW e
  PROVE  [s EXCEPT ![i] = e] = s
<1>1. s \in [1..Len(s) -> S]
  BY LenProperties
<1>2. QED BY <1>1

-----------------------------------------------------------------------------
(* The LED: every step keeps its invariant.                                   *)

Blinkers ==
  [pc : Pins \cup {"check", "sleep", "done"}, on : BOOLEAN, interrupted : BOOLEAN]

LedFields(n) ==
  [pc : Pins \cup {"idle"}, mode : LedModes, ready : BOOLEAN, blinking : BOOLEAN,
   thread : 0..n]

LEMMA LedInvInit == LedInit => LedInv
<1> SUFFICES ASSUME LedInit PROVE LedInv
  OBVIOUS
<1>1. ledExec = << "init" >> /\ blinkers = << >> /\ pins = {} /\ stale = FALSE /\ missed = {}
  BY DEF LedInit
<1>2. led = [pc |-> "idle", mode |-> "off", ready |-> FALSE, blinking |-> FALSE, thread |-> 0]
  BY DEF LedInit
<1>3. Len(blinkers) = 0 /\ DOMAIN blinkers = {} /\ blinkers \in Seq(Blinkers)
  BY <1>1
<1>4. ledExec \in Seq(LedModes \cup {"init"}) /\ DOMAIN ledExec = {1}
  BY <1>1
<1>5. led \in [pc : Pins \cup {"idle"}, mode : LedModes, ready : BOOLEAN, blinking : BOOLEAN,
               thread : 0..Len(blinkers)]
  BY <1>2, <1>3 DEF LedModes
<1>6. LedTypeOK
  BY <1>1, <1>3, <1>4, <1>5 DEF LedTypeOK, Blinkers
<1>7. NotYetReady
  BY <1>2, <1>4 DEF NotYetReady
<1>8. LastThreadBlinks /\ PinsFollow
  BY <1>2, <1>3 DEF LastThreadBlinks, PinsFollow
<1>9. QED BY <1>6, <1>7, <1>8 DEF LedInv

LEMMA LedKept == ASSUME LedInv, UNCHANGED ledVars PROVE LedInv'
BY DEF LedInv, LedTypeOK, NotYetReady, LastThreadBlinks, PinsFollow, WrittenByHolder,
       WrittenByThread, ledVars

LEMMA SetLedStep == ASSUME LedInv, NEW mode \in LedModes, SetLed(mode) PROVE LedInv'
<1> USE DEF LedInv
<1>1. ledExec \in Seq(LedModes \cup {"init"}) /\ ledExec' = Append(ledExec, mode)
  BY DEF LedTypeOK, SetLed
<1>2. UNCHANGED <<led, blinkers, pins, stale, missed>>
  BY DEF SetLed
<1>3. /\ ledExec' \in Seq(LedModes \cup {"init"})
      /\ DOMAIN ledExec' = 1..(Len(ledExec) + 1) /\ DOMAIN ledExec = 1..Len(ledExec)
      /\ \A i \in 1..Len(ledExec) : ledExec'[i] = ledExec[i]
      /\ ledExec'[Len(ledExec) + 1] = mode /\ Len(ledExec) \in Nat
  BY <1>1, Appended
<1>4. LedTypeOK'
  BY <1>2, <1>3 DEF LedTypeOK
<1>5. mode # "init"
  BY DEF LedModes
<1>6. Head(ledExec') = IF ledExec = << >> THEN mode ELSE Head(ledExec)
  BY <1>1, HeadTailAppend
<1>7. NotYetReady'
  BY <1>2, <1>3, <1>5, <1>6 DEF NotYetReady
<1>8. LastThreadBlinks' /\ PinsFollow'
  BY <1>2 DEF LastThreadBlinks, PinsFollow, WrittenByHolder, WrittenByThread
<1>9. QED BY <1>4, <1>7, <1>8

\* A command or the first task is taken from the queue.
LEMMA TaskTaken ==
  ASSUME LedInv, ledExec # << >>, ledExec' = Tail(ledExec)
  PROVE  /\ ledExec' \in Seq(LedModes \cup {"init"})
         /\ Head(ledExec) \in LedModes \cup {"init"}
         /\ NotYetReady'
<1>1. ledExec \in Seq(LedModes \cup {"init"})
  BY DEF LedInv, LedTypeOK
<1>2. /\ ledExec' \in Seq(LedModes \cup {"init"}) /\ Head(ledExec) \in LedModes \cup {"init"}
      /\ DOMAIN ledExec = 1..Len(ledExec) /\ DOMAIN ledExec' = 1..(Len(ledExec) - 1)
      /\ Len(ledExec) \in Nat \ {0}
      /\ \A i \in 1..(Len(ledExec) - 1) : ledExec'[i] = ledExec[i + 1]
  BY <1>1, Dropped
<1>3. \A i \in DOMAIN ledExec' : ledExec'[i] # "init"
  BY <1>2 DEF LedInv, NotYetReady
<1>4. ledExec' # << >> => Head(ledExec') = ledExec'[1] /\ 1 \in DOMAIN ledExec'
  BY <1>2, Dropped
<1>5. NotYetReady'
  BY <1>3, <1>4 DEF NotYetReady
<1>6. QED BY <1>2, <1>5

LEMMA InitLedStep == ASSUME LedInv, NEW gpio \in BOOLEAN, InitLed(gpio) PROVE LedInv'
<1> USE DEF LedInv
<1>1. /\ led' = [led EXCEPT !.ready = gpio] /\ UNCHANGED <<blinkers, stale, missed>>
      /\ pins' = IF gpio THEN {} ELSE pins
      /\ led.pc = "idle" /\ led.mode = "off" /\ led.thread = 0
  BY DEF InitLed, NotYetReady
<1>2. ledExec' \in Seq(LedModes \cup {"init"}) /\ NotYetReady'
  BY TaskTaken DEF InitLed
<1>3. LedTypeOK'
  BY <1>1, <1>2 DEF LedTypeOK
<1>4. /\ led'.pc = "idle" /\ led'.mode = "off" /\ led'.thread = 0 /\ led'.ready = gpio
  BY <1>1 DEF LedTypeOK
<1>5. LastThreadBlinks'
  BY <1>1, <1>4 DEF LastThreadBlinks
<1>6. PinsFollow'
  BY <1>1, <1>4 DEF PinsFollow, Lit
<1>7. QED BY <1>2, <1>3, <1>5, <1>6

LEMMA RunSetStep == ASSUME LedInv, RunSet PROVE LedInv'
<1> USE DEF LedInv
<1> DEFINE mode == Head(ledExec)
<1>1. /\ ledExec' \in Seq(LedModes \cup {"init"}) /\ NotYetReady' /\ mode \in LedModes
  BY TaskTaken DEF RunSet
<1>2. Set(mode) /\ led.pc = "idle" /\ stale' = FALSE /\ UNCHANGED <<pins, missed>>
  BY DEF RunSet, Set
<1> HIDE DEF mode
<1>3. blinkers \in Seq(Blinkers) /\ Len(blinkers) \in Nat /\ DOMAIN blinkers = 1..Len(blinkers)
  BY LenProperties DEF LedTypeOK, Blinkers
<1>4. /\ StopBlink \in Seq(Blinkers) /\ Len(StopBlink) = Len(blinkers)
      /\ DOMAIN StopBlink = DOMAIN blinkers
      /\ \A i \in DOMAIN blinkers :
           StopBlink[i].pc = "done" \/ StopBlink[i].interrupted
  <2> DEFINE e(i) == [blinkers[i] EXCEPT !.interrupted = @ \/ (TRUE /\ i = led.thread)]
  <2>1. \A i \in DOMAIN blinkers : /\ e(i) \in Blinkers
                                   /\ e(i).pc = "done" \/ e(i).interrupted
    <3> TAKE i \in DOMAIN blinkers
    <3>1. blinkers[i] \in Blinkers
      BY <1>3
    <3>2. e(i).interrupted = (blinkers[i].interrupted \/ i = led.thread) /\ e(i).pc = blinkers[i].pc
      BY <3>1 DEF Blinkers
    <3>3. e(i).pc = "done" \/ e(i).interrupted
      BY <3>2 DEF LastThreadBlinks
    <3>4. QED BY <3>1, <3>3 DEF Blinkers
  <2>2. StopBlink = [i \in DOMAIN blinkers |-> e(i)]
    BY DEF StopBlink, StopBlinkWith
  <2> HIDE DEF e
  <2>3. StopBlink = [i \in 1..Len(blinkers) |-> e(i)]
    BY <2>2, <1>3
  <2>4. StopBlink \in Seq(Blinkers)
    BY <2>1, <2>3, <1>3, IsASeq
  <2>5. DOMAIN StopBlink = 1..Len(StopBlink) /\ Len(StopBlink) \in Nat
    BY <2>4, LenProperties
  <2>6. 1..Len(StopBlink) = 1..Len(blinkers)
    <3>1. DOMAIN StopBlink = DOMAIN blinkers
      BY <2>2, Zenon
    <3>2. QED BY <1>3, <2>5, <3>1, Zenon
  <2>7. Len(StopBlink) = Len(blinkers)
    BY <2>5, <2>6, <1>3, SameRange, Zenon
  <2>8. QED BY <2>1, <2>2, <2>4, <2>7
<1>5. led \in LedFields(Len(blinkers))
  BY DEF LedTypeOK, LedFields
<1>6. CASE mode = "blue_blink" /\ led.ready
  <2> DEFINE b == [pc |-> "check", on |-> TRUE, interrupted |-> FALSE]
  <2> DEFINE n == Len(blinkers) + 1
  <2>1. /\ blinkers' = Append(StopBlink, b)
        /\ led' = [led EXCEPT !.mode = mode, !.blinking = TRUE, !.thread = n]
    BY <1>2, <1>6 DEF Set
  <2>2. b \in Blinkers /\ b.pc = "check" /\ ~b.interrupted
    BY DEF Blinkers
  <2> HIDE DEF b
  <2>3. /\ blinkers' \in Seq(Blinkers) /\ Len(blinkers') = n
        /\ DOMAIN blinkers' = 1..n /\ blinkers'[n] = b
        /\ \A i \in 1..Len(blinkers) : blinkers'[i] = StopBlink[i]
    BY <2>1, <2>2, <1>3, <1>4, Appended
  <2>4. /\ led'.mode = "blue_blink" /\ led'.blinking /\ led'.thread = n /\ led'.ready
        /\ led'.pc = "idle"
    BY <2>1, <1>2, <1>6 DEF LedTypeOK
  <2>5. led' \in LedFields(Len(blinkers'))
    <3>1. n \in 0..Len(blinkers')
      BY <2>3, <1>3
    <3>2. QED BY <2>1, <3>1, <1>1, <1>5 DEF LedFields
  <2>6. LedTypeOK'
    BY <2>3, <2>5, <1>1, <1>2 DEF LedTypeOK, Blinkers, LedFields
  <2>7. LastThreadBlinks'
    BY <2>2, <2>3, <2>4, <1>3, <1>4 DEF LastThreadBlinks
  <2>8. PinsFollow'
    BY <2>2, <2>3, <2>4 DEF PinsFollow, WrittenByThread
  <2>9. QED BY <2>6, <2>7, <2>8, <1>1
<1>7. CASE ~(mode = "blue_blink" /\ led.ready)
  <2>1. /\ blinkers' = StopBlink
        /\ led' = [led EXCEPT !.mode = mode, !.blinking = FALSE, !.thread = 0,
                              !.pc = IF led.ready THEN "red" ELSE "idle"]
    BY <1>2, <1>7 DEF Set
  <2>2. /\ led'.mode = mode /\ led'.thread = 0 /\ led'.ready = led.ready
        /\ led'.pc = IF led.ready THEN "red" ELSE "idle"
    BY <2>1 DEF LedTypeOK
  <2>3. led' \in LedFields(Len(blinkers'))
    <3>1. 0 \in 0..Len(blinkers') /\ (IF led.ready THEN "red" ELSE "idle") \in Pins \cup {"idle"}
      BY <2>1, <1>3, <1>4 DEF Pins
    <3>2. QED BY <2>1, <3>1, <1>1, <1>5 DEF LedFields
  <2>4. LedTypeOK'
    BY <2>1, <2>3, <1>1, <1>2, <1>4 DEF LedTypeOK, Blinkers, LedFields
  <2>5. LastThreadBlinks'
    BY <2>1, <2>2, <1>4, <1>7 DEF LastThreadBlinks
  <2>6. PinsFollow'
    BY <2>2, <1>7 DEF PinsFollow, WrittenByHolder
  <2>7. QED BY <2>4, <2>5, <2>6, <1>1
<1>8. QED BY <1>6, <1>7

LEMMA WritePinStep == ASSUME LedInv, WritePin \/ WriteThrows PROVE LedInv'
<1> USE DEF LedInv
<1> DEFINE lit == IF led.pc \in Lit(led.mode) THEN pins \cup {led.pc} ELSE pins \ {led.pc}
<1> DEFINE pc == IF WritePin THEN After(led.pc) ELSE "idle"
<1>1. /\ led.pc \in Pins /\ UNCHANGED <<ledExec, blinkers, stale>>
      /\ led' = [led EXCEPT !.pc = pc]
      /\ \/ pc = After(led.pc) /\ pins' = lit /\ missed' = missed \ {led.pc}
         \/ pc = "idle" /\ pins' \in {pins, lit} /\ missed' = missed \cup From(led.pc)
  BY DEF WritePin, WriteThrows, Light, LightThrows, Switched
<1>2. pc \in Pins \cup {"idle"}
  BY DEF After, Pins
<1> HIDE DEF pc
<1>3. /\ led'.mode = led.mode /\ led'.ready = led.ready /\ led'.thread = led.thread
      /\ led'.blinking = led.blinking /\ led'.pc = pc
  BY <1>1 DEF LedTypeOK
<1>4. LedTypeOK'
  <2>1. pins' \subseteq Pins /\ missed' \subseteq Pins
    BY <1>1 DEF LedTypeOK, From, Pins
  <2>2. QED BY <1>1, <1>2, <2>1 DEF LedTypeOK
<1>5. led.ready /\ led.mode # "blue_blink"
  BY <1>1 DEF LastThreadBlinks, Pins
<1>6. NotYetReady' /\ LastThreadBlinks'
  BY <1>1, <1>3, <1>5 DEF NotYetReady, LastThreadBlinks
<1>7. PinsFollow'
  <2> SUFFICES ASSUME NEW pin \in Pins, pin \notin missed', WrittenByHolder(pin)'
               PROVE  /\ pin \in pins' => pin \in Lit(led.mode) \/ (stale /\ pin = "blue")
                      /\ pin \in Lit(led.mode) => pin \in pins' \/ stale
    BY <1>1, <1>3, <1>5 DEF PinsFollow
  <2>1. CASE pin = led.pc
    <3>1. led.pc \in From(led.pc)
      BY <1>1 DEF From, Pins
    <3>2. pins' = lit
      BY <1>1, <2>1, <3>1
    <3>3. QED BY <2>1, <3>2
  <2>2. CASE pin # led.pc
    <3>1. WrittenByHolder(pin) /\ pin \notin missed
      BY <1>1, <1>3, <2>2 DEF WrittenByHolder, From, After, Pins
    <3>2. pin \in pins' <=> pin \in pins
      BY <1>1, <2>2
    <3>3. QED BY <1>5, <3>1, <3>2 DEF PinsFollow
  <2>3. QED BY <2>1, <2>2
<1>8. QED BY <1>4, <1>6, <1>7

\* A blinking thread that is not done moves to b.
LEMMA BlinkerMoves ==
  ASSUME LedInv, NEW i \in DOMAIN blinkers, NEW b \in Blinkers,
         blinkers' = [blinkers EXCEPT ![i] = b], UNCHANGED <<ledExec, led>>,
         blinkers[i].pc # "done", b.interrupted = blinkers[i].interrupted,
         b.pc = "done" => ~led.blinking \/ b.interrupted,
         pins' \subseteq Pins, missed' \subseteq Pins, stale' \in BOOLEAN
  PROVE  /\ LedTypeOK' /\ NotYetReady' /\ LastThreadBlinks'
         /\ led.thread # 0 => led.thread \in DOMAIN blinkers
         /\ \A j \in DOMAIN blinkers : blinkers'[j] = IF j = i THEN b ELSE blinkers[j]
<1> USE DEF LedInv
<1>1. blinkers \in Seq(Blinkers)
  BY DEF LedTypeOK, Blinkers
<1>2. /\ blinkers' \in Seq(Blinkers) /\ Len(blinkers') = Len(blinkers)
      /\ DOMAIN blinkers' = DOMAIN blinkers
      /\ \A j \in DOMAIN blinkers : blinkers'[j] = IF j = i THEN b ELSE blinkers[j]
  BY <1>1, Changed
<1>3. LedTypeOK'
  BY <1>2 DEF LedTypeOK, Blinkers
<1>4. NotYetReady'
  BY DEF NotYetReady
<1>5. led.thread # 0 => led.thread \in DOMAIN blinkers
  BY <1>1, LenProperties DEF LedTypeOK
<1>6. LastThreadBlinks'
  BY <1>2, <1>5 DEF LastThreadBlinks
<1>7. QED BY <1>2, <1>3, <1>4, <1>5, <1>6

LEMMA BlinkerTypes ==
  ASSUME LedTypeOK, NEW i \in DOMAIN blinkers
  PROVE  blinkers[i] \in Blinkers
<1>1. blinkers \in Seq(Blinkers)
  BY DEF LedTypeOK, Blinkers
<1>2. i \in 1..Len(blinkers)
  BY <1>1, LenProperties
<1>3. QED BY <1>1, <1>2, ElementOfSeq

LEMMA BlinkerChecksStep ==
  ASSUME LedInv, NEW i \in DOMAIN blinkers, BlinkerChecks(i) PROVE LedInv'
<1> USE DEF LedInv
<1> DEFINE pc == IF led.blinking /\ ~blinkers[i].interrupted THEN "red" ELSE "done"
<1> DEFINE b == [blinkers[i] EXCEPT !.pc = pc]
<1>1. blinkers[i].pc = "check" /\ blinkers[i] \in Blinkers
  BY BlinkerTypes DEF BlinkerChecks
<1>2. blinkers' = [blinkers EXCEPT ![i] = b] /\ UNCHANGED <<ledExec, led, pins, stale, missed>>
  BY DEF BlinkerChecks
<1>3. b \in Blinkers /\ b.interrupted = blinkers[i].interrupted /\ b.pc = pc
  BY <1>1 DEF Blinkers, Pins
<1>4. b.pc = "done" => ~led.blinking \/ b.interrupted
  BY <1>3
<1> HIDE DEF b
<1>5. /\ LedTypeOK' /\ NotYetReady' /\ LastThreadBlinks'
      /\ led.thread # 0 => led.thread \in DOMAIN blinkers
      /\ \A j \in DOMAIN blinkers : blinkers'[j] = IF j = i THEN b ELSE blinkers[j]
  BY <1>1, <1>2, <1>3, <1>4, BlinkerMoves DEF LedTypeOK
<1>6. i = led.thread => b.pc = "red"
  BY <1>1, <1>3 DEF LastThreadBlinks, LedTypeOK
<1>7. PinsFollow'
  BY <1>1, <1>2, <1>5, <1>6
     DEF PinsFollow, WrittenByHolder, WrittenByThread, LastThreadBlinks
<1>8. QED BY <1>5, <1>7

LEMMA BlinkerWakesStep ==
  ASSUME LedInv, NEW i \in DOMAIN blinkers, BlinkerWakes(i) PROVE LedInv'
<1> USE DEF LedInv
<1> DEFINE pc == IF blinkers[i].pc = "sleep" /\ blinkers[i].interrupted THEN "done" ELSE "check"
<1> DEFINE b == [blinkers[i] EXCEPT !.pc = pc]
<1>1. blinkers[i].pc = "sleep" /\ blinkers[i] \in Blinkers
  BY BlinkerTypes DEF BlinkerWakes
<1>2. blinkers' = [blinkers EXCEPT ![i] = b] /\ UNCHANGED <<ledExec, led, pins, stale, missed>>
  BY DEF BlinkerWakes
<1>3. b \in Blinkers /\ b.interrupted = blinkers[i].interrupted /\ b.pc = pc
  BY <1>1 DEF Blinkers, Pins
<1>4. b.pc = "done" => ~led.blinking \/ b.interrupted
  BY <1>3
<1> HIDE DEF b
<1>5. /\ LedTypeOK' /\ NotYetReady' /\ LastThreadBlinks'
      /\ led.thread # 0 => led.thread \in DOMAIN blinkers
      /\ \A j \in DOMAIN blinkers : blinkers'[j] = IF j = i THEN b ELSE blinkers[j]
  BY <1>1, <1>2, <1>3, <1>4, BlinkerMoves DEF LedTypeOK
<1>6. PinsFollow'
  BY <1>1, <1>2, <1>3, <1>5
     DEF PinsFollow, WrittenByHolder, WrittenByThread, LastThreadBlinks
<1>7. QED BY <1>5, <1>6

LEMMA BlinkerWritesStep ==
  ASSUME LedInv, NEW i \in DOMAIN blinkers, BlinkerWrites(i) \/ BlinkerWriteThrows(i)
  PROVE  LedInv'
<1> USE DEF LedInv
<1> DEFINE was == blinkers[i]
<1> DEFINE lit == IF was.on /\ was.pc = "blue" THEN pins \cup {was.pc} ELSE pins \ {was.pc}
<1> DEFINE next == IF was.pc = "blue" THEN "sleep" ELSE After(was.pc)
<1> DEFINE pc == IF BlinkerWrites(i) THEN next ELSE "sleep"
<1> DEFINE b == [was EXCEPT !.pc = pc, !.on = IF pc = "sleep" THEN ~@ ELSE @]
<1>1. was.pc \in Pins /\ was \in Blinkers
  BY BlinkerTypes DEF BlinkerWrites, BlinkerWriteThrows
<1>2. /\ UNCHANGED <<ledExec, led>> /\ stale' = (stale \/ i # led.thread)
      /\ \/ pc = next /\ pins' = lit /\ missed' = missed \ {was.pc}
         \/ pc = "sleep" /\ pins' \in {pins, lit} /\ missed' = missed \cup From(was.pc)
  BY DEF BlinkerWrites, BlinkerWriteThrows, BlinkerAt, Light, LightThrows, Switched
<1>3. blinkers' = [blinkers EXCEPT ![i] = b]
  BY DEF BlinkerWrites, BlinkerWriteThrows, BlinkerAt
<1>3a. pc \in Pins \cup {"sleep"}
  BY <1>1 DEF Pins, After
<1> HIDE DEF pc
<1>4. b \in Blinkers /\ b.interrupted = was.interrupted /\ b.pc = pc /\ pc # "done"
  BY <1>1, <1>3a DEF Blinkers, Pins
<1>5. pins' \subseteq Pins /\ missed' \subseteq Pins /\ stale' \in BOOLEAN
  BY <1>1, <1>2 DEF LedTypeOK, From, Pins
<1>6. was.pc # "done" /\ (b.pc = "done" => ~led.blinking \/ b.interrupted)
  BY <1>1, <1>4 DEF Pins
<1> HIDE DEF b
<1>7. /\ LedTypeOK' /\ NotYetReady' /\ LastThreadBlinks'
      /\ led.thread # 0 => led.thread \in DOMAIN blinkers
      /\ \A j \in DOMAIN blinkers : blinkers'[j] = IF j = i THEN b ELSE blinkers[j]
  BY <1>2, <1>3, <1>4, <1>5, <1>6, BlinkerMoves
\* A pin whose write got through or did not take place is not brighter than it
\* was, but for blue; and a pin that was not this thread's to write is as it was.
<1>8. /\ was.pc \in From(was.pc)
      /\ \A pin \in Pins \ missed' : pin \notin missed \/ (pin = was.pc /\ pins' = lit)
      /\ \A pin \in Pins : pin # was.pc => (pin \in pins' <=> pin \in pins)
      /\ \A pin \in Pins : pin # "blue" => (pin \in pins' => pin \in pins)
      /\ \A pin \in Pins \ missed' : pin = was.pc => pins' = lit
  <2>1. was.pc \in From(was.pc)
    BY <1>1 DEF From, Pins
  <2>2. QED BY <1>1, <1>2, <2>1
<1>9. ASSUME led.ready, led.mode = "blue_blink", NEW pin \in {"red", "green"} \ missed',
             WrittenByThread(pin)'
      PROVE  pin \notin pins'
  <2>1. led.thread # 0 /\ led.thread \in DOMAIN blinkers
    BY <1>7, <1>9 DEF LastThreadBlinks
  <2>2. CASE pin = was.pc
    <3>1. pins' = lit /\ pin # "blue"
      BY <1>8, <1>9, <2>2 DEF Pins
    <3>2. QED BY <2>2, <3>1
  <2>3. CASE pin # was.pc
    <3>1. pin \notin missed /\ (pin \in pins' => pin \in pins)
      BY <1>8, <1>9, <2>3 DEF Pins
    <3>2. WrittenByThread(pin)
      <4>1. CASE i = led.thread
        <5>1. CASE pc = next
          BY <1>1, <1>2, <1>4, <1>7, <1>9, <2>1, <2>3, <4>1, <5>1
             DEF WrittenByThread, Pins, After
        <5>2. CASE pc # next
          <6>1. missed' = missed \cup From(was.pc)
            BY <1>2, <5>2
          <6>2. pin \notin From(was.pc)
            BY <1>9, <6>1
          <6>3. QED BY <1>1, <1>9, <4>1, <6>2 DEF WrittenByThread, From, Pins
        <5>3. QED BY <5>1, <5>2
      <4>2. CASE i # led.thread
        BY <1>2, <1>7, <1>9, <2>1, <4>2 DEF WrittenByThread
      <4>3. QED BY <4>1, <4>2
    <3>3. QED BY <1>9, <3>1, <3>2 DEF PinsFollow
  <2>4. QED BY <2>2, <2>3
<1>10. ASSUME led.ready, led.mode # "blue_blink", NEW pin \in Pins \ missed',
              WrittenByHolder(pin)'
       PROVE  /\ pin \in pins' => pin \in Lit(led.mode) \/ (stale' /\ pin = "blue")
              /\ pin \in Lit(led.mode) => pin \in pins' \/ stale'
  <2>1. stale'
    <3>1. led.thread = 0 /\ i # 0
      BY <1>10, LenProperties DEF LastThreadBlinks, LedTypeOK
    <3>2. QED BY <3>1, <1>2
  <2>2. CASE pin = was.pc
    <3>1. pins' = lit
      BY <1>8, <1>10, <2>2
    <3>2. QED BY <2>1, <2>2, <3>1
  <2>3. CASE pin # was.pc
    <3>1. WrittenByHolder(pin) /\ pin \notin missed
      BY <1>2, <1>8, <1>10, <2>3 DEF WrittenByHolder
    <3>2. pin \in pins => pin \in Lit(led.mode) \/ (stale /\ pin = "blue")
      BY <1>10, <3>1 DEF PinsFollow
    <3>3. QED BY <1>8, <2>1, <2>3, <3>2
  <2>4. QED BY <2>2, <2>3
<1>11. PinsFollow'
  BY <1>2, <1>9, <1>10 DEF PinsFollow
<1>12. QED BY <1>7, <1>11

LEMMA LedStepKeeps ==
  ASSUME LedInv, LedStep \/ LedFails \/ \E gpio \in BOOLEAN : InitLed(gpio)
  PROVE  LedInv'
BY RunSetStep, WritePinStep, InitLedStep, BlinkerChecksStep, BlinkerWritesStep,
   BlinkerWakesStep DEF LedStep, LedFails

\* A quiet LED was written by the holder of the monitor to the end, or its
\* thread sleeps.
LEMMA LedInvTruthful == LedInv => LedIsTruthful
<1> SUFFICES ASSUME LedInv PROVE LedIsTruthful
  OBVIOUS
<1> USE DEF LedInv
<1>1. Blinking \subseteq {led.thread}
  BY DEF Blinking, LastThreadBlinks
<1>2. led.thread # 0 => led.thread \in Blinking
  <2>1. led.thread # 0 => led.thread \in DOMAIN blinkers
    BY LenProperties DEF LedTypeOK
  <2>2. QED BY <2>1 DEF Blinking, LastThreadBlinks
<1>3. Cardinality(Blinking) <= 1
  <2>1. IsFiniteSet({led.thread}) /\ Cardinality({led.thread}) = 1
    BY FS_Singleton
  <2>2. QED BY <1>1, <2>1, FS_Subset
<1>4. ASSUME LedQuiet, led.mode = "blue_blink"
      PROVE  pins \subseteq {"blue"} \cup missed /\ Blinking = {led.thread}
  <2>1. led.ready /\ led.thread # 0
    BY <1>4 DEF LedQuiet, LastThreadBlinks
  <2>2. blinkers[led.thread].pc = "sleep" /\ Blinking = {led.thread}
    BY <1>1, <1>2, <1>4, <2>1 DEF LedQuiet, Blinking
  <2>3. \A pin \in {"red", "green"} \ missed : pin \notin pins
    BY <1>4, <2>1, <2>2 DEF PinsFollow, WrittenByThread
  <2>4. QED BY <2>2, <2>3 DEF LedTypeOK, Pins
<1>5. ASSUME LedQuiet, led.mode # "blue_blink"
      PROVE  /\ pins \subseteq Lit(led.mode) \cup {"blue"} \cup missed
             /\ Blinking = {} /\ (pins \ missed = Lit(led.mode) \ missed \/ stale)
  <2>1. led.ready /\ led.pc = "idle"
    BY <1>5 DEF LedQuiet
  <2>2. led.thread = 0
    BY <1>5 DEF LastThreadBlinks
  <2>3. Blinking = {}
    <3>1. 0 \notin DOMAIN blinkers
      BY LenProperties DEF LedTypeOK
    <3>2. QED BY <1>1, <2>2, <3>1 DEF Blinking
  <2>4. \A pin \in Pins \ missed :
          /\ pin \in pins => pin \in Lit(led.mode) \/ (stale /\ pin = "blue")
          /\ pin \in Lit(led.mode) => pin \in pins \/ stale
    BY <1>5, <2>1 DEF PinsFollow, WrittenByHolder, Pins
  <2>5. pins \subseteq Pins /\ Lit(led.mode) \subseteq Pins
    BY DEF LedTypeOK, Lit, Pins
  <2>6. QED BY <2>3, <2>4, <2>5
<1>6. QED BY <1>3, <1>4, <1>5 DEF LedIsTruthful, Lit

-----------------------------------------------------------------------------
(* The bridge: every step keeps its invariant.                                *)

Answered == [request : Requests, says : SUBSET Facts]

LEMMA NeedsFacts == \A method : Needs(method) \subseteq Facts
BY DEF Needs, Facts

LEMMA BridgeTypes ==
  ASSUME BridgeTypeOK
  PROVE  /\ Len(engineExec) \in Nat /\ DOMAIN engineExec = 1..Len(engineExec)
         /\ \A i \in DOMAIN engineExec : engineExec[i] \in Requests
         /\ Len(answers) \in Nat /\ DOMAIN answers = 1..Len(answers)
         /\ \A i \in DOMAIN answers : answers[i] \in Answered /\ answers[i].request \in Requests
         /\ InFlight \subseteq Requests
<1>1. engineExec \in Seq(Requests) /\ answers \in Seq(Answered)
  BY DEF BridgeTypeOK, Answered
<1>2. /\ Len(engineExec) \in Nat /\ DOMAIN engineExec = 1..Len(engineExec)
      /\ \A i \in DOMAIN engineExec : engineExec[i] \in Requests
  BY <1>1, LenProperties, ElementOfSeq
<1>3. /\ Len(answers) \in Nat /\ DOMAIN answers = 1..Len(answers)
      /\ \A i \in DOMAIN answers : answers[i] \in Answered
  BY <1>1, LenProperties, ElementOfSeq
<1>4. \A i \in DOMAIN answers : answers[i].request \in Requests
  BY <1>3 DEF Answered
<1>5. QED BY <1>2, <1>3, <1>4 DEF InFlight

LEMMA BridgeInvInit == BridgeInit => BridgeInv
<1> SUFFICES ASSUME BridgeInit PROVE BridgeInv
  OBVIOUS
<1>1. /\ page = [n |-> 1, seq |-> 0, pending |-> {}] /\ engineExec = << >> /\ answers = << >>
      /\ engine = [up |-> "starting", registered |-> FALSE] /\ resolved = Nothing
  BY DEF BridgeInit, LoadedPage
<1>2. BridgeTypeOK
  BY <1>1 DEF BridgeTypeOK, Nothing, Methods
<1>3. InFlight = {} /\ DOMAIN answers = {}
  BY <1>1 DEF InFlight
<1>4. RequestsInv
  BY <1>1, <1>3 DEF RequestsInv
<1>5. AnswersBelong
  BY <1>1 DEF AnswersBelong, Nothing
<1>6. QED BY <1>2, <1>4, <1>5 DEF BridgeInv

LEMMA BridgeKept == ASSUME BridgeInv, UNCHANGED bridgeVars PROVE BridgeInv'
BY DEF BridgeInv, BridgeTypeOK, RequestsInv, AnswersBelong, InFlight, Numbered, bridgeVars

LEMMA CallStep == ASSUME BridgeInv, NEW method \in Methods, Call(method) PROVE BridgeInv'
<1> USE DEF BridgeInv
<1> DEFINE r == [from |-> page.n, id |-> page.seq + 1, method |-> method]
<1>1. page.n \in Nat /\ page.seq \in Nat /\ page.pending \subseteq Requests
  BY DEF BridgeTypeOK
<1>2. /\ r \in Requests /\ r.from = page.n /\ r.id = page.seq + 1
  BY <1>1 DEF Requests
<1>3. page' = [page EXCEPT !.seq = @ + 1, !.pending = @ \cup {r}] /\ UNCHANGED <<engine, resolved>>
  BY DEF Call
<1> DEFINE a == [request |-> r, says |-> {}]
<1>4. \/ method = "camera" /\ answers' = Append(answers, a) /\ UNCHANGED engineExec
      \/ engineExec' = Append(engineExec, r) /\ UNCHANGED answers
  BY DEF Call
<1>5. a \in Answered /\ a.request = r /\ a.says = {}
  BY <1>2 DEF Answered
<1> HIDE DEF r, a
<1>6. engineExec \in Seq(Requests) /\ answers \in Seq(Answered)
  BY DEF BridgeTypeOK, Answered
<1>7. /\ page'.n = page.n /\ page'.seq = page.seq + 1 /\ page'.pending = page.pending \cup {r}
  BY <1>3 DEF RequestsInv
<1>8. /\ engineExec' \in Seq(Requests) /\ answers' \in Seq(Answered)
      /\ InFlight' = InFlight \cup {r}
      /\ \A i \in DOMAIN answers' : \/ i \in DOMAIN answers /\ answers'[i] = answers[i]
                                    \/ answers'[i] = a
  <2>1. CASE method = "camera" /\ answers' = Append(answers, a) /\ UNCHANGED engineExec
    <3>1. /\ answers' \in Seq(Answered) /\ Len(answers) \in Nat
          /\ DOMAIN answers' = 1..(Len(answers) + 1) /\ DOMAIN answers = 1..Len(answers)
          /\ \A i \in 1..Len(answers) : answers'[i] = answers[i]
          /\ answers'[Len(answers) + 1] = a
      BY <2>1, <1>5, <1>6, Appended
    <3>2. {answers'[i].request : i \in DOMAIN answers'} =
            {answers[i].request : i \in DOMAIN answers} \cup {r}
      BY <3>1, <1>5
    <3>3. InFlight' = InFlight \cup {r}
      BY <2>1, <3>2 DEF InFlight
    <3>4. \A i \in DOMAIN answers' : \/ i \in DOMAIN answers /\ answers'[i] = answers[i]
                                     \/ answers'[i] = a
      BY <3>1
    <3>5. QED BY <2>1, <3>1, <3>3, <3>4, <1>6
  <2>2. CASE engineExec' = Append(engineExec, r) /\ UNCHANGED answers
    <3>1. /\ engineExec' \in Seq(Requests) /\ Len(engineExec) \in Nat
          /\ DOMAIN engineExec' = 1..(Len(engineExec) + 1)
          /\ DOMAIN engineExec = 1..Len(engineExec)
          /\ \A i \in 1..Len(engineExec) : engineExec'[i] = engineExec[i]
          /\ engineExec'[Len(engineExec) + 1] = r
      BY <2>2, <1>2, <1>6, Appended
    <3>2. {engineExec'[i] : i \in DOMAIN engineExec'} =
            {engineExec[i] : i \in DOMAIN engineExec} \cup {r}
      BY <3>1
    <3>3. InFlight' = InFlight \cup {r}
      BY <2>2, <3>2 DEF InFlight
    <3>4. QED BY <2>2, <3>1, <3>3, <1>6
  <2>3. QED BY <1>4, <2>1, <2>2
<1>9. BridgeTypeOK'
  BY <1>1, <1>2, <1>3, <1>7, <1>8 DEF BridgeTypeOK, Answered
<1>10. RequestsInv'
  <2>1. \A q \in InFlight : Numbered(q)' /\ ~(q.from = r.from /\ q.id = r.id)
    BY <1>1, <1>2, <1>7, BridgeTypes DEF RequestsInv, Numbered, Requests
  <2>2. r.from <= page'.n /\ (r.from = page'.n => r.id <= page'.seq)
    BY <1>1, <1>2, <1>7
  <2>3. page' \in [n : Nat, seq : Nat, pending : SUBSET Requests]
    <3>1. page \in [n : Nat, seq : Nat, pending : SUBSET Requests]
      BY DEF RequestsInv
    <3>2. page.seq + 1 \in Nat /\ page.pending \cup {r} \in SUBSET Requests
      BY <1>1, <1>2
    <3>3. QED BY <1>3, <3>1, <3>2
  <2>4. \A q, s \in InFlight' : q.from = s.from /\ q.id = s.id => q = s
    BY <1>8, <2>1 DEF RequestsInv
  <2>5. \A i \in DOMAIN answers' : answers'[i].says \subseteq Needs(answers'[i].request.method)
    BY <1>5, <1>8 DEF RequestsInv
  <2>6. \A q \in InFlight' : Numbered(q)'
    BY <1>8, <2>1, <2>2 DEF Numbered
  <2>7. QED BY <2>3, <2>4, <2>5, <2>6 DEF RequestsInv
<1>11. AnswersBelong'
  BY <1>2, <1>3, <1>7, <1>8 DEF AnswersBelong
<1>12. QED BY <1>9, <1>10, <1>11

LEMMA StartEngineStep == ASSUME BridgeInv, StartEngine PROVE BridgeInv'
<1> USE DEF BridgeInv
<1>1. UNCHANGED <<page, engineExec, answers, resolved>>
  BY DEF StartEngine
<1>2. engine' \in [up : {"starting", "up", "failed"}, registered : BOOLEAN]
  BY DEF StartEngine, BridgeTypeOK
<1>3. BridgeTypeOK'
  BY <1>1, <1>2 DEF BridgeTypeOK
<1>4. RequestsInv' /\ AnswersBelong'
  BY <1>1 DEF RequestsInv, AnswersBelong, InFlight, Numbered
<1>5. QED BY <1>3, <1>4

\* What handle answers is what requests of the kind are told.
LEMMA ServedSays ==
  ASSUME engine.registered \in BOOLEAN, NEW method, NEW served \in Served(method)
  PROVE  served.says \subseteq Needs(method) /\ served.store \in BOOLEAN
<1> DEFINE kept == engine.registered
<1> DEFINE up == engine.up = "up"
<1> DEFINE Answer(says, store) == [says |-> says, store |-> store]
<1>1. \/ served = Answer({}, kept)
      \/ method = "status" /\ served = Answer(IF up THEN {"ready"} ELSE {}, kept)
      \/ method = "probe" /\ served = Answer({"found"}, kept)
      \/ method = "register" /\ (served = Answer({"ok"}, TRUE) \/ served = Answer({}, FALSE))
      \/ method = "match" /\ \E s \in {{"ok"}, {"ok", "sure"}} : served = Answer(s, kept)
  <2>1. CASE method = "status"
    BY <2>1 DEF Served
  <2>2. CASE up /\ method = "probe"
    BY <2>2 DEF Served
  <2>3. CASE up /\ method = "register"
    BY <2>3 DEF Served
  <2>4. CASE up /\ method = "match" /\ kept
    BY <2>4 DEF Served
  <2>5. CASE /\ method # "status" /\ ~(up /\ method = "probe")
             /\ ~(up /\ method = "register") /\ ~(up /\ method = "match" /\ kept)
    BY <2>5 DEF Served
  <2>6. QED BY <2>1, <2>2, <2>3, <2>4, <2>5
<1>2. kept \in BOOLEAN
  OBVIOUS
<1>3. QED
  <2> HIDE DEF kept, up
  <2>1. CASE served = Answer({}, kept)
    BY <1>2, <2>1
  <2>2. CASE method = "status" /\ served = Answer(IF up THEN {"ready"} ELSE {}, kept)
    <3>1. (IF up THEN {"ready"} ELSE {}) \subseteq Needs(method)
      BY <2>2 DEF Needs
    <3>2. QED BY <1>2, <2>2, <3>1
  <2>3. CASE method = "probe" /\ served = Answer({"found"}, kept)
    <3>1. {"found"} \subseteq Needs(method)
      BY <2>3 DEF Needs
    <3>2. QED BY <1>2, <2>3, <3>1
  <2>4. CASE method = "register" /\ served = Answer({"ok"}, TRUE)
    <3>1. {"ok"} \subseteq Needs(method)
      BY <2>4 DEF Needs
    <3>2. QED BY <2>4, <3>1
  <2>5. CASE served = Answer({}, FALSE)
    BY <2>5
  <2>6. CASE method = "match" /\ \E s \in {{"ok"}, {"ok", "sure"}} : served = Answer(s, kept)
    <3>1. PICK s \in {{"ok"}, {"ok", "sure"}} : served = Answer(s, kept)
      BY <2>6
    <3>2. s \subseteq Needs(method)
      BY <2>6 DEF Needs
    <3>3. QED BY <1>2, <3>1, <3>2
  <2>7. QED BY <1>1, <2>1, <2>2, <2>3, <2>4, <2>5, <2>6

LEMMA ServeStep ==
  ASSUME BridgeInv, engineExec # << >>, NEW served \in Served(Head(engineExec).method),
         Serve(served)
  PROVE  BridgeInv'
<1> USE DEF BridgeInv
<1> DEFINE r == Head(engineExec)
<1> DEFINE a == [request |-> r, says |-> served.says]
<1>1. /\ engine' = [engine EXCEPT !.registered = served.store] /\ UNCHANGED <<page, resolved>>
      /\ engineExec' = Tail(engineExec) /\ answers' = Append(answers, a)
  BY DEF Serve, AnswerWith
<1>2. engineExec \in Seq(Requests) /\ answers \in Seq(Answered)
  BY DEF BridgeTypeOK, Answered
<1>3. served.says \subseteq Needs(r.method) /\ served.store \in BOOLEAN
  BY ServedSays DEF BridgeTypeOK
<1>4. /\ r \in Requests /\ engineExec' \in Seq(Requests) /\ r = engineExec[1]
      /\ Len(engineExec) \in Nat \ {0} /\ DOMAIN engineExec = 1..Len(engineExec)
      /\ DOMAIN engineExec' = 1..(Len(engineExec) - 1)
      /\ \A i \in 1..(Len(engineExec) - 1) : engineExec'[i] = engineExec[i + 1]
  BY <1>1, <1>2, Dropped
<1>5. a \in Answered /\ a.request = r /\ a.says = served.says
  BY <1>3, <1>4, NeedsFacts DEF Answered
<1> HIDE DEF r, a
<1>6. /\ answers' \in Seq(Answered) /\ Len(answers) \in Nat
      /\ DOMAIN answers' = 1..(Len(answers) + 1) /\ DOMAIN answers = 1..Len(answers)
      /\ \A i \in 1..Len(answers) : answers'[i] = answers[i]
      /\ answers'[Len(answers) + 1] = a
  BY <1>1, <1>2, <1>5, Appended
<1>7. {engineExec[i] : i \in DOMAIN engineExec} =
        {engineExec'[i] : i \in DOMAIN engineExec'} \cup {r}
  <2>1. ASSUME NEW i \in DOMAIN engineExec
        PROVE  engineExec[i] \in {engineExec'[j] : j \in DOMAIN engineExec'} \cup {r}
    <3>1. CASE i = 1
      BY <3>1, <1>4
    <3>2. CASE i # 1
      <4>1. i - 1 \in DOMAIN engineExec' /\ engineExec'[i - 1] = engineExec[(i - 1) + 1]
            /\ (i - 1) + 1 = i
        BY <3>2, <1>4
      <4>2. QED BY <4>1
    <3>3. QED BY <3>1, <3>2
  <2>2. r \in {engineExec[i] : i \in DOMAIN engineExec}
    <3>1. 1 \in DOMAIN engineExec
      BY <1>4
    <3>2. QED BY <1>4, <3>1
  <2>3. ASSUME NEW j \in DOMAIN engineExec'
        PROVE  engineExec'[j] \in {engineExec[i] : i \in DOMAIN engineExec}
    <3>1. j + 1 \in DOMAIN engineExec /\ engineExec'[j] = engineExec[j + 1]
      BY <1>4
    <3>2. QED BY <3>1
  <2>4. QED BY <2>1, <2>2, <2>3, Zenon
<1>8. {answers'[i].request : i \in DOMAIN answers'} =
        {answers[i].request : i \in DOMAIN answers} \cup {r}
  BY <1>5, <1>6
<1>9. InFlight' = InFlight
  BY <1>7, <1>8 DEF InFlight
<1>10. engine' \in [up : {"starting", "up", "failed"}, registered : BOOLEAN]
  BY <1>1, <1>3 DEF BridgeTypeOK
<1>11. BridgeTypeOK'
  BY <1>1, <1>4, <1>6, <1>10 DEF BridgeTypeOK, Answered
<1>12. \A i \in DOMAIN answers' : answers'[i].says \subseteq Needs(answers'[i].request.method)
  BY <1>3, <1>5, <1>6 DEF RequestsInv
<1>13. RequestsInv'
  BY <1>1, <1>9, <1>12 DEF RequestsInv, Numbered
<1>14. AnswersBelong'
  BY <1>1, <1>9 DEF AnswersBelong
<1>15. QED BY <1>11, <1>13, <1>14

\* Requests of one number within a page are the same request, so the number
\* decides rightly as long as the page has not been replaced.
LEMMA ResolveStep == ASSUME BridgeInv, Resolve PROVE BridgeInv'
<1> USE DEF BridgeInv
<1> DEFINE a == Head(answers)
<1> DEFINE known == {r \in page.pending : r.id = a.request.id}
<1>1. /\ answers # << >> /\ answers' = Tail(answers) /\ UNCHANGED <<engineExec, engine>>
      /\ page' = [page EXCEPT !.pending = @ \ known]
  BY DEF Resolve
<1>2. \/ known = {} /\ UNCHANGED resolved
      \/ \E r \in known :
           resolved' = [page |-> page.n, asked |-> r.method, from |-> a.request.from,
                        by |-> a.request.method, id |-> r.id,
                        good |-> Succeeds(r.method, a.says)]
  BY DEF Resolve
<1>3. engineExec \in Seq(Requests) /\ answers \in Seq(Answered)
  BY DEF BridgeTypeOK, Answered
<1>4. /\ a \in Answered /\ answers' \in Seq(Answered) /\ a = answers[1]
      /\ Len(answers) \in Nat \ {0} /\ DOMAIN answers = 1..Len(answers)
      /\ DOMAIN answers' = 1..(Len(answers) - 1)
      /\ \A i \in 1..(Len(answers) - 1) : answers'[i] = answers[i + 1]
  BY <1>1, <1>3, Dropped
<1>5. a.request \in Requests /\ a.request \in InFlight /\ a.says \subseteq Needs(a.request.method)
  BY <1>4 DEF Answered, InFlight, RequestsInv
<1>6. page.pending \subseteq Requests /\ known \subseteq page.pending /\ page.n \in Nat
  BY DEF BridgeTypeOK
<1>7. /\ page'.n = page.n /\ page'.seq = page.seq /\ page'.pending = page.pending \ known
      /\ page' \in [n : Nat, seq : Nat, pending : SUBSET Requests]
  BY <1>1 DEF RequestsInv
<1> HIDE DEF a
<1>8. \A q \in InFlight : q = a.request \/ q \in InFlight'
  <2> SUFFICES ASSUME NEW q \in InFlight, q # a.request PROVE q \in InFlight'
    OBVIOUS
  <2>1. CASE \E i \in DOMAIN engineExec : q = engineExec[i]
    BY <2>1, <1>1 DEF InFlight
  <2>2. CASE \E i \in DOMAIN answers : q = answers[i].request
    <3>1. PICK i \in DOMAIN answers : q = answers[i].request
      BY <2>2
    <3>2. i - 1 \in DOMAIN answers' /\ (i - 1) + 1 = i
      BY <3>1, <1>4
    <3>3. answers'[i - 1] = answers[i]
      BY <3>2, <1>4
    <3>4. QED BY <3>1, <3>2, <3>3 DEF InFlight
  <2>3. QED BY <2>1, <2>2 DEF InFlight
<1>9. InFlight' \subseteq InFlight
  <2>1. \A i \in DOMAIN answers' : i + 1 \in DOMAIN answers /\ answers'[i] = answers[i + 1]
    BY <1>4
  <2>2. QED BY <2>1, <1>1 DEF InFlight
<1>10. \A r \in page'.pending : r.from = page'.n /\ r \in InFlight'
  <2> SUFFICES ASSUME NEW r \in page'.pending PROVE r.from = page.n /\ r \in InFlight'
    BY <1>7
  <2>1. r.from = page.n /\ r \in InFlight /\ r # a.request
    BY <1>7 DEF AnswersBelong
  <2>2. QED BY <2>1, <1>8
<1>11. RequestsInv'
  <2>1. \A i \in DOMAIN answers' : answers'[i].says \subseteq Needs(answers'[i].request.method)
    <3> TAKE i \in DOMAIN answers'
    <3>1. i + 1 \in DOMAIN answers /\ answers'[i] = answers[i + 1]
      BY <1>4
    <3>2. QED BY <3>1 DEF RequestsInv
  <2>2. QED BY <2>1, <1>7, <1>9 DEF RequestsInv, Numbered
<1>12. CASE known = {} /\ UNCHANGED resolved
  <2>1. BridgeTypeOK'
    BY <1>1, <1>4, <1>7, <1>12 DEF BridgeTypeOK, Answered
  <2>2. AnswersBelong'
    BY <1>7, <1>10, <1>12 DEF AnswersBelong
  <2>3. QED BY <2>1, <2>2, <1>11
<1>13. CASE \E r \in known :
              resolved' = [page |-> page.n, asked |-> r.method, from |-> a.request.from,
                           by |-> a.request.method, id |-> r.id,
                           good |-> Succeeds(r.method, a.says)]
  <2>1. PICK r \in known :
          resolved' = [page |-> page.n, asked |-> r.method, from |-> a.request.from,
                       by |-> a.request.method, id |-> r.id,
                       good |-> Succeeds(r.method, a.says)]
    BY <1>13
  <2>2. r \in Requests /\ r.id = a.request.id /\ r.from = page.n /\ r \in InFlight
    BY <1>6 DEF AnswersBelong
  <2>3. /\ r.method \in Methods /\ r.id \in Nat
        /\ a.request.method \in Methods /\ a.request.from \in Nat
    BY <2>2, <1>5 DEF Requests
  <2>4. Succeeds(r.method, a.says) \in BOOLEAN
    BY DEF Succeeds
  <2>5. resolved' \in [page : Nat, asked : Methods, from : Nat, by : Methods, id : Nat,
                       good : BOOLEAN]
    BY <2>1, <2>3, <2>4, <1>6
  <2>6. BridgeTypeOK'
    BY <2>5, <1>1, <1>4, <1>7 DEF BridgeTypeOK, Answered
  <2>7. /\ resolved'.page = page.n /\ resolved'.asked = r.method
        /\ resolved'.from = a.request.from /\ resolved'.by = a.request.method
        /\ resolved'.good => Needs(r.method) \subseteq a.says
    BY <2>1 DEF Succeeds
  <2>8. a.request.from = page.n => a.request = r
    BY <2>2, <1>5 DEF RequestsInv
  <2>9. (resolved'.good /\ r.method = "match") => a.request.method = "match"
    <3> SUFFICES ASSUME resolved'.good, r.method = "match" PROVE a.request.method = "match"
      OBVIOUS
    <3>1. "sure" \in Needs(a.request.method)
      BY <2>7, <1>5 DEF Needs
    <3>2. QED BY <3>1 DEF Needs
  <2>10. (resolved'.good /\ r.method = "register") => a.request.method \in {"register", "match"}
    <3> SUFFICES ASSUME resolved'.good, r.method = "register"
                 PROVE  a.request.method \in {"register", "match"}
      OBVIOUS
    <3>1. "ok" \in Needs(a.request.method)
      BY <2>7, <1>5 DEF Needs
    <3>2. QED BY <3>1 DEF Needs
  <2>11. AnswersBelong'
    BY <2>7, <2>8, <2>9, <2>10, <1>10 DEF AnswersBelong
  <2>12. QED BY <2>6, <2>11, <1>11
<1>14. QED BY <1>2, <1>12, <1>13

LEMMA LoadPageStep == ASSUME BridgeInv, LoadPage PROVE BridgeInv'
<1> USE DEF BridgeInv
<1>1. UNCHANGED <<engineExec, answers, engine, resolved>>
  BY DEF LoadPage
<1>2. /\ page' = [n |-> page.n + 1, seq |-> 0, pending |-> {}] /\ page.n \in Nat
  BY DEF LoadPage, LoadedPage, BridgeTypeOK
<1>3. BridgeTypeOK'
  BY <1>1, <1>2 DEF BridgeTypeOK
<1>4. InFlight' = InFlight
  BY <1>1 DEF InFlight
<1>5. \A r \in InFlight : Numbered(r)'
  BY <1>2, BridgeTypes DEF RequestsInv, Numbered, Requests
<1>6. RequestsInv'
  BY <1>1, <1>2, <1>4, <1>5 DEF RequestsInv
<1>7. AnswersBelong'
  BY <1>1, <1>2 DEF AnswersBelong
<1>8. QED BY <1>3, <1>6, <1>7

LEMMA BridgeStepKeeps == ASSUME BridgeInv, BridgeStep PROVE BridgeInv'
BY StartEngineStep, ServeStep, ResolveStep DEF BridgeStep

-----------------------------------------------------------------------------
(* The camera: its devices and the UI thread's queue.                         *)

Devices ==
  [state : {"opening", "open", "lost", "closed"}, config : {"none", "asked", "told", "refused"}]
Posts(n) == [what : Tasks, device : 0..n]
DeviceTasks == {"opened", "gone", "configured"}

LEMMA CameraTypes ==
  ASSUME CameraTypeOK
  PROVE  /\ devices \in Seq(Devices) /\ Len(devices) \in Nat /\ DOMAIN devices = 1..Len(devices)
         /\ \A d \in DOMAIN devices : devices[d] \in Devices
         /\ posts \in Seq(Posts(Len(devices))) /\ Len(posts) \in Nat
         /\ DOMAIN posts = 1..Len(posts)
         /\ \A i \in DOMAIN posts :
              posts[i].what \in Tasks /\ posts[i].device \in 0..Len(devices)
         /\ cam.camera \in 0..Len(devices) /\ cam.session \in 0..Len(devices)
         /\ cam.wanted \in BOOLEAN
         /\ cam \in [wanted : BOOLEAN, camera : 0..Len(devices), session : 0..Len(devices)]
<1>1. devices \in Seq(Devices) /\ posts \in Seq(Posts(Len(devices)))
  BY DEF CameraTypeOK, Devices, Posts
<1>2. /\ Len(devices) \in Nat /\ DOMAIN devices = 1..Len(devices)
      /\ \A d \in DOMAIN devices : devices[d] \in Devices
  BY <1>1, LenProperties, ElementOfSeq
<1>3. /\ Len(posts) \in Nat /\ DOMAIN posts = 1..Len(posts)
      /\ \A i \in DOMAIN posts : posts[i] \in Posts(Len(devices))
  BY <1>1, LenProperties, ElementOfSeq
<1>4. cam \in [wanted : BOOLEAN, camera : 0..Len(devices), session : 0..Len(devices)]
  BY DEF CameraTypeOK
<1>5. QED BY <1>1, <1>2, <1>3, <1>4 DEF Posts

\* A task is posted behind the others.
LEMMA PostKeeps ==
  ASSUME CameraTypeOK, NEW what \in Tasks, NEW d \in 0..Len(devices), Post(what, d)
  PROVE  /\ posts' \in Seq(Posts(Len(devices)))
         /\ DOMAIN posts = 1..Len(posts) /\ Len(posts) \in Nat
         /\ DOMAIN posts' = 1..(Len(posts) + 1) /\ Len(posts') = Len(posts) + 1
         /\ \A i \in 1..Len(posts) : posts'[i] = posts[i]
         /\ posts'[Len(posts) + 1].what = what /\ posts'[Len(posts) + 1].device = d
<1>1. Task(what, d) \in Posts(Len(devices)) /\ posts' = Append(posts, Task(what, d))
  BY DEF Task, Posts, Post
<1>2. posts \in Seq(Posts(Len(devices)))
  BY CameraTypes
<1>3. QED BY <1>1, <1>2, Appended DEF Task

LEMMA PostMeans ==
  ASSUME CameraTypeOK, NEW what \in Tasks, NEW d \in 0..Len(devices), Post(what, d)
  PROVE  /\ Closing' <=> Closing \/ what = "close"
         /\ \A w, e : Posted(w, e)' <=> Posted(w, e) \/ (w = what /\ e = d)
         /\ Reopening' <=> what = "open" \/ (Reopening /\ what # "close")
         /\ \A i \in DOMAIN posts' :
              LastOpen(i)' => \/ i \in DOMAIN posts /\ LastOpen(i) /\ what # "close"
                              \/ i = Len(posts) + 1 /\ what = "open"
<1> DEFINE n == Len(posts) + 1
<1>1. /\ DOMAIN posts = 1..Len(posts) /\ Len(posts) \in Nat /\ DOMAIN posts' = 1..n
      /\ \A i \in 1..Len(posts) : posts'[i] = posts[i]
      /\ posts'[n].what = what /\ posts'[n].device = d
  BY PostKeeps
<1>2. n \in DOMAIN posts' /\ n = Len(posts) + 1
  BY <1>1
<1> HIDE DEF n
<1>3. \A i \in DOMAIN posts : i \in DOMAIN posts' /\ posts'[i] = posts[i]
  BY <1>1, <1>2
<1>4. \A i \in DOMAIN posts' : i \in DOMAIN posts \/ i = n
  BY <1>1, <1>2
<1>5. \A i \in DOMAIN posts : i < n
  BY <1>1, <1>2
<1>6. Closing' <=> Closing \/ what = "close"
  BY <1>1, <1>2, <1>3, <1>4 DEF Closing
<1>7. \A w, e : Posted(w, e)' <=> Posted(w, e) \/ (w = what /\ e = d)
  BY <1>1, <1>2, <1>3, <1>4 DEF Posted, IsTask
<1>8. \A i \in DOMAIN posts' :
        LastOpen(i)' <=> \/ i \in DOMAIN posts /\ LastOpen(i) /\ what # "close"
                         \/ i = n /\ what = "open"
  <2> TAKE i \in DOMAIN posts'
  <2>1. CASE i = n
    <3>1. \A j \in DOMAIN posts' : ~(j > n)
      BY <1>1, <1>2
    <3>2. n \notin DOMAIN posts
      BY <1>1, <1>2
    <3>3. QED BY <1>1, <1>2, <2>1, <3>1, <3>2 DEF LastOpen
  <2>2. CASE i \in DOMAIN posts
    <3>1. i # n /\ n > i
      BY <1>1, <1>2, <2>2
    <3>2. QED BY <1>1, <1>2, <1>3, <1>4, <2>2, <3>1 DEF LastOpen
  <2>3. QED BY <1>4, <2>1, <2>2
<1>9. Reopening' <=> what = "open" \/ (Reopening /\ what # "close")
  <2>1. Reopening' => what = "open" \/ (Reopening /\ what # "close")
    BY <1>8 DEF Reopening
  <2>2. what = "open" => Reopening'
    BY <1>2, <1>8 DEF Reopening
  <2>3. (Reopening /\ what # "close") => Reopening'
    BY <1>3, <1>8 DEF Reopening
  <2>4. QED BY <2>1, <2>2, <2>3
<1>10. QED BY <1>2, <1>6, <1>7, <1>8, <1>9

\* The first task is taken.
LEMMA RunKeeps ==
  ASSUME CameraTypeOK, posts # << >>, posts' = Tail(posts)
  PROVE  /\ posts' \in Seq(Posts(Len(devices)))
         /\ Len(posts) \in Nat \ {0} /\ Head(posts) = posts[1]
         /\ DOMAIN posts = 1..Len(posts) /\ DOMAIN posts' = 1..(Len(posts) - 1)
         /\ \A i \in 1..(Len(posts) - 1) : posts'[i] = posts[i + 1]
<1>1. posts \in Seq(Posts(Len(devices)))
  BY CameraTypes
<1>2. QED BY <1>1, Dropped

LEMMA RunMeans ==
  ASSUME CameraTypeOK, posts # << >>, posts' = Tail(posts)
  PROVE  LET t == Head(posts) IN
         /\ 1 \in DOMAIN posts /\ t = posts[1]
         /\ \A i \in DOMAIN posts' : i + 1 \in DOMAIN posts /\ posts'[i] = posts[i + 1]
         /\ Closing => Closing' \/ t.what = "close"
         /\ Closing' => Closing
         /\ \A w, e : Posted(w, e) => Posted(w, e)' \/ (w = t.what /\ e = t.device)
         /\ \A i \in DOMAIN posts' : LastOpen(i)' => LastOpen(i + 1)
         /\ Reopening => Reopening' \/ (t.what = "open" /\ ~Closing' /\ LastOpen(1))
         /\ Reopening' => Reopening
<1> DEFINE t == Head(posts)
<1>1. /\ Len(posts) \in Nat \ {0} /\ t = posts[1]
      /\ DOMAIN posts = 1..Len(posts) /\ DOMAIN posts' = 1..(Len(posts) - 1)
      /\ \A i \in 1..(Len(posts) - 1) : posts'[i] = posts[i + 1]
  BY RunKeeps
<1>2. 1 \in DOMAIN posts
  BY <1>1
<1>3. \A i \in DOMAIN posts' : i + 1 \in DOMAIN posts /\ posts'[i] = posts[i + 1] /\ i + 1 > 1
  BY <1>1
<1>4. \A i \in DOMAIN posts : i = 1 \/ (i - 1 \in DOMAIN posts' /\ posts'[i - 1] = posts[i])
  <2> TAKE i \in DOMAIN posts
  <2>1. CASE i # 1
    <3>1. i - 1 \in DOMAIN posts' /\ (i - 1) + 1 = i
      BY <1>1, <2>1
    <3>2. posts'[i - 1] = posts[(i - 1) + 1]
      BY <1>3, <3>1
    <3>3. posts'[i - 1] = posts[i]
      BY <3>1, <3>2, Zenon
    <3>4. QED BY <3>1, <3>3, Zenon
  <2>2. QED BY <2>1, Zenon
<1> HIDE DEF t
<1>5. (Closing => Closing' \/ t.what = "close") /\ (Closing' => Closing)
  <2>1. ASSUME Closing PROVE Closing' \/ t.what = "close"
    <3>1. PICK i \in DOMAIN posts : posts[i].what = "close"
      BY <2>1 DEF Closing
    <3>2. CASE i = 1
      BY <1>1, <3>1, <3>2
    <3>3. CASE i # 1
      <4>1. PICK j \in DOMAIN posts' : posts'[j] = posts[i]
        BY <1>4, <3>3
      <4>2. QED BY <3>1, <4>1 DEF Closing
    <3>4. QED BY <3>2, <3>3
  <2>2. Closing' => Closing
    BY <1>3 DEF Closing
  <2>3. QED BY <2>1, <2>2
<1>6. ASSUME NEW w, NEW e, Posted(w, e)
      PROVE  Posted(w, e)' \/ (w = t.what /\ e = t.device)
  <2>1. PICK i \in DOMAIN posts : posts[i].what = w /\ posts[i].device = e
    BY <1>6 DEF Posted, IsTask
  <2>2. CASE i = 1
    BY <1>1, <2>1, <2>2
  <2>3. CASE i # 1
    <3>1. PICK j \in DOMAIN posts' : posts'[j] = posts[i]
      BY <1>4, <2>3
    <3>2. QED BY <2>1, <3>1 DEF Posted, IsTask
  <2>4. QED BY <2>2, <2>3
<1>7. \A i \in DOMAIN posts' : LastOpen(i)' <=> LastOpen(i + 1)
  <2> TAKE i \in DOMAIN posts'
  <2>1. ASSUME LastOpen(i)', NEW j \in DOMAIN posts, j > i + 1 PROVE posts[j].what # "close"
    <3>1. j - 1 \in DOMAIN posts' /\ posts'[j - 1] = posts[j] /\ j - 1 > i
      BY <1>1, <1>4, <2>1
    <3>2. QED BY <3>1, <2>1 DEF LastOpen
  <2>2. ASSUME LastOpen(i + 1), NEW j \in DOMAIN posts', j > i PROVE posts'[j].what # "close"
    <3>1. j + 1 \in DOMAIN posts /\ posts'[j] = posts[j + 1] /\ j + 1 > i + 1
      BY <1>1, <1>3, <2>2
    <3>2. QED BY <3>1, <2>2 DEF LastOpen
  <2>3. QED BY <1>3, <2>1, <2>2 DEF LastOpen
<1>8. Reopening' => Reopening
  BY <1>3, <1>7 DEF Reopening
<1>9. Reopening => Reopening' \/ (t.what = "open" /\ ~Closing' /\ LastOpen(1))
  <2> SUFFICES ASSUME Reopening PROVE Reopening' \/ (t.what = "open" /\ ~Closing' /\ LastOpen(1))
    OBVIOUS
  <2>1. PICK i \in DOMAIN posts : LastOpen(i)
    BY DEF Reopening
  <2>2. CASE i = 1
    <3>1. t.what = "open"
      BY <1>1, <2>1, <2>2 DEF LastOpen
    <3>2. ~Closing'
      BY <1>3, <2>1, <2>2 DEF LastOpen, Closing
    <3>3. QED BY <2>1, <2>2, <3>1, <3>2
  <2>3. CASE i # 1
    <3>1. i - 1 \in DOMAIN posts' /\ (i - 1) + 1 = i
      BY <1>1, <1>4, <2>3
    <3>2. LastOpen(i - 1)'
      BY <1>7, <2>1, <3>1
    <3>3. QED BY <3>1, <3>2 DEF Reopening
  <2>4. QED BY <2>2, <2>3
<1>10. QED BY <1>1, <1>2, <1>3, <1>5, <1>6, <1>7, <1>8, <1>9 DEF t

\* The devices' invariant looks at the queue, the devices and the field alone.
LEMMA DevicesKept ==
  ASSUME DevicesInv, UNCHANGED <<posts, devices>>, cam'.camera = cam.camera, Once' => Once
  PROVE  DevicesInv'
BY DEF DevicesInv, InOrder, TaskInv, LifeInv, Posted, IsTask

LEMMA OrderPosted ==
  ASSUME CameraTypeOK, InOrder, NEW what \in Tasks, NEW d \in 0..Len(devices), Post(what, d),
         what \in DeviceTasks =>
           \A i \in DOMAIN posts : posts[i].what \in DeviceTasks =>
             posts[i].device <= d /\ (what = "opened" => posts[i].device # d)
  PROVE  InOrder'
<1> DEFINE n == Len(posts) + 1
<1>1. /\ DOMAIN posts = 1..Len(posts) /\ Len(posts) \in Nat /\ DOMAIN posts' = 1..n
      /\ \A i \in 1..Len(posts) : posts'[i] = posts[i]
      /\ posts'[n].what = what /\ posts'[n].device = d
  BY PostKeeps
<1> SUFFICES ASSUME NEW i \in DOMAIN posts', NEW j \in DOMAIN posts', i < j,
                    posts'[i].what \in DeviceTasks, posts'[j].what \in DeviceTasks
             PROVE  /\ posts'[i].device <= posts'[j].device
                    /\ posts'[i].device = posts'[j].device => posts'[j].what # "opened"
  BY DEF InOrder, DeviceTasks
<1>2. i \in DOMAIN posts /\ posts'[i] = posts[i]
  BY <1>1
<1>3. CASE j = n
  BY <1>1, <1>2, <1>3
<1>4. CASE j # n
  <2>1. j \in DOMAIN posts /\ posts'[j] = posts[j]
    BY <1>1, <1>4
  <2>2. QED BY <1>2, <2>1 DEF InOrder, DeviceTasks
<1>5. QED BY <1>3, <1>4

LEMMA OrderRun ==
  ASSUME CameraTypeOK, InOrder, posts # << >>, posts' = Tail(posts)
  PROVE  /\ InOrder'
         /\ posts[1].what \in DeviceTasks =>
              \A i \in DOMAIN posts' : posts'[i].what \in DeviceTasks =>
                /\ posts[1].device <= posts'[i].device
                /\ posts[1].device = posts'[i].device => posts'[i].what # "opened"
<1>1. 1 \in DOMAIN posts
  BY RunMeans
<1>2. \A i \in DOMAIN posts' :
        i \in Int /\ i + 1 > 1 /\ i + 1 \in DOMAIN posts /\ posts'[i] = posts[i + 1]
  BY RunKeeps
<1>3. InOrder'
  <2> SUFFICES ASSUME NEW i \in DOMAIN posts', NEW j \in DOMAIN posts', i < j,
                      posts'[i].what \in DeviceTasks, posts'[j].what \in DeviceTasks
               PROVE  /\ posts'[i].device <= posts'[j].device
                      /\ posts'[i].device = posts'[j].device => posts'[j].what # "opened"
    BY DEF InOrder, DeviceTasks
  <2>1. i + 1 < j + 1
    BY <1>2
  <2>2. QED BY <1>2, <2>1 DEF InOrder, DeviceTasks
<1>4. QED BY <1>1, <1>2, <1>3 DEF InOrder, DeviceTasks

\* An open or a close is posted.
LEMMA DevicesPosted ==
  ASSUME CameraTypeOK, DevicesInv, NEW what \in {"open", "close"}, Post(what, 0),
         UNCHANGED devices, cam'.camera = cam.camera, Once' => Once
  PROVE  DevicesInv'
<1> SUFFICES ASSUME Once PROVE /\ InOrder' /\ \A i \in DOMAIN posts' : TaskInv(i)'
                               /\ \A d \in DOMAIN devices : LifeInv(d)'
  BY DEF DevicesInv
<1>1. what \in Tasks /\ 0 \in 0..Len(devices) /\ what \notin DeviceTasks
  BY CameraTypes DEF Tasks, DeviceTasks
<1>2. /\ DOMAIN posts = 1..Len(posts) /\ DOMAIN posts' = 1..(Len(posts) + 1)
      /\ Len(posts) \in Nat /\ \A i \in 1..Len(posts) : posts'[i] = posts[i]
      /\ posts'[Len(posts) + 1].what = what
  BY <1>1, PostKeeps
<1>3. InOrder'
  BY <1>1, OrderPosted DEF DevicesInv
<1>4. ASSUME NEW i \in DOMAIN posts' PROVE TaskInv(i)'
  <2>1. CASE i = Len(posts) + 1
    BY <1>2, <2>1 DEF TaskInv
  <2>2. CASE i # Len(posts) + 1
    <3>1. i \in DOMAIN posts /\ posts'[i] = posts[i]
      BY <1>2, <2>2
    <3>2. QED BY <3>1 DEF DevicesInv, TaskInv
  <2>3. QED BY <2>1, <2>2
<1>5. ASSUME NEW d \in DOMAIN devices PROVE LifeInv(d)'
  BY <1>1, PostMeans DEF DevicesInv, LifeInv
<1>6. QED BY <1>3, <1>4, <1>5

-----------------------------------------------------------------------------
(* The camera: startPreview and stopPreview.                                  *)

LEMMA BridgeWantsStep ==
  ASSUME CameraInv, BridgeWants, UNCHANGED pageVars PROVE CameraInv'
<1> USE DEF CameraInv
<1>1. /\ UNCHANGED <<view, devices, posts, previewOn, loops, uiStop, trouble>>
      /\ cam' = [cam EXCEPT !.wanted = bridge = "startWanted"]
      /\ \/ bridge = "startWanted" /\ bridge' = "startPost"
         \/ bridge = "stopWanted" /\ bridge' = "stopPost"
  BY DEF BridgeWants
<1>2. /\ cam'.camera = cam.camera /\ cam'.session = cam.session
      /\ cam'.wanted = (bridge = "startWanted")
      /\ cam' \in [wanted : BOOLEAN, camera : 0..Len(devices), session : 0..Len(devices)]
  BY <1>1, CameraTypes
<1>3. CameraTypeOK'
  BY <1>1, <1>2 DEF CameraTypeOK, StartSteps
<1>4. Closing' = Closing /\ Reopening' = Reopening
  BY <1>1 DEF Closing, Reopening, LastOpen
<1>5. LoopInv'
  BY <1>1, <1>2, <1>4 DEF LoopInv, StartSteps
<1>6. WantedInv'
  BY <1>1, <1>2 DEF WantedInv, Uncrossed, LoopInv, StartSteps
<1>7. DevicesInv'
  BY <1>1, <1>2, DevicesKept DEF Once
<1>8. ComingInv'
  <2> SUFFICES ASSUME Uncrossed, Once PROVE ComingInv'
    BY <1>1 DEF ComingInv, Uncrossed, Once
  <2>1. bridge' # "idle" /\ ~Begun'
    BY <1>1 DEF Begun, LoopInv
  <2>2. previewOn /\ cam.camera # 0 => Closing
    BY <1>1 DEF LoopInv, WantedInv
  <2>3. cam.camera \in Open => cam.camera # 0
    BY CameraTypes DEF Open
  <2>4. \A i \in DOMAIN posts : LastOpen(i)' = LastOpen(i)
    BY <1>1 DEF LastOpen
  <2>5. Open' = Open
    BY <1>1 DEF Open
  <2>6. (previewOn /\ Unfailed) =>
           \A i, j \in DOMAIN posts : LastOpen(i)' /\ i < j => posts[j].what # "gone"
    BY <2>4 DEF ComingInv
  <2>7. SessionInv'
    BY <1>1, <1>2, <1>4, <2>2, <2>3, <2>5 DEF SessionInv
  <2>8. QED BY <1>1, <1>2, <1>4, <2>1, <2>6, <2>7 DEF ComingInv, Unfailed
<1>9. PageInv'
  BY <1>1 DEF PageInv, pageVars
<1>10. QED BY <1>3, <1>5, <1>6, <1>7, <1>8, <1>9

LEMMA BridgePostsStep ==
  ASSUME CameraInv, BridgePosts, UNCHANGED pageVars PROVE CameraInv'
<1> USE DEF CameraInv
<1> DEFINE what == IF bridge = "startPost" THEN "open" ELSE "close"
<1>1. /\ UNCHANGED <<cam, view, devices, previewOn, loops, uiStop, trouble>> /\ Post(what, 0)
      /\ \/ bridge = "startPost" /\ what = "open" /\ bridge' = "execute"
         \/ bridge = "stopPost" /\ what = "close" /\ bridge' = "idle"
  BY DEF BridgePosts
<1>2. what \in {"open", "close"} /\ what \in Tasks
  BY DEF Tasks
<1> HIDE DEF what
<1>3. 0 \in 0..Len(devices)
  BY CameraTypes
<1>4. posts' \in Seq(Posts(Len(devices)))
  BY <1>1, <1>2, <1>3, PostKeeps
<1>5. CameraTypeOK'
  BY <1>1, <1>4 DEF CameraTypeOK, StartSteps, Posts
<1>6. /\ Closing' <=> Closing \/ what = "close"
      /\ \A w, e : Posted(w, e)' <=> Posted(w, e) \/ (w = what /\ e = 0)
      /\ Reopening' <=> what = "open" \/ (Reopening /\ what # "close")
      /\ \A i \in DOMAIN posts' :
           LastOpen(i)' => \/ i \in DOMAIN posts /\ LastOpen(i) /\ what # "close"
                           \/ i = Len(posts) + 1 /\ what = "open"
  BY <1>1, <1>2, <1>3, PostMeans
<1>7. LoopInv'
  BY <1>1, <1>6 DEF LoopInv, StartSteps
<1>8. WantedInv'
  BY <1>1 DEF WantedInv, Uncrossed, StartSteps
<1>9. DevicesInv'
  BY <1>1, <1>2, DevicesPosted DEF Once
<1>10. ComingInv'
  <2> SUFFICES ASSUME Uncrossed, Once PROVE ComingInv'
    BY <1>1 DEF ComingInv, Uncrossed, Once
  <2>1. previewOn => what = "open"
    BY <1>1 DEF LoopInv
  <2>2. ~previewOn => what = "close"
    BY <1>1 DEF WantedInv, StartSteps
  <2>3. ASSUME previewOn, Unfailed, NEW i \in DOMAIN posts', NEW j \in DOMAIN posts',
               LastOpen(i)', i < j
        PROVE  posts'[j].what # "gone"
    <3>1. /\ DOMAIN posts = 1..Len(posts) /\ DOMAIN posts' = 1..(Len(posts) + 1)
          /\ Len(posts) \in Nat /\ \A k \in 1..Len(posts) : posts'[k] = posts[k]
          /\ posts'[Len(posts) + 1].what = what
      BY <1>1, <1>2, <1>3, PostKeeps
    <3>2. CASE j = Len(posts) + 1
      BY <1>2, <3>1, <3>2
    <3>3. CASE j # Len(posts) + 1
      <4>1. j \in DOMAIN posts /\ posts'[j] = posts[j] /\ i # Len(posts) + 1
        BY <2>3, <3>1, <3>3
      <4>2. QED BY <1>6, <2>3, <4>1 DEF ComingInv
    <3>4. QED BY <3>2, <3>3
  <2>4. Open' = Open
    BY <1>1 DEF Open
  <2>5. SessionInv'
    BY <1>1, <1>6, <2>4 DEF ComingInv, SessionInv, Unfailed
  <2>6. QED BY <1>1, <1>6, <2>1, <2>2, <2>3, <2>5 DEF ComingInv, Begun, Unfailed
<1>11. PageInv'
  BY <1>1 DEF PageInv, pageVars
<1>12. QED BY <1>5, <1>7, <1>8, <1>9, <1>10, <1>11

LEMMA BridgeExecutesStep ==
  ASSUME CameraInv, BridgeExecutes, UNCHANGED pageVars PROVE CameraInv'
<1> USE DEF CameraInv
<1>1. /\ UNCHANGED <<cam, view, devices, posts, previewOn, uiStop, trouble>>
      /\ bridge = "execute" /\ bridge' = "idle" /\ loops' = loops + 1 /\ loops \in Nat
  BY DEF BridgeExecutes, CameraTypeOK
<1>2. CameraTypeOK'
  BY <1>1 DEF CameraTypeOK
<1>3. /\ Closing' = Closing /\ Reopening' = Reopening
      /\ \A i \in DOMAIN posts : LastOpen(i)' = LastOpen(i)
  BY <1>1 DEF Closing, Reopening, LastOpen
<1>4. LoopInv'
  BY <1>1, <1>3 DEF LoopInv, StartSteps
<1>5. WantedInv'
  BY <1>1 DEF WantedInv, Uncrossed, StartSteps
<1>6. DevicesInv'
  BY <1>1, DevicesKept DEF Once
<1>7. ComingInv'
  <2> SUFFICES ASSUME Uncrossed, Once PROVE ComingInv'
    BY <1>1 DEF ComingInv, Uncrossed, Once
  <2>1. previewOn
    BY <1>1 DEF WantedInv, StartSteps
  <2>2. Begun' = Begun /\ Opening' = Opening /\ Open' = Open
    BY <1>1 DEF Begun, Opening, Open
  <2>3. SessionInv'
    BY <1>1 DEF ComingInv, SessionInv, Unfailed, Closing, Open, Posted, IsTask
  <2>4. QED BY <1>1, <1>3, <2>1, <2>2, <2>3 DEF ComingInv, Unfailed
<1>8. PageInv'
  BY <1>1 DEF PageInv, pageVars
<1>9. QED BY <1>2, <1>4, <1>5, <1>6, <1>7, <1>8

LEMMA LoopEndsStep == ASSUME CameraInv, LoopEnds, UNCHANGED pageVars PROVE CameraInv'
<1> USE DEF CameraInv
<1>1. /\ UNCHANGED <<cam, view, devices, posts, previewOn, bridge, uiStop, trouble>>
      /\ loops > 0 /\ ~previewOn /\ loops' = loops - 1 /\ loops \in Nat
  BY DEF LoopEnds, EndLoop, CameraTypeOK
<1>2. CameraTypeOK'
  BY <1>1 DEF CameraTypeOK
<1>3. LoopInv' /\ WantedInv'
  BY <1>1 DEF LoopInv, WantedInv, Uncrossed, Closing
<1>4. DevicesInv'
  BY <1>1, DevicesKept DEF Once
<1>5. ComingInv'
  BY <1>1 DEF ComingInv, SessionInv, Uncrossed, Once, Unfailed, Begun, Reopening, LastOpen
<1>6. PageInv'
  BY <1>1 DEF PageInv, pageVars
<1>7. QED BY <1>2, <1>3, <1>4, <1>5, <1>6

LEMMA UiStopsStep == ASSUME CameraInv, UiStops, UNCHANGED pageVars PROVE CameraInv'
<1> USE DEF CameraInv
<1>1. UNCHANGED <<view, devices, previewOn, loops, bridge, trouble>>
  BY DEF UiStops
<1>2. uiStop # "idle" /\ (Uncrossed => ~previewOn)
  BY DEF UiStops, WantedInv
<1>3. PageInv'
  BY <1>1 DEF PageInv, pageVars
<1>4. CASE uiStop = "wanted"
  <2>1. uiStop' = "post" /\ UNCHANGED posts /\ cam' = [cam EXCEPT !.wanted = FALSE]
    BY <1>4 DEF UiStops
  <2>2. /\ cam'.camera = cam.camera /\ cam'.session = cam.session /\ cam'.wanted = FALSE
        /\ cam' \in [wanted : BOOLEAN, camera : 0..Len(devices), session : 0..Len(devices)]
    BY <2>1, CameraTypes
  <2>3. CameraTypeOK'
    BY <1>1, <2>1, <2>2 DEF CameraTypeOK
  <2>4. LoopInv' /\ WantedInv'
    BY <1>1, <1>2, <2>1, <2>2 DEF LoopInv, WantedInv, Uncrossed
  <2>5. DevicesInv'
    BY <1>1, <2>1, <2>2, DevicesKept DEF Once
  <2>6. ComingInv'
    BY <1>1, <1>2, <2>1 DEF ComingInv, SessionInv, Uncrossed, Begun
  <2>7. QED BY <1>3, <2>3, <2>4, <2>5, <2>6
<1>5. CASE uiStop = "post"
  <2>1. uiStop' = "idle" /\ UNCHANGED cam /\ Post("close", 0)
    BY <1>5 DEF UiStops
  <2>2. "close" \in Tasks /\ 0 \in 0..Len(devices)
    BY CameraTypes DEF Tasks
  <2>3. posts' \in Seq(Posts(Len(devices)))
    BY <2>1, <2>2, PostKeeps
  <2>4. CameraTypeOK'
    BY <1>1, <2>1, <2>3 DEF CameraTypeOK, Posts
  <2>5. Closing' /\ ~Reopening'
    BY <2>1, <2>2, PostMeans
  <2>6. LoopInv' /\ WantedInv'
    BY <1>1, <1>2, <1>5, <2>1, <2>5 DEF LoopInv, WantedInv, Uncrossed
  <2>7. DevicesInv'
    BY <1>1, <2>1, DevicesPosted DEF Once
  <2>8. ComingInv'
    BY <1>1, <1>2, <2>5 DEF ComingInv, SessionInv, Uncrossed, Begun
  <2>9. QED BY <1>3, <2>4, <2>6, <2>7, <2>8
<1>6. QED BY <1>4, <1>5 DEF UiStops

\* A load or a pause begins to stop the preview.
LEMMA EnterUiStopStep ==
  ASSUME CameraInv, EnterUiStop, UNCHANGED <<screen, calls, unwatched>>,
         loading' \in BOOLEAN, paused' \in BOOLEAN, loading' \/ paused'
  PROVE  CameraInv'
<1> USE DEF CameraInv
<1>1. /\ UNCHANGED <<cam, view, devices, posts, loops, bridge>>
      /\ previewOn' = FALSE /\ uiStop = "idle" /\ uiStop' = "wanted"
      /\ trouble' = trouble \cup {x \in {"crossed"} : bridge \in StartSteps}
  BY DEF EnterUiStop
<1>2. CameraTypeOK'
  BY <1>1 DEF CameraTypeOK, Troubles
<1>3. Uncrossed' => Uncrossed /\ bridge \notin StartSteps
  BY <1>1 DEF Uncrossed
<1>4. (Once' => Once) /\ ~Begun'
  BY <1>1 DEF Once, Begun
<1>5. LoopInv' /\ WantedInv'
  BY <1>1, <1>3 DEF LoopInv, WantedInv, Closing
<1>6. DevicesInv'
  BY <1>1, <1>4, DevicesKept
<1>7. ComingInv'
  BY <1>1, <1>4 DEF ComingInv, SessionInv
<1>8. PageInv'
  BY <1>1 DEF PageInv
<1>9. QED BY <1>2, <1>5, <1>6, <1>7, <1>8

\* Queues of one and two.
LEMMA Short ==
  ASSUME NEW a, NEW b
  PROVE  /\ Head(<<a>>) = a /\ Tail(<<a>>) = << >> /\ <<a>> # << >>
         /\ Head(<<a, b>>) = a /\ Tail(<<a, b>>) = <<b>> /\ <<a, b>> # << >>
         /\ a # b => <<a>> # <<b>>
         /\ \A c : <<a, b>> # <<c>>
<1>1. Head(<<a>>) = a /\ Head(<<a, b>>) = a
  OBVIOUS
<1>2. <<a>> # << >> /\ <<a, b>> # << >>
  OBVIOUS
<1>3. Tail(<<a>>) = << >> /\ Tail(<<a, b>>) = <<b>>
  OBVIOUS
<1>4. a # b => <<a>> # <<b>>
  OBVIOUS
<1>5. ASSUME NEW c PROVE <<a, b>> # <<c>>
  OBVIOUS
<1>6. QED BY <1>1, <1>2, <1>3, <1>4, <1>5

LEMMA ShortCalls ==
  /\ Head(<<FALSE>>) = FALSE /\ Tail(<<FALSE>>) = << >>
  /\ Head(<<TRUE>>) = TRUE /\ Tail(<<TRUE>>) = << >>
  /\ Head(<<FALSE, TRUE>>) = FALSE /\ Tail(<<FALSE, TRUE>>) = <<TRUE>>
  /\ <<TRUE>> # << >> /\ <<FALSE>> # << >> /\ <<FALSE, TRUE>> # << >>
  /\ <<TRUE>> # <<FALSE>> /\ <<FALSE, TRUE>> # <<FALSE>>
<1>1. /\ Head(<<FALSE>>) = FALSE /\ Tail(<<FALSE>>) = << >>
      /\ Head(<<TRUE>>) = TRUE /\ Tail(<<TRUE>>) = << >>
  BY Short, Zenon
<1>2. Head(<<FALSE, TRUE>>) = FALSE /\ Tail(<<FALSE, TRUE>>) = <<TRUE>>
  BY Short, Zenon
<1>3. <<TRUE>> # << >> /\ <<FALSE>> # << >> /\ <<FALSE, TRUE>> # << >>
  BY Short, Zenon
<1>4. <<TRUE>> # <<FALSE>>
  BY Short, Zenon
<1>5. <<FALSE, TRUE>> # <<FALSE>>
  BY Short, Zenon
<1>6. QED BY <1>1, <1>2, <1>3, <1>4, <1>5, Zenon

\* A call of the page's effects enters the bridge.
LEMMA PageCallsStep == ASSUME CameraInv, PageCalls PROVE CameraInv'
<1> USE DEF CameraInv
<1> DEFINE start == Head(calls)
<1>1. /\ start \in BOOLEAN
      /\ \/ calls = <<FALSE>> /\ calls' = << >> /\ ~start
         \/ calls = <<TRUE>> /\ calls' = << >> /\ start
         \/ calls = <<FALSE, TRUE>> /\ calls' = <<TRUE>> /\ ~start
  <2>1. calls # << >> /\ calls' = Tail(calls)
    BY Zenon DEF PageCalls
  <2>2. calls \in {<< >>, <<FALSE>>, <<TRUE>>, <<FALSE, TRUE>>}
    BY DEF PageInv
  <2>3. CASE calls = <<FALSE>>
    BY <2>1, <2>3, ShortCalls, Zenon
  <2>4. CASE calls = <<TRUE>>
    BY <2>1, <2>4, ShortCalls, Zenon
  <2>5. CASE calls = <<FALSE, TRUE>>
    BY <2>1, <2>5, ShortCalls, Zenon
  <2>6. QED BY <2>1, <2>2, <2>3, <2>4, <2>5, Zenon
<1>2. /\ UNCHANGED <<cam, view, devices, posts, loops, uiStop, screen, loading>>
      /\ paused' = FALSE /\ unwatched' = (unwatched /\ start)
      /\ bridge = "idle" /\ EnterBridge(start)
  <2>1. CallCamera(start) /\ paused' = FALSE /\ unwatched' = (unwatched /\ start)
    BY Zenon DEF PageCalls
  <2>2. UNCHANGED <<screen, loading>>
    BY Zenon DEF PageCalls
  <2> HIDE DEF start
  <2>3. /\ UNCHANGED <<cam, view, devices, posts, loops, uiStop>>
        /\ bridge = "idle" /\ EnterBridge(start)
    BY <2>1 DEF CallCamera
  <2>4. QED BY <2>1, <2>2, <2>3
<1> HIDE DEF start
<1>3. /\ Closing' = Closing /\ Reopening' = Reopening /\ Open' = Open /\ Opening' = Opening
      /\ \A i \in DOMAIN posts : LastOpen(i)' = LastOpen(i)
  BY <1>2 DEF Closing, Reopening, LastOpen, Open, Opening
<1>4. PageInv'
  <2>1. previewOn' = start
    BY <1>2 DEF EnterBridge
  <2>2. calls # << >> /\ <<TRUE>> # << >> /\ <<TRUE>> # <<FALSE>> /\ <<FALSE, TRUE>> # <<FALSE>>
    BY <1>1, ShortCalls, Zenon
  <2>3. calls = <<FALSE>> <=> screen \notin CaptureScreens
    BY <2>2 DEF PageInv
  <2>4. screen \in Screens /\ {loading', unwatched', paused'} \subseteq BOOLEAN
    BY <1>1, <1>2 DEF PageInv
  <2>5. QED BY <1>1, <1>2, <2>1, <2>2, <2>3, <2>4 DEF PageInv
<1>5. CASE ~start
  <2>1. /\ bridge' = "stopWanted" /\ ~previewOn' /\ previewOn' \in BOOLEAN
        /\ trouble' = (trouble \ {"failed", "crossed"}) \cup {x \in {"crossed"} : FALSE}
    BY <1>1, <1>2, <1>5, Zenon DEF EnterBridge, Healed
  <2>1a. trouble' \subseteq trouble /\ (Once' => Once) /\ ~Begun'
    BY <2>1 DEF Once, Begun
  <2>2. CameraTypeOK'
    BY <1>2, <2>1, <2>1a DEF CameraTypeOK
  <2>3. LoopInv' /\ WantedInv'
    BY <1>2, <1>3, <2>1 DEF LoopInv, WantedInv, StartSteps
  <2>4. DevicesInv'
    BY <1>2, <2>1a, DevicesKept
  <2>5. ComingInv'
    BY <1>2, <2>1, <2>1a DEF ComingInv, SessionInv
  <2>6. QED BY <1>4, <2>2, <2>3, <2>4, <2>5
<1>6. CASE start /\ previewOn
  <2>1. /\ bridge' = "idle" /\ previewOn' /\ previewOn' \in BOOLEAN
        /\ trouble' = trouble \cup {x \in {"crossed"} : uiStop # "idle"}
    BY <1>1, <1>2, <1>6 DEF EnterBridge, Healed
  <2>2. CameraTypeOK'
    BY <1>2, <2>1 DEF CameraTypeOK, Troubles
  <2>3. /\ (Uncrossed' => Uncrossed /\ uiStop = "idle") /\ (Once' => Once)
        /\ (Unfailed' => Unfailed) /\ Begun' = Begun
    BY <1>2, <1>6, <2>1 DEF Uncrossed, Once, Unfailed, Begun
  <2>4. LoopInv' /\ WantedInv'
    BY <1>2, <1>3, <1>6, <2>1, <2>3 DEF LoopInv, WantedInv, StartSteps
  <2>5. DevicesInv'
    BY <1>2, <2>3, DevicesKept
  <2>6. SessionInv => SessionInv'
    BY <1>2, <1>3, <1>6, <2>1, <2>3 DEF SessionInv, Posted, IsTask
  <2>7. ComingInv'
    BY <1>2, <1>3, <1>6, <2>1, <2>3, <2>6 DEF ComingInv
  <2>8. QED BY <1>4, <2>2, <2>4, <2>5, <2>7
<1>7. CASE start /\ ~previewOn
  <2>1. /\ bridge' = "startWanted" /\ previewOn' /\ previewOn' \in BOOLEAN
        /\ trouble' = (trouble \ {"failed"}) \cup {x \in {"crossed"} : uiStop # "idle"}
    BY <1>1, <1>2, <1>7 DEF EnterBridge, Healed
  <2>2. CameraTypeOK'
    BY <1>2, <2>1 DEF CameraTypeOK, Troubles, StartSteps
  <2>3. /\ (Uncrossed' => Uncrossed /\ uiStop = "idle") /\ (Once' => Once) /\ ~Begun'
    BY <2>1 DEF Uncrossed, Once, Begun
  <2>4. LoopInv' /\ WantedInv'
    BY <1>2, <1>3, <1>7, <2>1, <2>3 DEF LoopInv, WantedInv, StartSteps
  <2>5. DevicesInv'
    BY <1>2, <2>3, DevicesKept
  <2>6. SessionInv'
    BY <2>1 DEF SessionInv
  <2>7. (Uncrossed' /\ Once') => ~Reopening
    BY <1>2, <1>7, <2>3 DEF ComingInv
  <2>8. (Uncrossed' /\ Once') => \A i \in DOMAIN posts : ~LastOpen(i)
    BY <2>7 DEF Reopening
  <2>9. ComingInv'
    BY <1>2, <1>3, <2>1, <2>3, <2>6, <2>8 DEF ComingInv
  <2>10. QED BY <1>4, <2>2, <2>4, <2>5, <2>9
<1>8. QED BY <1>1, <1>5, <1>6, <1>7

\* Nothing of the camera happens.
LEMMA CameraKept ==
  ASSUME CameraInv, UNCHANGED cameraVars, PageInv'
  PROVE  CameraInv'
<1> USE DEF CameraInv
<1>1. UNCHANGED <<cam, view, devices, posts, previewOn, loops, bridge, uiStop, trouble>>
  BY DEF cameraVars
<1>2. CameraTypeOK' /\ LoopInv' /\ WantedInv'
  BY <1>1 DEF CameraTypeOK, LoopInv, WantedInv, Uncrossed, Closing
<1>3. DevicesInv'
  BY <1>1, DevicesKept DEF Once
<1>4. SessionInv' = SessionInv
  BY <1>1 DEF SessionInv, Posted, IsTask, Closing, Open, Unfailed
<1>5. ComingInv'
  BY <1>1, <1>4 DEF ComingInv, Uncrossed, Once, Unfailed, Begun, Reopening, LastOpen, Closing,
                    Opening, Open
<1>6. QED BY <1>2, <1>3, <1>5

\* The calls of a screen's effects: the one that is left stops the camera, the
\* one that comes starts it.
LEMMA CallsOfShow ==
  ASSUME NEW from, NEW to
  PROVE  LET c == [i \in 1..Cardinality({from} \cap CaptureScreens) |-> FALSE]
                  \o [i \in 1..Cardinality({to} \cap CaptureScreens) |-> TRUE]
         IN c = IF from \in CaptureScreens
                  THEN IF to \in CaptureScreens THEN <<FALSE, TRUE>> ELSE <<FALSE>>
                  ELSE IF to \in CaptureScreens THEN <<TRUE>> ELSE << >>
<1>1. ASSUME NEW s
      PROVE  Cardinality({s} \cap CaptureScreens) = IF s \in CaptureScreens THEN 1 ELSE 0
  <2>1. CASE s \in CaptureScreens
    <3>1. {s} \cap CaptureScreens = {s}
      BY <2>1
    <3>2. QED BY <2>1, <3>1, FS_Singleton
  <2>2. CASE s \notin CaptureScreens
    <3>1. {s} \cap CaptureScreens = {}
      BY <2>2
    <3>2. QED BY <2>2, <3>1, FS_EmptySet
  <2>3. QED BY <2>1, <2>2
<1>2. ASSUME NEW b PROVE [i \in 1..1 |-> b] = <<b>> /\ [i \in 1..0 |-> b] = << >>
  OBVIOUS
<1>3. ASSUME NEW a, NEW b
      PROVE  /\ <<a>> \o <<b>> = <<a, b>> /\ <<a>> \o << >> = <<a>>
             /\ << >> \o <<b>> = <<b>> /\ << >> \o << >> = << >>
  <2>1. <<a>> \in Seq({a, b}) /\ <<b>> \in Seq({a, b}) /\ << >> \in Seq({a, b})
    OBVIOUS
  <2>2. <<a>> \o << >> = <<a>> /\ << >> \o <<b>> = <<b>> /\ << >> \o << >> = << >>
    BY <2>1, ConcatEmptySeq
  <2>3. <<a>> \o <<b>> = <<a, b>>
    <3> DEFINE s == <<a>> \o <<b>>
    <3>1. /\ <<a, b>> \in Seq({a, b}) /\ Len(<<a, b>>) = 2
          /\ <<a, b>>[1] = a /\ <<a, b>>[2] = b
          /\ Len(<<a>>) = 1 /\ Len(<<b>>) = 1 /\ <<a>>[1] = a /\ <<b>>[1] = b
      OBVIOUS
    <3>2. /\ s \in Seq({a, b}) /\ Len(s) = 2
          /\ \A i \in 1..2 : s[i] = IF i <= 1 THEN <<a>>[i] ELSE <<b>>[i - 1]
      BY <2>1, <3>1, ConcatProperties
    <3>3. s[1] = a /\ s[2] = b
      BY <3>1, <3>2
    <3> HIDE DEF s
    <3>4. \A i \in 1..Len(s) : s[i] = <<a, b>>[i]
      BY <3>1, <3>2, <3>3
    <3>5. s = <<a, b>>
      BY <3>1, <3>2, <3>4, SeqEqual
    <3>6. QED BY <3>5 DEF s
  <2>4. QED BY <2>2, <2>3
<1> DEFINE f == Cardinality({from} \cap CaptureScreens)
           t == Cardinality({to} \cap CaptureScreens)
<1>4. f = (IF from \in CaptureScreens THEN 1 ELSE 0) /\ t = (IF to \in CaptureScreens THEN 1 ELSE 0)
  BY <1>1
<1> HIDE DEF f, t
<1> DEFINE c == [i \in 1..f |-> FALSE] \o [i \in 1..t |-> TRUE]
<1>5. CASE f = 1 /\ t = 1
  <2>1. c = <<FALSE>> \o <<TRUE>>
    BY <1>2, <1>5, Zenon
  <2>2. c = <<FALSE, TRUE>>
    BY <2>1, <1>3, Zenon
  <2>3. from \in CaptureScreens /\ to \in CaptureScreens
    BY <1>4, <1>5
  <2>4. QED BY <2>2, <2>3, Zenon DEF f, t
<1>6. CASE f = 1 /\ t = 0
  <2>1. c = <<FALSE>> \o << >>
    BY <1>2, <1>6, Zenon
  <2>2. c = <<FALSE>>
    BY <2>1, <1>3, Zenon
  <2>3. from \in CaptureScreens /\ to \notin CaptureScreens
    BY <1>4, <1>6
  <2>4. QED BY <2>2, <2>3, Zenon DEF f, t
<1>7. CASE f = 0 /\ t = 1
  <2>1. c = << >> \o <<TRUE>>
    BY <1>2, <1>7, Zenon
  <2>2. c = <<TRUE>>
    BY <2>1, <1>3, Zenon
  <2>3. from \notin CaptureScreens /\ to \in CaptureScreens
    BY <1>4, <1>7
  <2>4. QED BY <2>2, <2>3, Zenon DEF f, t
<1>8. CASE f = 0 /\ t = 0
  <2>1. c = << >> \o << >>
    BY <1>2, <1>8, Zenon
  <2>2. c = << >>
    BY <2>1, <1>3, Zenon
  <2>3. from \notin CaptureScreens /\ to \notin CaptureScreens
    BY <1>4, <1>8
  <2>4. QED BY <2>2, <2>3, Zenon DEF f, t
<1>9. QED BY <1>4, <1>5, <1>6, <1>7, <1>8

LEMMA ShowStep == ASSUME CameraInv, NEW s \in Screens, Show(s) PROVE CameraInv'
<1> USE DEF CameraInv
<1>1. /\ UNCHANGED <<cameraVars, loading, unwatched, paused>> /\ calls = << >> /\ screen' = s
      /\ calls' = [i \in 1..Cardinality({screen} \cap CaptureScreens) |-> FALSE]
                    \o [i \in 1..Cardinality({s} \cap CaptureScreens) |-> TRUE]
  BY DEF Show, PageRuns
<1>2. calls' = IF screen \in CaptureScreens
                 THEN IF s \in CaptureScreens THEN <<FALSE, TRUE>> ELSE <<FALSE>>
                 ELSE IF s \in CaptureScreens THEN <<TRUE>> ELSE << >>
  BY <1>1, CallsOfShow
<1>3. <<TRUE>> # << >> /\ <<TRUE>> # <<FALSE>> /\ <<FALSE, TRUE>> # <<FALSE>>
      /\ <<FALSE, TRUE>> # << >> /\ <<FALSE>> # << >>
  BY ShortCalls, Zenon
<1>4. UNCHANGED previewOn
  BY <1>1 DEF cameraVars
<1>5. previewOn => screen \in CaptureScreens \/ unwatched
  BY <1>1, <1>3 DEF PageInv
<1>6. PageInv'
  BY <1>1, <1>2, <1>3, <1>4, <1>5 DEF PageInv
<1>7. QED BY <1>1, <1>6, CameraKept

LEMMA ReplaceStep == ASSUME CameraInv, Replace PROVE CameraInv'
<1>1. /\ UNCHANGED cameraVars /\ screen' = "waiting" /\ calls' = << >>
      /\ unwatched' = (previewOn \/ bridge \in StartSteps)
      /\ loading' = FALSE /\ paused' = FALSE
  BY DEF Replace
<1>2. UNCHANGED previewOn /\ unwatched' \in BOOLEAN /\ (previewOn => unwatched')
  BY <1>1 DEF cameraVars
<1>3. screen' \in Screens /\ screen' \notin CaptureScreens
  BY <1>1, DeviceAssumption
<1>4. PageInv'
  BY <1>1, <1>2, <1>3 DEF PageInv
<1>5. QED BY <1>1, <1>4, CameraKept

LEMMA CameraInvInit ==
  ASSUME CameraInit, screen = "waiting", calls = << >>, loading = FALSE, unwatched = FALSE,
         paused = FALSE
  PROVE  CameraInv
<1>1. /\ cam = [wanted |-> FALSE, camera |-> 0, session |-> 0] /\ view = FALSE
      /\ devices = << >> /\ posts = << >> /\ previewOn = FALSE /\ loops = 0
      /\ bridge = "idle" /\ uiStop = "idle" /\ trouble = {}
  BY DEF CameraInit
<1>2. Len(devices) = 0 /\ devices \in Seq(Devices) /\ posts \in Seq(Posts(Len(devices)))
      /\ DOMAIN devices = {} /\ DOMAIN posts = {}
  BY <1>1
<1>3. CameraTypeOK
  <2>1. cam \in [wanted : BOOLEAN, camera : 0..Len(devices), session : 0..Len(devices)]
    BY <1>1, <1>2
  <2>2. /\ devices \in Seq([state : {"opening", "open", "lost", "closed"},
                            config : {"none", "asked", "told", "refused"}])
        /\ posts \in Seq([what : Tasks, device : 0..Len(devices)])
    BY <1>2 DEF Devices, Posts
  <2>3. QED BY <1>1, <2>1, <2>2 DEF CameraTypeOK
<1>4. LoopInv /\ WantedInv
  BY <1>1 DEF LoopInv, WantedInv, StartSteps
<1>5. DevicesInv
  BY <1>2 DEF DevicesInv, InOrder
<1>6. ComingInv
  BY <1>1, <1>2 DEF ComingInv, SessionInv, Begun, Reopening
<1>7. PageInv
  BY <1>1, DeviceAssumption DEF PageInv
<1>8. QED BY <1>3, <1>4, <1>5, <1>6, <1>7 DEF CameraInv

-----------------------------------------------------------------------------
(* The camera: the UI thread's tasks.                                         *)

Fields(n) == [wanted : BOOLEAN, camera : 0..n, session : 0..n]
Runs ==
  /\ uiStop = "idle" /\ posts # << >> /\ posts' = Tail(posts)
  /\ UNCHANGED <<view, previewOn, loops, bridge, uiStop>>

\* What a task that opens no device leaves.
LEMMA TaskRuns ==
  ASSUME CameraInv, Runs, Head(posts).what # "open", UNCHANGED pageVars,
         trouble' = trouble \/ trouble' = trouble \cup {"failed"},
         devices' \in Seq(Devices), Len(devices') = Len(devices),
         cam' \in Fields(Len(devices)), cam'.wanted = cam.wanted,
         (cam'.camera # 0 /\ ~cam.wanted) => (cam.camera # 0 /\ Head(posts).what # "close"),
         DevicesInv',
         (Uncrossed /\ Once) => SessionInv',
         (Uncrossed /\ Once /\ Begun /\ Head(posts).what # "close"
            /\ Opening \cup Open # {}) => Opening' \cup Open' # {}
  PROVE  CameraInv'
<1> USE DEF CameraInv
<1>1. /\ uiStop = "idle" /\ posts # << >> /\ posts' = Tail(posts)
      /\ UNCHANGED <<view, previewOn, loops, bridge, uiStop>>
  BY DEF Runs
<1>1a. /\ Uncrossed' = Uncrossed /\ Once' = Once /\ (Unfailed' => Unfailed)
       /\ trouble' \subseteq Troubles
  BY DEF Uncrossed, Once, Unfailed, CameraTypeOK, Troubles
<1>2. /\ Closing => Closing' \/ Head(posts).what = "close"
      /\ Closing' => Closing
      /\ \A i \in DOMAIN posts' :
           i + 1 \in DOMAIN posts /\ posts'[i] = posts[i + 1] /\ (LastOpen(i)' => LastOpen(i + 1))
      /\ Reopening => Reopening'
      /\ Reopening' => Reopening
  BY <1>1, RunMeans
<1>3. CameraTypeOK'
  <2>1. posts' \in Seq([what : Tasks, device : 0..Len(devices')])
    BY <1>1, RunKeeps DEF Posts
  <2>2. cam' \in [wanted : BOOLEAN, camera : 0..Len(devices'), session : 0..Len(devices')]
    BY DEF Fields
  <2>3. devices' \in Seq([state : {"opening", "open", "lost", "closed"},
                          config : {"none", "asked", "told", "refused"}])
    BY DEF Devices
  <2>4. QED BY <1>1, <1>1a, <2>1, <2>2, <2>3 DEF CameraTypeOK
<1>4. ~view => devices' = << >>
  <2>1. ~view => Len(devices) = 0
    BY DEF LoopInv
  <2>2. QED BY <2>1, EmptySeq
<1>5. LoopInv' /\ WantedInv'
  BY <1>1, <1>1a, <1>2, <1>4 DEF LoopInv, WantedInv
<1>6. ComingInv'
  <2> SUFFICES ASSUME Uncrossed, Once PROVE ComingInv'
    BY <1>1a DEF ComingInv
  <2>1. Begun' = Begun /\ (Unfailed' => Unfailed) /\ Uncrossed' /\ Once'
    BY <1>1, <1>1a DEF Begun
  <2>2. (~previewOn' /\ bridge' = "idle" /\ uiStop' = "idle") => ~Reopening'
    BY <1>1, <1>2 DEF ComingInv
  <2>3. (Begun' /\ Closing') => Reopening'
    BY <1>2, <2>1 DEF ComingInv
  <2>4. (Begun' /\ Unfailed' /\ view') => Reopening' \/ Opening' \cup Open' # {}
    <3>1. Head(posts).what = "close" => Closing
      BY <1>1, RunMeans DEF Closing
    <3>2. QED BY <1>1, <1>2, <2>1, <3>1 DEF ComingInv
  <2>5. ASSUME previewOn, Unfailed, NEW i \in DOMAIN posts', NEW j \in DOMAIN posts',
               LastOpen(i)', i < j
        PROVE  posts'[j].what # "gone"
    <3>1. i \in Int /\ j \in Int
      BY <1>1, RunKeeps
    <3>2. i + 1 < j + 1
      BY <2>5, <3>1
    <3>3. QED BY <1>2, <2>5, <3>2 DEF ComingInv
  <2>6. QED BY <1>1, <2>1, <2>2, <2>3, <2>4, <2>5 DEF ComingInv
<1>7. PageInv'
  BY <1>1 DEF PageInv, pageVars
<1>8. QED BY <1>3, <1>5, <1>6, <1>7

\* What is known of the device of a task that runs, and of the tasks behind.
LEMMA TaskMeans ==
  ASSUME CameraInv, Once, posts # << >>, posts' = Tail(posts), Head(posts).what \in DeviceTasks
  PROVE  LET d == Head(posts).device IN
         /\ TaskInv(1) /\ Head(posts) = posts[1]
         /\ d \in DOMAIN devices /\ devices[d].state # "opening" /\ cam.camera <= d
         /\ InOrder'
         /\ \A i \in DOMAIN posts' : posts'[i].what \in DeviceTasks =>
              /\ d <= posts'[i].device
              /\ d = posts'[i].device => posts'[i].what # "opened"
         /\ \A e \in DOMAIN devices : (e # d /\ devices[e].state = "open") => cam.camera # e
<1> USE DEF CameraInv
<1> DEFINE d == Head(posts).device
<1>1. 1 \in DOMAIN posts /\ Head(posts) = posts[1]
  BY RunMeans
<1>2. TaskInv(1)
  BY <1>1 DEF DevicesInv
<1>3. d \in DOMAIN devices /\ devices[d].state # "opening" /\ cam.camera <= d
  BY <1>1, <1>2 DEF TaskInv, DeviceTasks
<1>4. InOrder
  BY DEF DevicesInv
<1>5. /\ InOrder'
      /\ \A i \in DOMAIN posts' : posts'[i].what \in DeviceTasks =>
           /\ d <= posts'[i].device
           /\ d = posts'[i].device => posts'[i].what # "opened"
  BY <1>1, <1>4, OrderRun
<1>6. ASSUME NEW e \in DOMAIN devices, e # d, devices[e].state = "open" PROVE cam.camera # e
  <2>1. e = Len(devices)
    BY <1>6 DEF DevicesInv, LifeInv
  <2>2. d \in 1..Len(devices)
    BY <1>3, CameraTypes
  <2>3. QED BY <1>3, <1>6, <2>1, <2>2
<1> HIDE DEF d
<1>7. QED BY <1>1, <1>2, <1>3, <1>5, <1>6 DEF d

\* The tasks behind the one that runs, as they were.
LEMMA TasksBehind ==
  ASSUME CameraInv, Once, posts # << >>, posts' = Tail(posts), NEW i \in DOMAIN posts'
  PROVE  LET d == posts'[i].device IN
         /\ posts'[i].what \in {"opened", "gone", "configured", "configureFailed"} =>
              d \in DOMAIN devices /\ devices[d].state # "opening"
         /\ posts'[i].what \in {"opened", "gone", "configured"} => cam.camera <= d
         /\ posts'[i].what = "opened" =>
              cam.camera # d /\ devices[d].state # "closed" /\ devices[d].config = "none"
         /\ posts'[i].what = "gone" => devices[d].state \in {"lost", "closed"}
<1>1. i + 1 \in DOMAIN posts /\ posts'[i] = posts[i + 1]
  BY RunMeans DEF CameraInv
<1>2. TaskInv(i + 1)
  BY <1>1 DEF CameraInv, DevicesInv
<1>3. QED BY <1>1, <1>2 DEF TaskInv

\* A device changes.
LEMMA DeviceChanged ==
  ASSUME CameraTypeOK, NEW d, NEW device, d \in DOMAIN devices => device \in Devices,
         devices' = [devices EXCEPT ![d] = device]
  PROVE  /\ devices' \in Seq(Devices) /\ Len(devices') = Len(devices)
         /\ DOMAIN devices' = DOMAIN devices
         /\ \A e \in DOMAIN devices : devices'[e] = IF e = d THEN device ELSE devices[e]
<1>1. devices \in Seq(Devices)
  BY CameraTypes
<1>2. CASE d \in DOMAIN devices
  BY <1>1, <1>2, Changed
<1>3. CASE d \notin DOMAIN devices
  BY <1>1, <1>3, Untouched
<1>4. QED BY <1>2, <1>3

LEMMA ClosedMeans ==
  ASSUME CameraTypeOK, NEW d \in 0..Len(devices), CloseCamera(d)
  PROVE  /\ devices' \in Seq(Devices) /\ Len(devices') = Len(devices)
         /\ DOMAIN devices' = DOMAIN devices
         /\ \A e \in DOMAIN devices :
              /\ devices'[e].state = IF e = d THEN "closed" ELSE devices[e].state
              /\ devices'[e].config = devices[e].config
         /\ cam' \in Fields(Len(devices)) /\ cam'.camera = 0 /\ cam'.wanted = cam.wanted
<1> DEFINE e(i) == IF i = d THEN [devices[i] EXCEPT !.state = "closed"] ELSE devices[i]
<1>1. /\ devices \in Seq(Devices) /\ DOMAIN devices = 1..Len(devices) /\ Len(devices) \in Nat
      /\ \A i \in DOMAIN devices : devices[i] \in Devices
  BY CameraTypes
<1>2. \A i \in DOMAIN devices :
        /\ e(i) \in Devices /\ e(i).config = devices[i].config
        /\ e(i).state = IF i = d THEN "closed" ELSE devices[i].state
  BY <1>1 DEF Devices
<1>3. /\ devices' = [i \in 1..Len(devices) |-> e(i)] /\ DOMAIN devices' = DOMAIN devices
      /\ \A i \in DOMAIN devices : devices'[i] = e(i)
  BY <1>1 DEF CloseCamera
<1> HIDE DEF e
<1>4. devices' \in Seq(Devices)
  BY <1>1, <1>2, <1>3, IsASeq
<1>5. Len(devices') = Len(devices)
  <2>1. Len(devices') \in Nat /\ DOMAIN devices' = 1..Len(devices')
    BY <1>4, LenProperties
  <2>2. QED BY <1>1, <1>3, <2>1, SameRange
<1>6. /\ cam' = [cam EXCEPT !.camera = 0, !.session = 0]
      /\ cam \in Fields(Len(devices))
  BY CameraTypes DEF CloseCamera, Fields
<1> DEFINE range == 0..Len(devices)
<1>7. cam' \in Fields(Len(devices)) /\ cam'.camera = 0 /\ cam'.wanted = cam.wanted
  <2>1. 0 \in range /\ cam \in [wanted : BOOLEAN, camera : range, session : range]
    BY <1>1, <1>6 DEF Fields
  <2> HIDE DEF range
  <2>2. /\ cam' \in [wanted : BOOLEAN, camera : range, session : range]
        /\ cam'.camera = 0 /\ cam'.wanted = cam.wanted
    BY <1>6, <2>1
  <2>3. QED BY <2>2 DEF range, Fields
<1>8. QED BY <1>2, <1>3, <1>4, <1>5, <1>7

LEMMA CloseStep ==
  ASSUME CameraInv, Runs, Head(posts).what = "close", CloseCamera(cam.camera),
         UNCHANGED pageVars, UNCHANGED trouble
  PROVE  CameraInv'
<1> USE DEF CameraInv
<1>1. posts # << >> /\ posts' = Tail(posts)
  BY DEF Runs
<1>2. /\ devices' \in Seq(Devices) /\ Len(devices') = Len(devices)
      /\ DOMAIN devices' = DOMAIN devices
      /\ \A e \in DOMAIN devices :
           /\ devices'[e].state = IF e = cam.camera THEN "closed" ELSE devices[e].state
           /\ devices'[e].config = devices[e].config
      /\ cam' \in Fields(Len(devices)) /\ cam'.camera = 0 /\ cam'.wanted = cam.wanted
  BY CameraTypes, ClosedMeans
<1>3. \A e \in DOMAIN devices : e > 0
  BY CameraTypes
<1>4. DevicesInv'
  <2> SUFFICES ASSUME Once PROVE /\ InOrder' /\ \A i \in DOMAIN posts' : TaskInv(i)'
                                 /\ \A d \in DOMAIN devices : LifeInv(d)'
    BY <1>2 DEF DevicesInv, Once
  <2>1. InOrder'
    BY <1>1, OrderRun DEF DevicesInv
  <2>2. ASSUME NEW i \in DOMAIN posts' PROVE TaskInv(i)'
    BY <1>1, <1>2, <1>3, TasksBehind DEF TaskInv
  <2>3. ASSUME NEW d \in DOMAIN devices PROVE LifeInv(d)'
    <3>1. LifeInv(d)
      BY DEF DevicesInv
    <3>2. (Posted("opened", d) => Posted("opened", d)') /\ (Posted("gone", d) => Posted("gone", d)')
      BY <1>1, RunMeans
    <3>3. QED BY <1>2, <1>3, <3>1, <3>2 DEF LifeInv
  <2>4. QED BY <2>1, <2>2, <2>3
<1>5. SessionInv'
  BY <1>2, <1>3 DEF SessionInv, Open
<1>6. QED BY <1>2, <1>4, <1>5, TaskRuns

LEMMA OpenedStep ==
  ASSUME CameraInv, Runs, Head(posts).what = "opened", OnOpened(Head(posts).device),
         UNCHANGED pageVars, UNCHANGED trouble
  PROVE  CameraInv'
<1> USE DEF CameraInv
<1> DEFINE d == Head(posts).device
<1>1. posts # << >> /\ posts' = Tail(posts) /\ UNCHANGED <<previewOn, bridge>>
  BY DEF Runs
<1>2. Head(posts) = posts[1] /\ 1 \in DOMAIN posts /\ d \in 0..Len(devices)
  BY <1>1, RunMeans, CameraTypes
<1>3. Once => /\ d \in DOMAIN devices /\ cam.camera <= d /\ cam.camera # d
              /\ devices[d].state \in {"open", "lost"} /\ devices[d].config = "none"
              /\ InOrder'
              /\ \A i \in DOMAIN posts' : posts'[i].what \in DeviceTasks =>
                   /\ d <= posts'[i].device
                   /\ d = posts'[i].device => posts'[i].what # "opened"
              /\ \A e \in DOMAIN devices : (e # d /\ devices[e].state = "open") => cam.camera # e
  <2> SUFFICES ASSUME Once
               PROVE  /\ d \in DOMAIN devices /\ cam.camera <= d /\ cam.camera # d
                      /\ devices[d].state \in {"open", "lost"} /\ devices[d].config = "none"
                      /\ InOrder'
                      /\ \A i \in DOMAIN posts' : posts'[i].what \in DeviceTasks =>
                           /\ d <= posts'[i].device
                           /\ d = posts'[i].device => posts'[i].what # "opened"
                      /\ \A e \in DOMAIN devices :
                           (e # d /\ devices[e].state = "open") => cam.camera # e
    OBVIOUS
  <2>1. Head(posts).what \in DeviceTasks
    BY DEF DeviceTasks
  <2>2. TaskInv(1) /\ d \in DOMAIN devices
    BY <1>1, <2>1, TaskMeans
  <2>3. devices[d] \in Devices
    BY <2>2, CameraTypes
  <2>4. /\ cam.camera # d /\ devices[d].config = "none"
        /\ devices[d].state \in {"open", "lost"}
    BY <1>2, <2>2, <2>3 DEF TaskInv, Devices
  <2>5. QED BY <1>1, <2>1, <2>4, TaskMeans
<1>4. \A w, e : Posted(w, e) => Posted(w, e)' \/ (w = "opened" /\ e = d)
  BY <1>1, RunMeans
<1> HIDE DEF d
<1>5. CASE cam.wanted
  <2> DEFINE device == [devices[d] EXCEPT !.config = "asked"]
  <2>1. cam' = [cam EXCEPT !.camera = d] /\ devices' = [devices EXCEPT ![d] = device]
    BY <1>5 DEF OnOpened, OnOpenedWith, d
  <2>2. d \in DOMAIN devices => /\ device \in Devices /\ device.config = "asked"
                                /\ device.state = devices[d].state
    BY CameraTypes DEF Devices
  <2> HIDE DEF device
  <2>3. /\ devices' \in Seq(Devices) /\ Len(devices') = Len(devices)
        /\ DOMAIN devices' = DOMAIN devices
        /\ \A e \in DOMAIN devices : devices'[e] = IF e = d THEN device ELSE devices[e]
    BY <2>1, <2>2, DeviceChanged
  <2>4. /\ cam' \in Fields(Len(devices)) /\ cam'.camera = d /\ cam'.wanted = cam.wanted
    BY <1>2, <2>1, CameraTypes DEF Fields
  <2>5. DevicesInv'
    <3> SUFFICES ASSUME Once PROVE /\ InOrder' /\ \A i \in DOMAIN posts' : TaskInv(i)'
                                   /\ \A e \in DOMAIN devices : LifeInv(e)'
      BY <2>3 DEF DevicesInv, Once
    <3>1. ASSUME NEW i \in DOMAIN posts' PROVE TaskInv(i)'
      <4> DEFINE e == posts'[i].device
      <4>1. posts'[i].what = "opened" => e # d
        BY <1>3, <3>1 DEF DeviceTasks
      <4>2. posts'[i].what \in {"opened", "gone", "configured"} => d <= e
        BY <1>3, <3>1 DEF DeviceTasks
      <4>3. e \in DOMAIN devices => devices'[e].state = devices[e].state
        BY <2>2, <2>3
      <4>4. QED BY <1>1, <2>3, <2>4, <4>1, <4>2, <4>3, TasksBehind DEF TaskInv
    <3>2. ASSUME NEW e \in DOMAIN devices PROVE LifeInv(e)'
      <4>1. LifeInv(e)
        BY DEF DevicesInv
      <4>2. devices'[e].state = devices[e].state /\ (e # d => devices'[e] = devices[e])
            /\ (e = d => devices'[e].config = "asked")
        BY <2>2, <2>3
      <4>3. QED BY <1>3, <1>4, <2>3, <2>4, <4>1, <4>2 DEF LifeInv
    <3>3. QED BY <1>3, <3>1, <3>2
  <2>6. SessionInv'
    BY <1>2, <2>2, <2>3, <2>4 DEF SessionInv, Open
  <2>7. \A e \in DOMAIN devices : devices'[e].state = devices[e].state
    BY <2>2, <2>3
  <2>8. Opening' = Opening /\ Open' = Open
    BY <2>3, <2>7 DEF Opening, Open
  <2>9. QED BY <1>5, <2>3, <2>4, <2>5, <2>6, <2>8, TaskRuns
<1>6. CASE ~cam.wanted
  <2>1. CloseCamera(d)
    BY <1>6 DEF OnOpened, OnOpenedWith, d
  <2>2. /\ devices' \in Seq(Devices) /\ Len(devices') = Len(devices)
        /\ DOMAIN devices' = DOMAIN devices
        /\ \A e \in DOMAIN devices :
             /\ devices'[e].state = IF e = d THEN "closed" ELSE devices[e].state
             /\ devices'[e].config = devices[e].config
        /\ cam' \in Fields(Len(devices)) /\ cam'.camera = 0 /\ cam'.wanted = cam.wanted
    BY <1>2, <2>1, ClosedMeans
  <2>3. \A e \in DOMAIN devices : e > 0
    BY CameraTypes
  <2>4. DevicesInv'
    <3> SUFFICES ASSUME Once PROVE /\ InOrder' /\ \A i \in DOMAIN posts' : TaskInv(i)'
                                   /\ \A e \in DOMAIN devices : LifeInv(e)'
      BY <2>2 DEF DevicesInv, Once
    <3>1. ASSUME NEW i \in DOMAIN posts' PROVE TaskInv(i)'
      <4> DEFINE e == posts'[i].device
      <4>1. posts'[i].what = "opened" => e # d
        BY <1>3, <3>1 DEF DeviceTasks
      <4>2. e \in DOMAIN devices =>
              /\ e >= 0
              /\ devices'[e].state = IF e = d THEN "closed" ELSE devices[e].state
              /\ devices'[e].config = devices[e].config
        BY <2>2, CameraTypes
      <4>3. cam'.camera = 0 /\ DOMAIN devices' = DOMAIN devices /\ 0 \notin DOMAIN devices
        BY <2>2, CameraTypes
      <4>4. QED BY <1>1, <4>1, <4>2, <4>3, TasksBehind DEF TaskInv
    <3>2. ASSUME NEW e \in DOMAIN devices PROVE LifeInv(e)'
      <4>1. LifeInv(e)
        BY DEF DevicesInv
      <4>2. QED BY <1>3, <1>4, <2>2, <2>3, <4>1 DEF LifeInv
    <3>3. QED BY <1>3, <3>1, <3>2
  <2>5. SessionInv'
    BY <2>2, <2>3 DEF SessionInv, Open
  <2>6. ~(Uncrossed /\ Begun)
    BY <1>6 DEF WantedInv, Begun
  <2>7. QED BY <2>2, <2>4, <2>5, <2>6, TaskRuns
<1>7. QED BY <1>5, <1>6

LEMMA GoneStep ==
  ASSUME CameraInv, Runs, Head(posts).what = "gone", OnGone(Head(posts).device),
         UNCHANGED pageVars, UNCHANGED trouble
  PROVE  CameraInv'
<1> USE DEF CameraInv
<1> DEFINE d == Head(posts).device
           device == [devices[d] EXCEPT !.state = "closed"]
<1>1. posts # << >> /\ posts' = Tail(posts) /\ UNCHANGED <<previewOn, bridge>>
  BY DEF Runs
<1>2. Head(posts) = posts[1] /\ 1 \in DOMAIN posts /\ d \in 0..Len(devices)
  BY <1>1, RunMeans, CameraTypes
<1>3. Once => /\ d \in DOMAIN devices /\ cam.camera <= d
              /\ devices[d].state \in {"lost", "closed"}
              /\ InOrder'
              /\ \A i \in DOMAIN posts' : posts'[i].what \in DeviceTasks =>
                   (d = posts'[i].device => posts'[i].what # "opened")
              /\ \A e \in DOMAIN devices : (e # d /\ devices[e].state = "open") => cam.camera # e
  <2> SUFFICES ASSUME Once
               PROVE  /\ d \in DOMAIN devices /\ cam.camera <= d
                      /\ devices[d].state \in {"lost", "closed"}
                      /\ InOrder'
                      /\ \A i \in DOMAIN posts' : posts'[i].what \in DeviceTasks =>
                           (d = posts'[i].device => posts'[i].what # "opened")
                      /\ \A e \in DOMAIN devices :
                           (e # d /\ devices[e].state = "open") => cam.camera # e
    OBVIOUS
  <2>1. Head(posts).what \in DeviceTasks
    BY DEF DeviceTasks
  <2>2. TaskInv(1)
    BY <1>1, <2>1, TaskMeans
  <2>3. devices[d].state \in {"lost", "closed"}
    BY <1>2, <2>2 DEF TaskInv
  <2>4. QED BY <1>1, <2>1, <2>3, TaskMeans
<1>4. \A w, e : Posted(w, e) => Posted(w, e)' \/ (w = "gone" /\ e = d)
  BY <1>1, RunMeans
<1>5. cam' = [cam EXCEPT !.camera = 0] /\ devices' = [devices EXCEPT ![d] = device]
  BY DEF OnGone
<1>6. d \in DOMAIN devices => /\ device \in Devices /\ device.state = "closed"
                              /\ device.config = devices[d].config
  BY CameraTypes DEF Devices
<1> HIDE DEF d, device
<1>7. /\ devices' \in Seq(Devices) /\ Len(devices') = Len(devices)
      /\ DOMAIN devices' = DOMAIN devices
      /\ \A e \in DOMAIN devices : devices'[e] = IF e = d THEN device ELSE devices[e]
  BY <1>5, <1>6, DeviceChanged
<1>8. /\ cam' \in Fields(Len(devices)) /\ cam'.camera = 0 /\ cam'.wanted = cam.wanted
  <2> DEFINE range == 0..Len(devices)
  <2>1. 0 \in range /\ cam \in [wanted : BOOLEAN, camera : range, session : range]
    BY CameraTypes
  <2> HIDE DEF range
  <2>2. /\ cam' \in [wanted : BOOLEAN, camera : range, session : range]
        /\ cam'.camera = 0 /\ cam'.wanted = cam.wanted
    BY <1>5, <2>1
  <2>3. QED BY <2>2 DEF range, Fields
<1>9. \A e \in DOMAIN devices : e > 0
  BY CameraTypes
<1>10. DevicesInv'
  <2> SUFFICES ASSUME Once PROVE /\ InOrder' /\ \A i \in DOMAIN posts' : TaskInv(i)'
                                 /\ \A e \in DOMAIN devices : LifeInv(e)'
    BY <1>7 DEF DevicesInv, Once
  <2>1. ASSUME NEW i \in DOMAIN posts' PROVE TaskInv(i)'
    <3> DEFINE e == posts'[i].device
    <3>1. posts'[i].what = "opened" => e # d
      BY <1>3, <2>1 DEF DeviceTasks
    <3>2. /\ (e \in DOMAIN devices /\ e # d) => devices'[e] = devices[e]
          /\ (e \in DOMAIN devices /\ e = d) => devices'[e].state = "closed"
      BY <1>6, <1>7
    <3>3. QED BY <1>1, <1>7, <1>8, <1>9, <3>1, <3>2, TasksBehind DEF TaskInv
  <2>2. ASSUME NEW e \in DOMAIN devices PROVE LifeInv(e)'
    <3>1. LifeInv(e)
      BY DEF DevicesInv
    <3>2. /\ e # d => devices'[e] = devices[e]
          /\ e = d => devices'[e].state = "closed"
      BY <1>6, <1>7
    <3>3. QED BY <1>3, <1>4, <1>7, <1>8, <1>9, <3>1, <3>2 DEF LifeInv
  <2>3. QED BY <1>3, <2>1, <2>2
<1>11. SessionInv'
  BY <1>7, <1>8, <1>9 DEF SessionInv, Open
<1>12. Once => Opening' \cup Open' = Opening \cup Open
  <2> SUFFICES ASSUME Once, NEW e \in DOMAIN devices
               PROVE  /\ devices'[e].state = "opening" <=> devices[e].state = "opening"
                      /\ devices'[e].state = "open" <=> devices[e].state = "open"
    BY <1>7 DEF Opening, Open
  <2>1. QED BY <1>3, <1>6, <1>7
<1>13. QED BY <1>7, <1>8, <1>10, <1>11, <1>12, TaskRuns

LEMMA ConfiguredStep ==
  ASSUME CameraInv, Runs, Head(posts).what \in {"configured", "configureFailed"},
         IF Head(posts).what = "configured" THEN OnConfigured(Head(posts).device)
           ELSE UNCHANGED <<cam, devices>>,
         UNCHANGED pageVars, UNCHANGED trouble
  PROVE  CameraInv'
<1> USE DEF CameraInv
<1> DEFINE d == Head(posts).device
           what == Head(posts).what
<1>1. posts # << >> /\ posts' = Tail(posts) /\ UNCHANGED <<previewOn, bridge>>
  BY DEF Runs
<1>2. d \in 0..Len(devices)
  BY <1>1, RunMeans, CameraTypes
<1>3. \A w, e : Posted(w, e) => Posted(w, e)' \/ (w = what /\ e = d)
  BY <1>1, RunMeans
<1>4. (what = "configured" /\ Once) => cam.camera <= d /\ d \in DOMAIN devices
  BY <1>1, TaskMeans DEF DeviceTasks
<1>5. /\ UNCHANGED devices
      /\ cam' = IF what = "configured" /\ cam.camera # 0 THEN [cam EXCEPT !.session = d] ELSE cam
  BY DEF OnConfigured
<1>6. what \in {"configured", "configureFailed"}
  OBVIOUS
<1>7. devices \in Seq(Devices) /\ cam \in Fields(Len(devices))
  BY CameraTypes DEF Fields
<1>8. Closing => Closing'
  BY <1>1, <1>6, RunMeans
<1> HIDE DEF d, what
<1>9. /\ cam' \in Fields(Len(devices)) /\ cam'.camera = cam.camera /\ cam'.wanted = cam.wanted
      /\ cam'.session = IF what = "configured" /\ cam.camera # 0 THEN d ELSE cam.session
  BY <1>2, <1>5, <1>7 DEF Fields
<1>10. DevicesInv'
  <2> SUFFICES ASSUME Once PROVE /\ InOrder' /\ \A i \in DOMAIN posts' : TaskInv(i)'
                                 /\ \A e \in DOMAIN devices : LifeInv(e)'
    BY <1>5 DEF DevicesInv, Once
  <2>1. InOrder'
    BY <1>1, OrderRun DEF DevicesInv
  <2>2. ASSUME NEW i \in DOMAIN posts' PROVE TaskInv(i)'
    BY <1>1, <1>5, <1>9, TasksBehind DEF TaskInv
  <2>3. ASSUME NEW e \in DOMAIN devices PROVE LifeInv(e)'
    BY <1>3, <1>5, <1>6, <1>9 DEF DevicesInv, LifeInv
  <2>4. QED BY <2>1, <2>2, <2>3
<1>11. (Uncrossed /\ Once) => SessionInv'
  <2> SUFFICES ASSUME Uncrossed, Once, previewOn, bridge # "startWanted", Unfailed, ~Closing',
                      cam.camera \in Open
               PROVE  /\ devices[cam.camera].config # "refused"
                      /\ devices[cam.camera].config = "told" =>
                           cam'.session = cam.camera \/ Posted("configured", cam.camera)'
    BY <1>1, <1>5, <1>9 DEF SessionInv, Open, Unfailed
  <2>1. /\ devices[cam.camera].config # "refused"
        /\ devices[cam.camera].config = "told" =>
             cam.session = cam.camera \/ Posted("configured", cam.camera)
    BY <1>8 DEF ComingInv, SessionInv
  <2>2. cam.camera = Len(devices) /\ cam.camera # 0
    BY CameraTypes DEF Open, DevicesInv, LifeInv
  <2>3. (what = "configured") => d = cam.camera
    BY <1>4, <2>2, CameraTypes
  <2>4. QED BY <1>3, <1>6, <1>9, <2>1, <2>2, <2>3
<1>12. Opening' = Opening /\ Open' = Open
  BY <1>5 DEF Opening, Open
<1>13. Head(posts).what \notin {"open", "close"}
  BY <1>6 DEF what
<1>14. QED BY <1>5, <1>7, <1>9, <1>10, <1>11, <1>12, <1>13, TaskRuns

LEMMA PreviewFailsStep == ASSUME CameraInv, PreviewFails, UNCHANGED pageVars PROVE CameraInv'
<1> USE DEF CameraInv
<1> DEFINE d == Head(posts).device
<1> DEFINE device == [devices[d] EXCEPT !.config = "refused"]
<1>1. /\ Runs /\ posts # << >> /\ posts' = Tail(posts) /\ UNCHANGED <<previewOn, bridge>>
      /\ Head(posts).what = "configured" /\ trouble' = trouble \cup {"failed"}
      /\ cam' = [cam EXCEPT !.session = d] /\ devices' = [devices EXCEPT ![d] = device]
  BY DEF PreviewFails, Runs
<1>2. d \in 0..Len(devices)
  BY <1>1, RunMeans, CameraTypes
<1>3. \A w, e : Posted(w, e) => Posted(w, e)' \/ (w = "configured" /\ e = d)
  BY <1>1, RunMeans
<1>4. devices \in Seq(Devices) /\ cam \in Fields(Len(devices))
  BY CameraTypes DEF Fields
<1>5. d \in DOMAIN devices =>
        device \in Devices /\ device.state = devices[d].state /\ device.config = "refused"
  BY CameraTypes DEF Devices
<1> HIDE DEF device
<1>6. /\ devices' \in Seq(Devices) /\ Len(devices') = Len(devices)
      /\ DOMAIN devices' = DOMAIN devices
      /\ \A e \in DOMAIN devices : devices'[e] = IF e = d THEN device ELSE devices[e]
  BY <1>1, <1>5, DeviceChanged
<1>7. /\ cam' \in Fields(Len(devices)) /\ cam'.camera = cam.camera /\ cam'.wanted = cam.wanted
  <2> HIDE DEF d
  <2>1. QED BY <1>1, <1>2, <1>4 DEF Fields
<1>8. ~Unfailed' /\ Once' = Once
  BY <1>1 DEF Unfailed, Once
<1>9. ASSUME Once
      PROVE  /\ d \in DOMAIN devices /\ devices[d].state # "opening"
             /\ InOrder'
             /\ \A i \in DOMAIN posts' :
                  posts'[i].what = "opened" => posts'[i].device # d
  BY <1>1, <1>9, TaskMeans DEF DeviceTasks
<1> HIDE DEF d
<1>10. DevicesInv'
  <2> SUFFICES ASSUME Once PROVE /\ InOrder' /\ \A i \in DOMAIN posts' : TaskInv(i)'
                                 /\ \A e \in DOMAIN devices : LifeInv(e)'
    BY <1>6, <1>8 DEF DevicesInv
  <2>1. InOrder'
    BY <1>9
  <2>2. ASSUME NEW i \in DOMAIN posts' PROVE TaskInv(i)'
    <3> DEFINE e == posts'[i].device
    <3>1. /\ posts'[i].what \in {"opened", "gone", "configured", "configureFailed"} =>
               e \in DOMAIN devices /\ devices[e].state # "opening"
          /\ posts'[i].what \in {"opened", "gone", "configured"} => cam.camera <= e
          /\ posts'[i].what = "opened" =>
               cam.camera # e /\ devices[e].state # "closed" /\ devices[e].config = "none"
          /\ posts'[i].what = "gone" => devices[e].state \in {"lost", "closed"}
      BY <1>1, TasksBehind
    <3>2. posts'[i].what = "opened" => e # d
      BY <1>9
    <3>3. e \in DOMAIN devices => /\ devices'[e].state = devices[e].state
                                  /\ e # d => devices'[e].config = devices[e].config
      BY <1>5, <1>6
    <3>4. posts'[i].what = "gone" => e \in DOMAIN devices
      BY <3>1
    <3>5. QED BY <1>6, <1>7, <3>1, <3>2, <3>3, <3>4 DEF TaskInv
  <2>3. ASSUME NEW e \in DOMAIN devices PROVE LifeInv(e)'
    <3>1. LifeInv(e)
      BY DEF DevicesInv
    <3>2. devices'[e].state = devices[e].state /\ (e # d => devices'[e] = devices[e])
      BY <1>5, <1>6
    <3>3. e = d => devices'[e].config = "refused" /\ devices[e].state # "opening"
      BY <1>5, <1>6, <1>9
    <3>4. QED BY <1>3, <1>6, <1>7, <3>1, <3>2, <3>3 DEF LifeInv
  <2>4. QED BY <2>1, <2>2, <2>3
<1>11. SessionInv'
  BY <1>8 DEF SessionInv
<1>12. Opening' = Opening /\ Open' = Open
  <2>1. \A e \in DOMAIN devices : devices'[e].state = devices[e].state
    BY <1>5, <1>6
  <2>2. QED BY <1>6, <2>1 DEF Opening, Open
<1>13. Head(posts).what \notin {"open", "close"}
  BY <1>1
<1>14. QED BY <1>1, <1>6, <1>7, <1>10, <1>11, <1>12, <1>13, TaskRuns

\* openCamera asks for a device, or not.
Asks(available) == cam.wanted /\ cam.camera = 0 /\ available

LEMMA OpenMeans ==
  ASSUME CameraTypeOK, NEW available \in BOOLEAN, OpenCamera(available)
  PROVE  /\ UNCHANGED cam /\ devices' \in Seq(Devices)
         /\ cam' \in Fields(Len(devices')) /\ Posts(Len(devices)) \subseteq Posts(Len(devices'))
         /\ trouble' \subseteq Troubles /\ Uncrossed' = Uncrossed /\ Unfailed' = Unfailed
         /\ Once' => Once
         /\ ~Asks(available) => UNCHANGED <<devices, trouble>>
         /\ Asks(available) =>
              /\ Len(devices') = Len(devices) + 1
              /\ DOMAIN devices = 1..Len(devices) /\ DOMAIN devices' = 1..(Len(devices) + 1)
              /\ \A d \in DOMAIN devices : devices'[d] = devices[d]
              /\ devices'[Len(devices) + 1].state = "opening"
              /\ devices'[Len(devices) + 1].config = "none"
              /\ Once' => Opening \cup Open = {}
<1> DEFINE device == [state |-> "opening", config |-> "none"]
<1>1. /\ devices \in Seq(Devices) /\ Len(devices) \in Nat /\ cam \in Fields(Len(devices))
      /\ device \in Devices /\ device.state = "opening" /\ device.config = "none"
      /\ trouble \subseteq Troubles
  BY CameraTypes DEF Devices, Fields, CameraTypeOK
<1> HIDE DEF device
<1>2. CASE Asks(available)
  <2>1. /\ devices' = Append(devices, device) /\ UNCHANGED cam
        /\ trouble' = trouble \cup {x \in {"twice"} : Opening \cup Open # {}}
    BY <1>2 DEF OpenCamera, Asks, device
  <2>2. /\ devices' \in Seq(Devices)
        /\ Len(devices') = Len(devices) + 1
        /\ DOMAIN devices = 1..Len(devices) /\ DOMAIN devices' = 1..(Len(devices) + 1)
        /\ \A d \in DOMAIN devices : devices'[d] = devices[d]
        /\ devices'[Len(devices) + 1] = device
    BY <1>1, <2>1, Appended
  <2>3. /\ trouble' \subseteq Troubles /\ Uncrossed' = Uncrossed /\ Unfailed' = Unfailed
        /\ Once' => Once /\ Opening \cup Open = {}
    BY <1>1, <2>1 DEF Troubles, Uncrossed, Unfailed, Once
  <2>4. 0..Len(devices) \subseteq 0..Len(devices')
    BY <1>1, <2>2
  <2>5. cam' \in Fields(Len(devices')) /\ Posts(Len(devices)) \subseteq Posts(Len(devices'))
    BY <1>1, <2>1, <2>4 DEF Fields, Posts
  <2>6. QED BY <1>1, <1>2, <2>1, <2>2, <2>3, <2>5
<1>3. CASE ~Asks(available)
  <2>1. UNCHANGED <<cam, devices, trouble>>
    BY <1>3 DEF OpenCamera, Asks
  <2>2. QED BY <1>1, <1>3, <2>1 DEF Uncrossed, Unfailed, Once
<1>4. QED BY <1>2, <1>3

\* The devices after an openCamera; the queue lost nothing but an open.
LEMMA OpenDevices ==
  ASSUME CameraInv, NEW available \in BOOLEAN, OpenCamera(available),
         InOrder => InOrder',
         \A i \in DOMAIN posts' : \E j \in DOMAIN posts : posts'[i] = posts[j],
         \A w, e : Posted(w, e) => Posted(w, e)' \/ w = "open"
  PROVE  DevicesInv'
<1> USE DEF CameraInv
<1> SUFFICES ASSUME Once'
             PROVE  /\ InOrder' /\ \A i \in DOMAIN posts' : TaskInv(i)'
                    /\ \A d \in DOMAIN devices' : LifeInv(d)'
  BY DEF DevicesInv
<1>1. /\ UNCHANGED cam /\ Once
      /\ ~Asks(available) => UNCHANGED <<devices, trouble>>
  BY OpenMeans
<1>2. Asks(available) =>
        /\ Len(devices') = Len(devices) + 1
        /\ DOMAIN devices = 1..Len(devices) /\ DOMAIN devices' = 1..(Len(devices) + 1)
        /\ \A d \in DOMAIN devices : devices'[d] = devices[d]
        /\ devices'[Len(devices) + 1].state = "opening"
        /\ devices'[Len(devices) + 1].config = "none"
        /\ Opening \cup Open = {}
  BY OpenMeans
<1>3. InOrder'
  BY <1>1 DEF DevicesInv
<1>4. \A d \in DOMAIN devices : d \in DOMAIN devices' /\ devices'[d] = devices[d]
  BY <1>1, <1>2, CameraTypes
<1>5. ASSUME NEW i \in DOMAIN posts' PROVE TaskInv(i)'
  <2>1. PICK j \in DOMAIN posts : posts'[i] = posts[j]
    OBVIOUS
  <2>2. TaskInv(j)
    BY <1>1 DEF DevicesInv
  <2>3. QED BY <1>1, <1>4, <2>1, <2>2 DEF TaskInv
<1>6. ASSUME NEW d \in DOMAIN devices' PROVE LifeInv(d)'
  <2>1. CASE Asks(available) /\ d = Len(devices) + 1
    BY <1>1, <1>2, <2>1, CameraTypes DEF LifeInv, Asks
  <2>2. CASE ~(Asks(available) /\ d = Len(devices) + 1)
    <3>1. d \in DOMAIN devices
      BY <1>1, <1>2, <2>2, CameraTypes
    <3>2. LifeInv(d)
      BY <1>1, <3>1 DEF DevicesInv
    <3>3. Asks(available) => devices[d].state \notin {"opening", "open"}
      BY <1>2, <3>1 DEF Opening, Open
    <3>4. ~Asks(available) => Len(devices') = Len(devices)
      BY <1>1
    <3>5. QED BY <1>1, <1>4, <3>1, <3>2, <3>3, <3>4 DEF LifeInv
  <2>3. QED BY <2>1, <2>2
<1>7. QED BY <1>3, <1>5, <1>6

LEMMA OpenStep ==
  ASSUME CameraInv, Runs, Head(posts).what = "open", OpenCamera(view), UNCHANGED pageVars
  PROVE  CameraInv'
<1> USE DEF CameraInv
<1>1. /\ uiStop = "idle" /\ posts # << >> /\ posts' = Tail(posts)
      /\ UNCHANGED <<view, previewOn, loops, bridge, uiStop>>
  BY DEF Runs
<1>2. /\ 1 \in DOMAIN posts /\ posts[1].what = "open"
      /\ \A i \in DOMAIN posts' :
           i + 1 \in DOMAIN posts /\ posts'[i] = posts[i + 1] /\ (LastOpen(i)' => LastOpen(i + 1))
      /\ Closing' <=> Closing
      /\ \A w, e : Posted(w, e) => Posted(w, e)' \/ w = "open"
      /\ Reopening => Reopening' \/ (~Closing' /\ LastOpen(1))
      /\ Reopening' => Reopening
  BY <1>1, RunMeans
<1>3. view \in BOOLEAN
  BY DEF CameraTypeOK
<1>4. /\ UNCHANGED cam /\ devices' \in Seq(Devices)
      /\ cam' \in Fields(Len(devices')) /\ Posts(Len(devices)) \subseteq Posts(Len(devices'))
      /\ trouble' \subseteq Troubles /\ Uncrossed' = Uncrossed /\ Unfailed' = Unfailed
      /\ Once' => Once
      /\ ~Asks(view) => UNCHANGED <<devices, trouble>>
  BY <1>3, OpenMeans
<1>5. Asks(view) =>
        /\ Len(devices') = Len(devices) + 1
        /\ DOMAIN devices = 1..Len(devices) /\ DOMAIN devices' = 1..(Len(devices) + 1)
        /\ \A d \in DOMAIN devices : devices'[d] = devices[d]
        /\ devices'[Len(devices) + 1].state = "opening"
  BY <1>3, OpenMeans
<1>6. CameraTypeOK'
  <2>1. posts' \in Seq(Posts(Len(devices')))
    BY <1>1, <1>4, RunKeeps, SeqMonotonic
  <2>2. QED BY <1>1, <1>4, <2>1 DEF CameraTypeOK, Posts, Fields, Devices
<1>7. LoopInv' /\ WantedInv'
  BY <1>1, <1>2, <1>4 DEF LoopInv, WantedInv, Asks
<1>8. InOrder => InOrder'
  BY <1>1, OrderRun
<1>9. DevicesInv'
  BY <1>2, <1>3, <1>8, OpenDevices
<1>10. ComingInv'
  <2> SUFFICES ASSUME Uncrossed, Once, Once' PROVE ComingInv'
    BY <1>4 DEF ComingInv
  <2>1. Begun' = Begun
    BY <1>1 DEF Begun
  <2>2. (~previewOn' /\ bridge' = "idle" /\ uiStop' = "idle") => ~Reopening'
    BY <1>1, <1>2 DEF ComingInv
  <2>3. (Begun' /\ Closing') => Reopening'
    BY <1>2, <2>1 DEF ComingInv
  <2>4. ASSUME Begun, Unfailed, view, ~Reopening' PROVE Opening' \cup Open' # {}
    <3>1. CASE Asks(view)
      <4>1. Len(devices) + 1 \in DOMAIN devices'
        BY <1>5, <3>1, CameraTypes
      <4>2. QED BY <1>5, <3>1, <4>1 DEF Opening
    <3>2. CASE ~Asks(view)
      <4>1. cam.wanted
        BY <2>4 DEF WantedInv, Begun
      <4>2. cam.camera \in DOMAIN devices
        BY <2>4, <3>2, <4>1, CameraTypes DEF Asks
      <4>3. CASE Reopening
        <5>1. LastOpen(1)
          BY <1>2, <2>4, <4>3
        <5>2. LifeInv(cam.camera)
          BY <4>2 DEF DevicesInv
        <5>3. ~Posted("gone", cam.camera)
          <6> SUFFICES ASSUME NEW j \in DOMAIN posts, posts[j].what = "gone" PROVE FALSE
            BY DEF Posted, IsTask
          <6>1. 1 < j
            BY <1>2, CameraTypes
          <6>2. QED BY <1>2, <2>4, <5>1, <6>1 DEF ComingInv, Begun
        <5>4. cam.camera \in Open
          BY <4>2, <5>2, <5>3 DEF LifeInv, Open
        <5>5. QED BY <1>4, <3>2, <5>4 DEF Open
      <4>4. CASE ~Reopening
        BY <1>4, <2>4, <3>2, <4>4 DEF ComingInv, Opening, Open
      <4>5. QED BY <4>3, <4>4
    <3>3. QED BY <3>1, <3>2
  <2>5. ASSUME previewOn, Unfailed, NEW i \in DOMAIN posts', NEW j \in DOMAIN posts',
               LastOpen(i)', i < j
        PROVE  posts'[j].what # "gone"
    <3>1. i \in Int /\ j \in Int
      BY <1>1, RunKeeps
    <3>2. i + 1 < j + 1
      BY <2>5, <3>1
    <3>3. QED BY <1>2, <2>5, <3>2 DEF ComingInv
  <2>6. SessionInv'
    <3>1. CASE Asks(view)
      BY <1>4, <1>5, <3>1, CameraTypes DEF SessionInv, Open, Asks
    <3>2. CASE ~Asks(view)
      BY <1>1, <1>2, <1>4, <3>2 DEF ComingInv, SessionInv, Open
    <3>3. QED BY <3>1, <3>2
  <2>7. QED BY <1>1, <1>4, <2>1, <2>2, <2>3, <2>4, <2>5, <2>6 DEF ComingInv
<1>11. PageInv'
  BY <1>1 DEF PageInv, pageVars
<1>12. QED BY <1>6, <1>7, <1>9, <1>10, <1>11

LEMMA ViewComesStep == ASSUME CameraInv, ViewComes, UNCHANGED pageVars PROVE CameraInv'
<1> USE DEF CameraInv
<1>1. /\ ~view /\ uiStop = "idle" /\ view' = TRUE /\ OpenCamera(TRUE)
      /\ UNCHANGED <<posts, previewOn, loops, bridge, uiStop>>
  BY DEF ViewComes
<1>2. /\ UNCHANGED cam /\ devices' \in Seq(Devices)
      /\ cam' \in Fields(Len(devices')) /\ Posts(Len(devices)) \subseteq Posts(Len(devices'))
      /\ trouble' \subseteq Troubles /\ Uncrossed' = Uncrossed /\ Unfailed' = Unfailed
      /\ Once' => Once
      /\ ~Asks(TRUE) => UNCHANGED <<devices, trouble>>
  BY <1>1, OpenMeans
<1>3. Asks(TRUE) => /\ DOMAIN devices' = 1..(Len(devices) + 1)
                    /\ devices'[Len(devices) + 1].state = "opening"
  BY <1>1, OpenMeans
<1>4. devices = << >> /\ Len(devices) = 0 /\ cam.camera = 0 /\ Opening = {} /\ Open = {}
  <2>1. devices = << >> /\ Len(devices) = 0 /\ DOMAIN devices = 1..Len(devices)
    BY <1>1, CameraTypes DEF LoopInv
  <2>2. QED BY <2>1, CameraTypes DEF Opening, Open
<1>5. /\ Closing' = Closing /\ Reopening' = Reopening
      /\ \A i \in DOMAIN posts : LastOpen(i)' = LastOpen(i)
      /\ \A w, e : Posted(w, e)' = Posted(w, e)
      /\ InOrder' = InOrder
  BY <1>1 DEF Closing, Reopening, LastOpen, Posted, IsTask, InOrder
<1>6. CameraTypeOK'
  <2>1. posts' \in Seq(Posts(Len(devices')))
    BY <1>1, <1>2, CameraTypes, SeqMonotonic
  <2>2. QED BY <1>1, <1>2, <2>1 DEF CameraTypeOK, Posts, Fields, Devices
<1>7. LoopInv' /\ WantedInv'
  BY <1>1, <1>2, <1>5 DEF LoopInv, WantedInv
<1>8. DevicesInv'
  BY <1>1, <1>5, OpenDevices
<1>9. ComingInv'
  <2> SUFFICES ASSUME Uncrossed, Once, Once' PROVE ComingInv'
    BY <1>2 DEF ComingInv
  <2>1. Begun' = Begun
    BY <1>1 DEF Begun
  <2>2. Begun => Opening' # {}
    <3>1. Begun => Asks(TRUE)
      BY <1>4 DEF WantedInv, Begun, Asks
    <3>2. Len(devices) + 1 \in 1..(Len(devices) + 1)
      BY <1>4
    <3>3. QED BY <1>3, <3>1, <3>2 DEF Opening
  <2>3. SessionInv'
    BY <1>2, <1>4, <1>6, CameraTypes DEF SessionInv, Open
  <2>4. QED BY <1>1, <1>2, <1>5, <2>1, <2>2, <2>3 DEF ComingInv
<1>10. PageInv'
  BY <1>1 DEF PageInv, pageVars
<1>11. QED BY <1>6, <1>7, <1>8, <1>9, <1>10

-----------------------------------------------------------------------------
(* The camera: the service's answers.                                         *)

\* What the service tells of a device d, which becomes device.
Answers(what, d, device) ==
  \/ /\ what = "opened" /\ d \in Opening
     /\ device = [devices[d] EXCEPT !.state = "open"]
  \/ /\ what = "gone" /\ d \in Opening \cup Open /\ device = Lost(d)
     /\ Once => ~Unfailed'
  \/ /\ what = "configured" /\ devices[d].config = "asked" /\ device = Configured(d)
     /\ d \in Open
  \/ /\ what = "configureFailed" /\ devices[d].config = "asked" /\ device = Configured(d)
     /\ d \notin Open \/ ~Unfailed'

LEMMA TellStep ==
  ASSUME CameraInv, NEW d \in DOMAIN devices, NEW what, NEW device,
         Answers(what, d, device), Tell(what, d, device),
         trouble' = trouble \/ trouble' = trouble \cup {"failed"}, UNCHANGED pageVars
  PROVE  CameraInv'
<1> USE DEF CameraInv
<1> DEFINE n == Len(posts) + 1
<1>1. /\ devices' = [devices EXCEPT ![d] = device] /\ Post(what, d)
      /\ UNCHANGED <<cam, view, previewOn, loops, bridge, uiStop>>
  BY DEF Tell
<1>2. what \in {"opened", "gone", "configured", "configureFailed"} /\ what \in Tasks
  BY DEF Answers, Tasks
<1>3. devices[d] \in Devices /\ d \in 0..Len(devices) /\ d # 0
  BY CameraTypes
<1>4. /\ device \in Devices
      /\ what = "opened" => /\ device.state = "open" /\ device.config = devices[d].config
                            /\ devices[d].state = "opening"
      /\ what = "gone" => /\ device.state = "lost" /\ device.config = devices[d].config
                          /\ devices[d].state \in {"opening", "open"}
                          /\ (Once => ~Unfailed')
      /\ what \in {"configured", "configureFailed"} =>
           /\ device.state = devices[d].state /\ device.config = "told"
           /\ devices[d].config = "asked"
      /\ what = "configured" => devices[d].state = "open"
      /\ what = "configureFailed" => devices[d].state # "open" \/ ~Unfailed'
  BY <1>3 DEF Answers, Devices, Lost, Configured, Opening, Open
<1>5. /\ devices' \in Seq(Devices) /\ Len(devices') = Len(devices)
      /\ DOMAIN devices' = DOMAIN devices
      /\ \A e \in DOMAIN devices : devices'[e] = IF e = d THEN device ELSE devices[e]
  BY <1>1, <1>4, DeviceChanged
<1>6. /\ posts' \in Seq(Posts(Len(devices)))
      /\ DOMAIN posts = 1..Len(posts) /\ Len(posts) \in Nat
      /\ DOMAIN posts' = 1..n
      /\ \A i \in 1..Len(posts) : posts'[i] = posts[i]
      /\ posts'[n].what = what /\ posts'[n].device = d
  BY <1>1, <1>2, <1>3, PostKeeps
<1>7. /\ Closing' <=> Closing
      /\ \A w, e : Posted(w, e)' <=> Posted(w, e) \/ (w = what /\ e = d)
      /\ Reopening' <=> Reopening
      /\ \A i \in DOMAIN posts' : LastOpen(i)' => i \in DOMAIN posts /\ LastOpen(i)
  BY <1>1, <1>2, <1>3, PostMeans
<1>8. /\ Uncrossed' = Uncrossed /\ Once' = Once /\ (Unfailed' => Unfailed)
      /\ trouble' \subseteq Troubles
  BY DEF Uncrossed, Once, Unfailed, CameraTypeOK, Troubles
<1>9. CameraTypeOK'
  <2>1. devices' \in Seq([state : {"opening", "open", "lost", "closed"},
                          config : {"none", "asked", "told", "refused"}])
    BY <1>5 DEF Devices
  <2>2. posts' \in Seq([what : Tasks, device : 0..Len(devices')])
    BY <1>5, <1>6 DEF Posts
  <2>3. cam' \in [wanted : BOOLEAN, camera : 0..Len(devices'), session : 0..Len(devices')]
    BY <1>1, <1>5, CameraTypes
  <2>4. QED BY <1>1, <1>8, <2>1, <2>2, <2>3 DEF CameraTypeOK
<1>10. LoopInv' /\ WantedInv'
  <2>1. view
    BY CameraTypes DEF LoopInv
  <2>2. QED BY <1>1, <1>7, <1>8, <2>1 DEF LoopInv, WantedInv
<1> HIDE DEF n
<1>11. DevicesInv'
  <2> SUFFICES ASSUME Once PROVE /\ InOrder' /\ \A i \in DOMAIN posts' : TaskInv(i)'
                                 /\ \A e \in DOMAIN devices : LifeInv(e)'
    BY <1>5, <1>8 DEF DevicesInv
  <2>1. devices[d].state \in {"opening", "open"} => d = Len(devices)
    BY DEF DevicesInv, LifeInv
  <2>2. devices[d].state = "opening" => devices[d].config = "none" /\ cam.camera # d
    BY DEF DevicesInv, LifeInv
  <2>3. what \in DeviceTasks => d = Len(devices)
    BY <1>4, <2>1 DEF DeviceTasks
  <2>4. ASSUME NEW i \in DOMAIN posts, what \in DeviceTasks, posts[i].what \in DeviceTasks
        PROVE  posts[i].device <= d /\ (what = "opened" => posts[i].device # d)
    <3>1. posts[i].device \in 0..Len(devices)
      BY CameraTypes
    <3>2. posts[i].device \in DOMAIN devices /\ devices[posts[i].device].state # "opening"
      BY <2>4 DEF DevicesInv, TaskInv, DeviceTasks
    <3>3. QED BY <1>4, <2>3, <2>4, <3>1, <3>2
  <2>5. InOrder'
    BY <1>1, <1>2, <1>3, <2>4, OrderPosted DEF DevicesInv
  <2>6. ASSUME NEW i \in DOMAIN posts' PROVE TaskInv(i)'
    <3>1. CASE i = n
      <4>1. what \in {"opened", "gone", "configured"} => cam.camera <= d
        BY <2>3, CameraTypes DEF DeviceTasks
      <4>2. device.state # "opening"
        BY <1>2, <1>4, <2>2
      <4>3. devices'[d] = device /\ posts'[i].what = what /\ posts'[i].device = d
        BY <1>5, <1>6, <3>1
      <4>4. QED BY <1>1, <1>4, <1>5, <2>2, <4>1, <4>2, <4>3 DEF TaskInv
    <3>2. CASE i # n
      <4>1. i \in DOMAIN posts /\ posts'[i] = posts[i]
        BY <1>6, <3>2 DEF n
      <4>2. TaskInv(i)
        BY <4>1 DEF DevicesInv
      <4> DEFINE e == posts[i].device
      <4>3. CASE e = d
        <5>1. devices'[d] = device
          BY <1>5
        <5>2. QED BY <1>1, <1>2, <1>4, <1>5, <4>1, <4>2, <4>3, <5>1 DEF TaskInv
      <4>4. CASE e # d
        <5>1. e \in DOMAIN devices => devices'[e] = devices[e]
          BY <1>5, <4>4
        <5>2. QED BY <1>1, <1>5, <4>1, <4>2, <5>1 DEF TaskInv
      <4>5. QED BY <4>3, <4>4
    <3>3. QED BY <3>1, <3>2
  <2>7. ASSUME NEW e \in DOMAIN devices PROVE LifeInv(e)'
    <3>1. LifeInv(e)
      BY DEF DevicesInv
    <3>2. CASE e = d
      <4>1. devices'[e] = device
        BY <1>5, <3>2
      <4>2. QED BY <1>1, <1>2, <1>4, <1>5, <1>7, <2>1, <3>1, <3>2, <4>1 DEF LifeInv
    <3>3. CASE e # d
      <4>1. devices'[e] = devices[e]
        BY <1>5, <3>3
      <4>2. QED BY <1>1, <1>5, <1>7, <3>1, <4>1 DEF LifeInv
    <3>4. QED BY <3>2, <3>3
  <2>8. QED BY <2>5, <2>6, <2>7
<1>12. ComingInv'
  <2> SUFFICES ASSUME Uncrossed, Once PROVE ComingInv'
    BY <1>8 DEF ComingInv
  <2>1. Begun' = Begun
    BY <1>1 DEF Begun
  <2>2. what = "gone" => ~Unfailed'
    BY <1>4
  <2>3. ASSUME Unfailed', Opening \cup Open # {} PROVE Opening' \cup Open' # {}
    <3>1. PICK e \in DOMAIN devices : devices[e].state \in {"opening", "open"}
      BY <2>3 DEF Opening, Open
    <3>2. devices'[e].state \in {"opening", "open"}
      BY <1>2, <1>4, <1>5, <2>2, <2>3, <3>1
    <3>3. QED BY <1>5, <3>2 DEF Opening, Open
  <2>4. ASSUME previewOn, Unfailed', NEW i \in DOMAIN posts', NEW j \in DOMAIN posts',
               LastOpen(i)', i < j
        PROVE  posts'[j].what # "gone"
    <3>1. CASE j = n
      BY <1>6, <2>2, <2>4, <3>1
    <3>2. CASE j # n
      <4>1. j \in DOMAIN posts /\ posts'[j] = posts[j]
        BY <1>6, <3>2 DEF n
      <4>2. QED BY <1>7, <1>8, <2>4, <4>1 DEF ComingInv
    <3>3. QED BY <3>1, <3>2
  <2>5. SessionInv'
    <3> SUFFICES ASSUME previewOn, bridge # "startWanted", Unfailed', ~Closing,
                        cam.camera \in DOMAIN devices, devices'[cam.camera].state = "open"
                 PROVE  /\ devices'[cam.camera].config # "refused"
                        /\ devices'[cam.camera].config = "told" =>
                             \/ cam.session = cam.camera \/ Posted("configured", cam.camera)
                             \/ what = "configured" /\ cam.camera = d
      BY <1>1, <1>5, <1>7 DEF SessionInv, Open
    <3>1. CASE cam.camera = d
      <4>1. devices'[d] = device
        BY <1>5
      <4>2. what # "opened"
        <5>1. devices[d].state = "opening" => cam.camera # d
          BY DEF DevicesInv, LifeInv
        <5>2. QED BY <1>4, <3>1, <4>1, <5>1
      <4>3. QED BY <1>2, <1>4, <3>1, <4>1, <4>2
    <3>2. CASE cam.camera # d
      BY <1>5, <1>8, <3>2 DEF ComingInv, SessionInv, Open
    <3>3. QED BY <3>1, <3>2
  <2>6. QED BY <1>1, <1>7, <1>8, <2>1, <2>3, <2>4, <2>5 DEF ComingInv
<1>13. PageInv'
  BY <1>1 DEF PageInv, pageVars
<1>14. QED BY <1>9, <1>10, <1>11, <1>12, <1>13

\* The service takes the camera from another device: then one was opened while
\* another was still opening.
LEMMA EvictStep ==
  ASSUME CameraInv, NEW d \in Opening, NEW old \in Open, Evict(old, d), UNCHANGED trouble,
         UNCHANGED pageVars
  PROVE  CameraInv'
<1> USE DEF CameraInv
<1> DEFINE lost == [devices EXCEPT ![old] = Lost(old)]
<1>1. /\ devices' = [lost EXCEPT ![d] = [lost[d] EXCEPT !.state = "open"]]
      /\ posts' = posts \o << Task("gone", old), Task("opened", d) >>
      /\ UNCHANGED <<cam, view, previewOn, loops, bridge, uiStop, trouble>>
  BY DEF Evict
<1>2. /\ devices \in Seq(Devices) /\ d \in DOMAIN devices /\ old \in DOMAIN devices /\ d # old
      /\ DOMAIN devices = 1..Len(devices) /\ Len(devices) \in Nat
      /\ \A e \in DOMAIN devices : devices[e] \in Devices
  BY CameraTypes DEF Opening, Open
<1>3. ~Once
  BY <1>2 DEF DevicesInv, LifeInv, Opening, Open
<1>4. lost \in Seq(Devices) /\ Len(lost) = Len(devices) /\ DOMAIN lost = DOMAIN devices
      /\ lost[d] = devices[d]
  <2>1. Lost(old) \in Devices
    BY <1>2 DEF Lost, Devices
  <2>2. QED BY <1>2, <2>1, Changed
<1> HIDE DEF lost
<1>5. devices' \in Seq(Devices) /\ Len(devices') = Len(devices)
  <2>1. [lost[d] EXCEPT !.state = "open"] \in Devices
    BY <1>2, <1>4 DEF Devices
  <2>2. QED BY <1>1, <1>2, <1>4, <2>1, Changed
<1> DEFINE new == << Task("gone", old), Task("opened", d) >>
<1>6. /\ new \in Seq(Posts(Len(devices))) /\ posts \in Seq(Posts(Len(devices)))
      /\ Len(posts) \in Nat /\ DOMAIN posts = 1..Len(posts)
  <2>1. Task("gone", old) \in Posts(Len(devices)) /\ Task("opened", d) \in Posts(Len(devices))
    BY <1>2 DEF Task, Posts, Tasks
  <2> DEFINE S == Posts(Len(devices))
  <2> HIDE DEF S
  <2>2. new \in Seq(S)
    BY <2>1 DEF S
  <2>3. QED BY <2>2, CameraTypes DEF S
<1>7. Len(new) = 2
  OBVIOUS
<1> HIDE DEF new
<1>8. /\ posts' \in Seq(Posts(Len(devices))) /\ DOMAIN posts' = 1..(Len(posts) + 2)
      /\ \A i \in 1..Len(posts) : posts'[i] = posts[i]
  <2>1. /\ posts' \in Seq(Posts(Len(devices))) /\ Len(posts') = Len(posts) + 2
        /\ \A i \in 1..(Len(posts) + 2) :
             posts'[i] = IF i <= Len(posts) THEN posts[i] ELSE new[i - Len(posts)]
    BY <1>1, <1>6, <1>7, ConcatProperties DEF new
  <2>2. DOMAIN posts' = 1..(Len(posts) + 2)
    BY <2>1, LenProperties
  <2>3. QED BY <1>6, <2>1, <2>2
<1>9. CameraTypeOK'
  BY <1>1, <1>5, <1>8 DEF CameraTypeOK, Devices, Posts
<1>10. Closing => Closing'
  BY <1>6, <1>8 DEF Closing
<1>11. view
  BY <1>2 DEF LoopInv
<1>12. LoopInv' /\ WantedInv'
  BY <1>1, <1>10, <1>11 DEF LoopInv, WantedInv, Uncrossed
<1>13. DevicesInv' /\ ComingInv'
  BY <1>1, <1>3 DEF DevicesInv, ComingInv, Once
<1>14. PageInv'
  BY <1>1 DEF PageInv, pageVars
<1>15. QED BY <1>9, <1>12, <1>13, <1>14

LEMMA ServiceOpensStep ==
  ASSUME CameraInv, NEW d \in DOMAIN devices, ServiceOpens(d), UNCHANGED pageVars
  PROVE  CameraInv'
<1>1. d \in Opening /\ UNCHANGED trouble
  BY DEF ServiceOpens
<1>2. CASE Tell("opened", d, [devices[d] EXCEPT !.state = "open"])
  <2>1. Answers("opened", d, [devices[d] EXCEPT !.state = "open"])
    BY <1>1 DEF Answers
  <2>2. QED BY <1>1, <1>2, <2>1, TellStep
<1>3. CASE \E old \in Open : Evict(old, d)
  BY <1>1, <1>3, EvictStep
<1>4. CASE Open # {} /\ Tell("gone", d, Lost(d))
  <2>1. ~Once
    <3>1. PICK e \in DOMAIN devices : devices[e].state = "open"
      BY <1>4 DEF Open
    <3>2. devices[d].state = "opening"
      BY <1>1 DEF Opening
    <3>3. QED BY <3>1, <3>2 DEF CameraInv, DevicesInv, LifeInv
  <2>2. Answers("gone", d, Lost(d))
    BY <1>1, <2>1 DEF Answers
  <2>3. QED BY <1>1, <1>4, <2>2, TellStep
<1>5. QED BY <1>2, <1>3, <1>4 DEF ServiceOpens

LEMMA ServiceConfiguresStep ==
  ASSUME CameraInv, NEW d \in DOMAIN devices, ServiceConfigures(d), UNCHANGED pageVars
  PROVE  CameraInv'
<1> DEFINE what == IF d \in Open THEN "configured" ELSE "configureFailed"
<1>1. /\ devices[d].config = "asked" /\ Tell(what, d, Configured(d)) /\ UNCHANGED trouble
  BY DEF ServiceConfigures
<1>2. Answers(what, d, Configured(d))
  BY <1>1 DEF Answers
<1> HIDE DEF what
<1>3. QED BY <1>1, <1>2, TellStep

LEMMA ServiceFailsStep ==
  ASSUME CameraInv, NEW d \in DOMAIN devices, ServiceFails(d), UNCHANGED pageVars
  PROVE  CameraInv'
<1>1. trouble' = trouble \cup {"failed"} /\ ~Unfailed'
  BY DEF ServiceFails, Unfailed
<1>2. CASE d \in Opening \cup Open /\ Tell("gone", d, Lost(d))
  <2>1. Answers("gone", d, Lost(d))
    BY <1>1, <1>2 DEF Answers
  <2>2. QED BY <1>1, <1>2, <2>1, TellStep
<1>3. CASE devices[d].config = "asked" /\ Tell("configureFailed", d, Configured(d))
  <2>1. Answers("configureFailed", d, Configured(d))
    BY <1>1, <1>3 DEF Answers
  <2>2. QED BY <1>1, <1>3, <2>1, TellStep
<1>4. QED BY <1>2, <1>3 DEF ServiceFails

-----------------------------------------------------------------------------
(* The camera: every step of its own, and what it is left in.                 *)

LEMMA RunPostStep == ASSUME CameraInv, RunPost, UNCHANGED pageVars PROVE CameraInv'
<1> DEFINE t == Head(posts)
<1>1. Runs
  BY DEF RunPost, Runs
<1>2. t.what \in Tasks
  BY <1>1, RunMeans, CameraTypes DEF Runs, CameraInv
<1>3. t.what # "open" => UNCHANGED trouble
  BY DEF RunPost
<1>4. CASE t.what = "open"
  <2>1. OpenCamera(view)
    BY <1>4 DEF RunPost
  <2>2. QED BY <1>1, <1>4, <2>1, OpenStep
<1>5. CASE t.what = "close"
  <2>1. CloseCamera(cam.camera)
    BY <1>5 DEF RunPost
  <2>2. QED BY <1>1, <1>3, <1>5, <2>1, CloseStep
<1>6. CASE t.what = "opened"
  <2>1. OnOpened(t.device)
    BY <1>6 DEF RunPost
  <2>2. QED BY <1>1, <1>3, <1>6, <2>1, OpenedStep
<1>7. CASE t.what = "gone"
  <2>1. OnGone(t.device)
    BY <1>7 DEF RunPost
  <2>2. QED BY <1>1, <1>3, <1>7, <2>1, GoneStep
<1>8. CASE t.what = "configured"
  <2>1. OnConfigured(t.device)
    BY <1>8 DEF RunPost
  <2>2. QED BY <1>1, <1>3, <1>8, <2>1, ConfiguredStep
<1>9. CASE t.what = "configureFailed"
  <2>1. UNCHANGED <<cam, devices>>
    BY <1>9 DEF RunPost
  <2>2. QED BY <1>1, <1>3, <1>9, <2>1, ConfiguredStep
<1>10. QED BY <1>2, <1>4, <1>5, <1>6, <1>7, <1>8, <1>9 DEF Tasks

LEMMA CameraStepKeeps == ASSUME CameraInv, CameraStep, UNCHANGED pageVars PROVE CameraInv'
BY LoopEndsStep, RunPostStep, ViewComesStep, ServiceOpensStep, ServiceConfiguresStep
   DEF CameraStep

LEMMA CameraInvFollows == CameraInv => CameraFollowsPage
<1> SUFFICES ASSUME CameraInv, CameraQuiet, PageRuns, ~loading, Once
             PROVE  /\ screen \notin CaptureScreens =>
                         (Open = {} /\ ~previewOn) \/ unwatched \/ ~Uncrossed
                    /\ (screen \in CaptureScreens /\ view) =>
                         (Streaming /\ Open = {cam.camera}) \/ paused \/ trouble # {}
  BY DEF CameraFollowsPage, Once, Uncrossed
<1> USE DEF CameraInv
<1>1. /\ bridge = "idle" /\ uiStop = "idle" /\ calls = << >> /\ Opening = {}
      /\ \A d \in DOMAIN devices : devices[d].config # "asked"
      /\ ~Closing /\ ~Reopening /\ \A w, e : ~Posted(w, e)
  <2>1. posts = << >> /\ DOMAIN << >> = {}
    BY DEF CameraQuiet
  <2>2. ~Closing /\ ~Reopening /\ \A w, e : ~Posted(w, e)
    BY <2>1 DEF Closing, Reopening, Posted
  <2>3. QED BY <2>2 DEF CameraQuiet, PageRuns
<1>2. \A d \in Open : d \in DOMAIN devices /\ d = cam.camera /\ d # 0
  BY <1>1, CameraTypes DEF Open, DevicesInv, LifeInv
<1>3. ASSUME screen \notin CaptureScreens, ~unwatched, Uncrossed PROVE Open = {} /\ ~previewOn
  <2>1. ~previewOn
    BY <1>1, <1>3, ShortCalls DEF PageInv
  <2>2. ~cam.wanted
    BY <1>1, <1>3, <2>1 DEF WantedInv
  <2>3. cam.camera = 0
    BY <1>1, <2>2 DEF LoopInv
  <2>4. QED BY <1>2, <2>1, <2>3
<1>4. ASSUME screen \in CaptureScreens, view, ~paused, trouble = {}
      PROVE  Streaming /\ Open = {cam.camera}
  <2>1. previewOn /\ loops > 0 /\ Begun /\ Uncrossed /\ Unfailed
    BY <1>1, <1>4 DEF PageInv, LoopInv, StartSteps, Begun, Uncrossed, Unfailed
  <2>2. Open # {}
    BY <1>1, <1>4, <2>1 DEF ComingInv
  <2>3. cam.camera \in Open /\ Open = {cam.camera}
    BY <1>2, <2>2
  <2>4. devices[cam.camera] \in Devices /\ cam.camera \in DOMAIN devices
    BY <1>2, <2>3, CameraTypes
  <2>5. devices[cam.camera].config = "told"
    BY <1>1, <2>1, <2>3, <2>4 DEF DevicesInv, LifeInv, Devices, ComingInv, SessionInv
  <2>6. cam.session = cam.camera
    BY <1>1, <2>1, <2>3, <2>5 DEF ComingInv, SessionInv
  <2>7. QED BY <2>1, <2>3, <2>5, <2>6 DEF Streaming
<1>5. QED BY <1>3, <1>4

-----------------------------------------------------------------------------
(* The shell.                                                                 *)

IInv == LedInv /\ BridgeInv /\ CameraInv

LEMMA InitIInv == Init => IInv
BY LedInvInit, BridgeInvInit, CameraInvInit DEF Init, IInv

LEMMA LedOfMode == ASSUME NEW s PROVE LedOf(s) \in LedModes
BY DEF LedOf, LedModes

LEMMA StepIInv == IInv /\ [Next]_vars => IInv'
<1> SUFFICES ASSUME IInv, [Next]_vars PROVE IInv'
  OBVIOUS
<1> USE DEF IInv
<1>1. ASSUME NEW s \in Screens, Show(s) PROVE IInv'
  <2>1. SetLed(LedOf(s)) /\ UNCHANGED bridgeVars
    BY <1>1 DEF Show
  <2>2. QED BY <1>1, <2>1, LedOfMode, SetLedStep, BridgeKept, ShowStep
<1>2. CASE PageCalls
  <2>1. Call("camera") /\ UNCHANGED ledVars /\ "camera" \in Methods
    BY <1>2, Zenon DEF PageCalls, Methods
  <2>2. QED BY <1>2, <2>1, LedKept, CallStep, PageCallsStep
<1>3. ASSUME NEW method \in Methods, Ask(method) PROVE IInv'
  <2>1. Call(method) /\ UNCHANGED ledVars /\ UNCHANGED cameraVars /\ UNCHANGED pageVars
    BY <1>3 DEF Ask
  <2>2. PageInv'
    BY <2>1 DEF CameraInv, PageInv, pageVars, cameraVars
  <2>3. QED BY <2>1, <2>2, LedKept, CallStep, CameraKept
<1>4. CASE Load
  <2>1. /\ UNCHANGED ledVars /\ UNCHANGED bridgeVars /\ EnterUiStop /\ loading' = TRUE
        /\ UNCHANGED <<screen, calls, unwatched, paused>>
    BY <1>4 DEF Load
  <2>2. loading' \in BOOLEAN /\ paused' \in BOOLEAN
    BY <2>1 DEF CameraInv, PageInv
  <2>3. QED BY <2>1, <2>2, LedKept, BridgeKept, EnterUiStopStep
<1>5. CASE Replace
  <2>1. LoadPage /\ SetLed(LedOf("waiting"))
    BY <1>5 DEF Replace
  <2>2. QED BY <1>5, <2>1, LedOfMode, SetLedStep, LoadPageStep, ReplaceStep
<1>6. CASE Pause
  <2>1. /\ UNCHANGED ledVars /\ UNCHANGED bridgeVars /\ EnterUiStop /\ paused' = TRUE
        /\ UNCHANGED <<screen, calls, loading, unwatched>>
    BY <1>6 DEF Pause
  <2>2. loading' \in BOOLEAN /\ paused' \in BOOLEAN
    BY <2>1 DEF CameraInv, PageInv
  <2>3. QED BY <2>1, <2>2, LedKept, BridgeKept, EnterUiStopStep
<1>7. CASE PreviewCalls
  <2>1. UNCHANGED ledVars /\ UNCHANGED bridgeVars /\ UNCHANGED pageVars
    BY <1>7 DEF PreviewCalls
  <2>2. CameraInv'
    BY <1>7, <2>1, BridgeWantsStep, BridgePostsStep, BridgeExecutesStep, UiStopsStep
    DEF PreviewCalls, BridgeThread
  <2>3. QED BY <2>1, <2>2, LedKept, BridgeKept
<1>8. CASE Led
  <2>1. UNCHANGED cameraVars /\ UNCHANGED bridgeVars /\ UNCHANGED pageVars
    BY <1>8 DEF Led
  <2>2. LedInv'
    BY <1>8, LedStepKeeps DEF Led
  <2>3. PageInv'
    BY <2>1 DEF CameraInv, PageInv, pageVars, cameraVars
  <2>4. QED BY <2>1, <2>2, <2>3, BridgeKept, CameraKept
<1>9. CASE Camera
  <2>1. UNCHANGED ledVars /\ UNCHANGED bridgeVars /\ UNCHANGED pageVars
    BY <1>9 DEF Camera
  <2>2. CameraInv'
    BY <1>9, <2>1, CameraStepKeeps, ServiceFailsStep, PreviewFailsStep DEF Camera
  <2>3. QED BY <2>1, <2>2, LedKept, BridgeKept
<1>10. CASE Engine
  <2>1. UNCHANGED ledVars /\ UNCHANGED cameraVars /\ UNCHANGED pageVars /\ BridgeStep
    BY <1>10 DEF Engine
  <2>2. PageInv'
    BY <2>1 DEF CameraInv, PageInv, pageVars, cameraVars
  <2>3. QED BY <2>1, <2>2, LedKept, BridgeStepKeeps, CameraKept
<1>11. CASE UNCHANGED vars
  <2>1. UNCHANGED ledVars /\ UNCHANGED cameraVars /\ UNCHANGED bridgeVars /\ UNCHANGED pageVars
    BY <1>11 DEF vars
  <2>2. PageInv'
    BY <2>1 DEF CameraInv, PageInv, pageVars, cameraVars
  <2>3. QED BY <2>1, <2>2, LedKept, BridgeKept, CameraKept
<1>12. QED BY <1>1, <1>2, <1>3, <1>4, <1>5, <1>6, <1>7, <1>8, <1>9, <1>10, <1>11 DEF Next

LEMMA InvHolds == Spec => []IInv
BY InitIInv, StepIInv, PTL DEF Spec

\* Whatever screens are shown, pages loaded and requests made, the LED's, the
\* camera's and the bridge's fields and queues hold values of their types, and a
\* task of the UI thread names a device the service knows (LedController.java,
\* CameraHost.java, engine.ts).
THEOREM TypeCorrect == Spec => []TypeOK
<1>1. ASSUME PageInv PROVE calls \in Seq(BOOLEAN)
  <2>1. \A a, b \in BOOLEAN : <<a>> \in Seq(BOOLEAN) /\ <<a, b>> \in Seq(BOOLEAN)
    OBVIOUS
  <2>2. << >> \in Seq(BOOLEAN)
    OBVIOUS
  <2>3. calls \in {<< >>, <<FALSE>>, <<TRUE>>, <<FALSE, TRUE>>}
    BY <1>1 DEF PageInv
  <2>4. FALSE \in BOOLEAN /\ TRUE \in BOOLEAN
    OBVIOUS
  <2>5. QED BY <2>1, <2>2, <2>3, <2>4, Zenon
<1>2. IInv => TypeOK
  BY <1>1 DEF IInv, LedInv, BridgeInv, CameraInv, PageInv, TypeOK
<1>3. QED BY <1>2, InvHolds, PTL

\* Once every command is carried out the LED shows the last one on every pin that
\* the last write meant for it reached, but for a blue that a thread told to stop
\* wrote once more, and one thread at most blinks on: however many commands came,
\* in whatever order the threads wrote their pins and whichever writes threw and
\* left out the pins behind (LedController.java:54-96).
THEOREM LedIsTruthfulCorrect == Spec => []LedIsTruthful
<1>1. IInv => LedIsTruthful
  BY LedInvTruthful DEF IInv
<1>2. QED BY <1>1, InvHolds, PTL

\* When the camera has nothing left to do it streams while a FaceCapture is shown
\* and every device is closed otherwise, for any number of starts, stops, loads,
\* pauses and failures in any order, but for the crossings the property names
\* (CameraHost.java:137-261).
THEOREM CameraFollowsPageCorrect == Spec => []CameraFollowsPage
<1>1. IInv => CameraFollowsPage
  BY CameraInvFollows DEF IInv
<1>2. QED BY <1>1, InvHolds, PTL

\* No request of the page that is there is ever lost, and an answer resolves a
\* request of another kind only across a load, where it still cannot pass for a
\* match it is not (engine.ts:60-125).
THEOREM AnswersBelongCorrect == Spec => []AnswersBelong
<1>1. IInv => AnswersBelong
  BY DEF IInv, BridgeInv
<1>2. QED BY <1>1, InvHolds, PTL
=============================================================================
