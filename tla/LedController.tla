----------------------------- MODULE LedController -----------------------------
(* The LED of the device (LedController.java): one thread takes the page's     *)
(* commands in order, a thread of its own blinks, and a write sets three pins  *)
(* one after the other. set and release hold the monitor, the blinking thread  *)
(* does not. An action is one write of a pin or one look at the flags.         *)
EXTENDS Naturals, Sequences, FiniteSets

VARIABLES
  ledExec,   \* tasks of the LED's executor
  led,       \* the controller's fields, and what the holder of its monitor writes
  blinkers,  \* the threads blink started
  pins,      \* the pins that are lit
  stale,     \* a blinking thread wrote after it was stopped, since the last command
  missed     \* the pins that the last write meant for them may not have reached

ledVars == <<ledExec, led, blinkers, pins, stale, missed>>

LedModes == {"off", "blue_blink", "green", "red", "blue"}
Pins == {"red", "green", "blue"}

\* What a mode lights; blue_blink lights it half of the time.
Lit(mode) == CASE mode = "green" -> {"green"} [] mode = "red" -> {"red"}
               [] mode \in {"blue", "blue_blink"} -> {"blue"} [] OTHER -> {}

After(pin) == CASE pin = "red" -> "green" [] pin = "green" -> "blue" [] OTHER -> "idle"
From(pin) ==
  CASE pin = "red" -> Pins [] pin = "green" -> {"green", "blue"} [] OTHER -> {"blue"}

LedInit ==
  /\ ledExec = << "init" >>
  /\ led = [pc |-> "idle", mode |-> "off", ready |-> FALSE, blinking |-> FALSE, thread |-> 0]
  /\ blinkers = << >>
  /\ pins = {}
  /\ stale = FALSE /\ missed = {}

Switched(pin, on) == IF on THEN pins \cup {pin} ELSE pins \ {pin}

\* A setValue of write.
Light(pin, on) == pins' = Switched(pin, on) /\ missed' = missed \ {pin}

\* One that throws, though it may have reached the pin: write swallows it, and
\* the pins after it are left out.
LightThrows(pin, on) == pins' \in {pins, Switched(pin, on)} /\ missed' = missed \cup From(pin)

-----------------------------------------------------------------------------
\* LedBridge.set: the page's command is queued.
SetLed(mode) == ledExec' = Append(ledExec, mode) /\ UNCHANGED <<led, blinkers, pins, stale, missed>>

\* Enables the pins and puts them out, or there is no GPIO service.
InitLed(gpio) ==
  /\ ledExec # << >> /\ Head(ledExec) = "init" /\ led.pc = "idle"
  /\ led' = [led EXCEPT !.ready = gpio]
  /\ pins' = IF gpio THEN {} ELSE pins
  /\ ledExec' = Tail(ledExec)
  /\ UNCHANGED <<blinkers, stale, missed>>

StopBlinkWith(interrupt) ==
  [i \in DOMAIN blinkers |->
     [blinkers[i] EXCEPT !.interrupted = @ \/ (interrupt /\ i = led.thread)]]

\* Mutant: the flag alone stops the thread, and the next blink sets it again.
StopBlinkUninterrupted == StopBlinkWith(FALSE)

\* stopBlink, besides the two fields it resets: nobody waits for the thread.
StopBlink == StopBlinkWith(TRUE)

\* set: a new thread blinks, or the pins are written under the monitor.
Set(mode) ==
  /\ led.pc = "idle"
  /\ stale' = FALSE
  /\ IF mode = "blue_blink" /\ led.ready
       THEN /\ blinkers' = Append(StopBlink, [pc |-> "check", on |-> TRUE, interrupted |-> FALSE])
            /\ led' = [led EXCEPT !.mode = mode, !.blinking = TRUE, !.thread = Len(blinkers) + 1]
       ELSE /\ blinkers' = StopBlink
            /\ led' = [led EXCEPT !.mode = mode, !.blinking = FALSE, !.thread = 0,
                                  !.pc = IF led.ready THEN "red" ELSE "idle"]
  /\ UNCHANGED <<pins, missed>>

RunSet ==
  /\ ledExec # << >> /\ Head(ledExec) # "init"
  /\ Set(Head(ledExec))
  /\ ledExec' = Tail(ledExec)

\* write, by the holder of the monitor.
WritePin ==
  /\ led.pc \in Pins
  /\ Light(led.pc, led.pc \in Lit(led.mode))
  /\ led' = [led EXCEPT !.pc = After(led.pc)]
  /\ UNCHANGED <<ledExec, blinkers, stale>>

WriteThrows ==
  /\ led.pc \in Pins
  /\ LightThrows(led.pc, led.pc \in Lit(led.mode))
  /\ led' = [led EXCEPT !.pc = "idle"]
  /\ UNCHANGED <<ledExec, blinkers, stale>>

\* The blinking thread: looks at the flags, writes, sleeps. An interrupt ends
\* the sleep and the thread, but not a write that has begun.
BlinkerChecks(i) ==
  /\ blinkers[i].pc = "check"
  /\ blinkers' = [blinkers EXCEPT ![i].pc =
                    IF led.blinking /\ ~blinkers[i].interrupted THEN "red" ELSE "done"]
  /\ UNCHANGED <<ledExec, led, pins, stale, missed>>

\* After its write, got through or not, it sleeps and turns the light over.
BlinkerAt(i, pc) ==
  /\ stale' = (stale \/ i # led.thread)
  /\ blinkers' = [blinkers EXCEPT ![i].pc = pc, ![i].on = IF pc = "sleep" THEN ~@ ELSE @]
  /\ UNCHANGED <<ledExec, led>>

BlinkerWrites(i) ==
  LET b == blinkers[i] IN
  /\ b.pc \in Pins
  /\ Light(b.pc, b.on /\ b.pc = "blue")
  /\ BlinkerAt(i, IF b.pc = "blue" THEN "sleep" ELSE After(b.pc))

BlinkerWriteThrows(i) ==
  LET b == blinkers[i] IN
  /\ b.pc \in Pins
  /\ LightThrows(b.pc, b.on /\ b.pc = "blue")
  /\ BlinkerAt(i, "sleep")

BlinkerWakes(i) ==
  /\ blinkers[i].pc = "sleep"
  /\ blinkers' = [blinkers EXCEPT ![i].pc = IF @ = "sleep" /\ blinkers[i].interrupted
                                              THEN "done" ELSE "check"]
  /\ UNCHANGED <<ledExec, led, pins, stale, missed>>

LedStep ==
  \/ RunSet \/ WritePin
  \/ \E i \in DOMAIN blinkers : BlinkerChecks(i) \/ BlinkerWrites(i) \/ BlinkerWakes(i)

\* The GPIO service is another process, reached over TCP.
LedFails == WriteThrows \/ \E i \in DOMAIN blinkers : BlinkerWriteThrows(i)

-----------------------------------------------------------------------------
Blinking == {i \in DOMAIN blinkers : blinkers[i].pc # "done" /\ ~blinkers[i].interrupted}

\* Every command is carried out and no stopped thread has anything left to write.
LedQuiet ==
  /\ ledExec = << >> /\ led.pc = "idle" /\ led.ready
  /\ \A i \in DOMAIN blinkers :
       blinkers[i].pc = IF i \in Blinking THEN "sleep" ELSE "done"

LedTypeOK ==
  /\ ledExec \in Seq(LedModes \cup {"init"})
  /\ led \in [pc : Pins \cup {"idle"}, mode : LedModes, ready : BOOLEAN, blinking : BOOLEAN,
              thread : 0..Len(blinkers)]
  /\ blinkers \in Seq([pc : Pins \cup {"check", "sleep", "done"}, on : BOOLEAN,
                       interrupted : BOOLEAN])
  /\ pins \subseteq Pins /\ missed \subseteq Pins /\ stale \in BOOLEAN
=============================================================================
