------------------------------ MODULE DeviceShell ------------------------------
(* The terminal's device: the page's screen drives the LED, the camera and the *)
(* engine through the shell's bridges; the operator's CLI loads other pages    *)
(* and Android pauses the activity, both on the UI thread.                     *)
EXTENDS LedController, CameraHost, EngineBridge

CONSTANTS
  Screens,        \* the page's screens
  CaptureScreens, \* those that show a FaceCapture
  Budgets         \* bounds: how often each of Kinds may happen in a behaviour,
                  \* the screens shown and the parts of the shell that run in it

\* Screens shown, pages loaded, pauses, failures of the camera and the LED,
\* requests to the engine.
Kinds == {"shows", "loads", "pauses", "failures", "asks"}
Parts == {"led", "camera", "engine"}

ASSUME DeviceAssumption ==
  /\ "waiting" \in Screens /\ CaptureScreens \subseteq Screens \ {"waiting"}
  /\ Budgets \subseteq [counts : [Kinds -> Nat], screens : SUBSET Screens, parts : SUBSET Parts]

VARIABLES
  screen,    \* the page's screen
  calls,     \* camera calls the page's effects still have to make: start or stop
  loading,   \* a load has begun
  unwatched, \* the camera started for a page that was being replaced
  paused,    \* the activity was paused since the page last called
  left       \* what is left of each bound

pageVars == <<screen, calls, loading, unwatched, paused>>
vars == <<ledVars, cameraVars, bridgeVars, pageVars, left>>

Init ==
  /\ LedInit /\ CameraInit /\ BridgeInit
  /\ screen = "waiting" /\ calls = << >>
  /\ loading = FALSE /\ unwatched = FALSE /\ paused = FALSE
  /\ left \in Budgets

Use(kind) ==
  /\ left.counts[kind] > 0
  /\ left' = [left EXCEPT !.counts[kind] = @ - 1]

\* The page's effect on the LED; the screen "lcd" is two here, by its result.
LedOf(s) ==
  CASE s \in {"detecting", "paying"} \cup CaptureScreens -> "blue_blink"
    [] s \in {"balance", "lcdOk"} -> "green"
    [] s \in {"registerPrompt", "lcdFailed"} -> "red"
    [] OTHER -> "off"

\* The page's thread waits for each of its calls.
PageRuns == calls = << >> /\ bridge = "idle"

-----------------------------------------------------------------------------
\* The page changes its screen: leaving a FaceCapture stops the camera, entering
\* one starts it.
Show(s) ==
  /\ PageRuns /\ s \in left.screens \ {screen} /\ Use("shows")
  /\ screen' = s
  /\ SetLed(LedOf(s))
  /\ calls' = [i \in 1..Cardinality({screen} \cap CaptureScreens) |-> FALSE]
                \o [i \in 1..Cardinality({s} \cap CaptureScreens) |-> TRUE]
  /\ UNCHANGED <<cameraVars, bridgeVars, loading, unwatched, paused>>

PageCalls ==
  /\ calls # << >>
  /\ CallCamera(Head(calls))
  /\ Call("camera")
  /\ calls' = Tail(calls)
  /\ paused' = FALSE
  /\ unwatched' = (unwatched /\ Head(calls))
  /\ UNCHANGED <<ledVars, screen, loading, left>>

\* The status poll, the probe loop and the capture.
Ask(method) ==
  /\ PageRuns /\ Use("asks")
  /\ \/ method = "status"
     \/ method = "probe" /\ screen \in CaptureScreens
     \/ method = "register" /\ screen = "enroll"
     \/ method = "match" /\ screen = "auth"
  /\ Call(method)
  /\ UNCHANGED <<ledVars, cameraVars, pageVars>>

\* load, with the page it asks for still to come.
Load ==
  /\ ~loading /\ Use("loads")
  /\ EnterUiStop
  /\ loading' = TRUE
  /\ UNCHANGED <<ledVars, bridgeVars, screen, calls, unwatched, paused>>

\* The new page takes the old one's place, which does not clean up after itself.
Replace ==
  /\ loading /\ uiStop = "idle"
  /\ LoadPage
  /\ screen' = "waiting" /\ calls' = << >>
  /\ SetLed(LedOf("waiting"))
  /\ unwatched' = (previewOn \/ bridge \in StartSteps)
  /\ loading' = FALSE /\ paused' = FALSE
  /\ UNCHANGED <<cameraVars, left>>

\* onPause; nothing starts the preview again when the activity resumes.
Pause ==
  /\ Use("pauses")
  /\ EnterUiStop
  /\ paused' = TRUE
  /\ UNCHANGED <<ledVars, bridgeVars, screen, calls, loading, unwatched>>

Led ==
  /\ "led" \in left.parts
  /\ \/ (LedStep \/ \E gpio \in BOOLEAN : InitLed(gpio)) /\ UNCHANGED left
     \/ LedFails /\ Use("failures")
  /\ UNCHANGED <<cameraVars, bridgeVars, pageVars>>

\* startPreview and stopPreview go on, on the thread that began them.
PreviewCalls == (BridgeThread \/ UiStops) /\ UNCHANGED <<ledVars, bridgeVars, pageVars, left>>

Camera ==
  /\ "camera" \in left.parts
  /\ \/ CameraStep /\ UNCHANGED left
     \/ Use("failures") /\ (PreviewFails \/ \E d \in DOMAIN devices : ServiceFails(d))
  /\ UNCHANGED <<ledVars, bridgeVars, pageVars>>

Engine == "engine" \in left.parts /\ BridgeStep /\ UNCHANGED <<ledVars, cameraVars, pageVars, left>>

Next ==
  \/ \E s \in Screens : Show(s)
  \/ PageCalls
  \/ \E method \in Methods \ {"camera"} : Ask(method)
  \/ Load \/ Replace \/ Pause
  \/ PreviewCalls \/ Led \/ Camera \/ Engine

Spec == Init /\ [][Next]_vars

-----------------------------------------------------------------------------
(* Properties.                                                                *)

\* The shape of the state.
TypeOK ==
  /\ LedTypeOK /\ CameraTypeOK /\ BridgeTypeOK
  /\ screen \in Screens /\ calls \in Seq(BOOLEAN)
  /\ {loading, unwatched, paused} \subseteq BOOLEAN

\* When every command is carried out, the LED shows what the last one asked for
\* on every pin that the last write meant for it reached: a setValue that throws
\* is swallowed, with the pins after it. A blinking thread that was told to stop
\* may write once more over it; even then no such pin is green or red without
\* the command, and one thread at most blinks on (LedController.java:54-96).
LedIsTruthful ==
  /\ Cardinality(Blinking) <= 1
  /\ LedQuiet =>
       /\ pins \subseteq Lit(led.mode) \cup {"blue"} \cup missed
       /\ led.mode = "blue_blink" => Blinking = {led.thread}
       /\ led.mode # "blue_blink" =>
            Blinking = {} /\ (pins \ missed = Lit(led.mode) \ missed \/ stale)

\* When the camera is done, it streams while a FaceCapture is shown and every
\* device is closed otherwise, whatever starts and stops overlapped before. What
\* can keep it on: it was started for a page about to be replaced, or a load or
\* a pause crossed a start. What can keep it off: a pause, such a crossing or a
\* failure since the preview came on, which a page that replaces another does not
\* start anew. After a device was opened while another was still opening, neither
\* is promised (CameraHost.java:137-261).
CameraFollowsPage ==
  (CameraQuiet /\ PageRuns /\ ~loading /\ "twice" \notin trouble) =>
    /\ screen \notin CaptureScreens =>
         (Open = {} /\ ~previewOn) \/ unwatched \/ "crossed" \in trouble
    /\ (screen \in CaptureScreens /\ view) =>
         (Streaming /\ Open = {cam.camera}) \/ paused \/ trouble # {}

\* A request of the page that is there is still to be served or answered; within
\* a page it is resolved by the answer to a request of its kind. After a load an
\* answer to the old page may resolve it, also one to another kind of request,
\* but a match still succeeds only on a match, and a registration only when the
\* engine learned or recognized a face (engine.ts:60-125).
AnswersBelong ==
  /\ \A r \in page.pending : r.from = page.n /\ r \in InFlight
  /\ resolved.from = resolved.page => resolved.by = resolved.asked
  /\ (resolved.good /\ resolved.asked = "match") => resolved.by = "match"
  /\ (resolved.good /\ resolved.asked = "register") => resolved.by \in {"register", "match"}
=============================================================================
