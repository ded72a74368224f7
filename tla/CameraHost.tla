------------------------------ MODULE CameraHost ------------------------------
(* The front camera (CameraHost.java) and the preview (MainActivity): the page *)
(* asks on the bridge's thread, load and onPause stop on the UI thread, and    *)
(* the camera service answers through the UI thread's queue. An action is one  *)
(* task of the UI thread or one assignment of a thread that shares fields.     *)
EXTENDS Naturals, Sequences, FiniteSets

VARIABLES
  cam,       \* CameraHost's fields: wanted, camera and session, by device, 0 for null
  view,      \* the TextureView is available
  devices,   \* the devices the service opened for us, and the session asked of each
  posts,     \* tasks of the UI thread
  previewOn, \* MainActivity's flag
  loops,     \* tasks of the preview's executor, the first one running
  bridge,    \* the step of a startPreview or stopPreview on the bridge's thread
  uiStop,    \* the step of a stopPreview on the UI thread
  trouble    \* what has gone wrong with the camera so far

cameraVars == <<cam, view, devices, posts, previewOn, loops, bridge, uiStop, trouble>>

Tasks == {"open", "close", "opened", "gone", "configured", "configureFailed"}
Troubles == {"twice", "crossed", "failed"}

CameraInit ==
  /\ cam = [wanted |-> FALSE, camera |-> 0, session |-> 0]
  /\ view = FALSE
  /\ devices = << >>
  /\ posts = << >>
  /\ previewOn = FALSE /\ loops = 0
  /\ bridge = "idle" /\ uiStop = "idle"
  /\ trouble = {}

Task(what, d) == [what |-> what, device |-> d]
Post(what, d) == posts' = Append(posts, Task(what, d))
Opening == {d \in DOMAIN devices : devices[d].state = "opening"}
Open == {d \in DOMAIN devices : devices[d].state = "open"}

-----------------------------------------------------------------------------
(* startPreview and stopPreview, on the bridge's thread or the UI thread.      *)

StartSteps == {"startWanted", "startPost", "execute"}

\* A stop makes up for what went wrong before it, but for a device opened twice;
\* a start makes up for a device that failed, unless the preview is already on.
Healed(start) ==
  trouble \ CASE ~start -> {"failed", "crossed"}
               [] start /\ ~previewOn -> {"failed"}
               [] OTHER -> {}

EnterBridge(start) ==
  /\ bridge' = IF ~start THEN "stopWanted" ELSE IF previewOn THEN "idle" ELSE "startWanted"
  /\ previewOn' = start
  /\ trouble' = Healed(start) \cup {x \in {"crossed"} : start /\ uiStop # "idle"}

CallCamera(start) ==
  /\ bridge = "idle"
  /\ EnterBridge(start)
  /\ UNCHANGED <<cam, view, devices, posts, loops, uiStop>>

BridgeWants ==
  /\ bridge \in {"startWanted", "stopWanted"}
  /\ cam' = [cam EXCEPT !.wanted = bridge = "startWanted"]
  /\ bridge' = IF bridge = "startWanted" THEN "startPost" ELSE "stopPost"
  /\ UNCHANGED <<view, devices, posts, previewOn, loops, uiStop, trouble>>

BridgePosts ==
  /\ bridge \in {"startPost", "stopPost"}
  /\ Post(IF bridge = "startPost" THEN "open" ELSE "close", 0)
  /\ bridge' = IF bridge = "startPost" THEN "execute" ELSE "idle"
  /\ UNCHANGED <<cam, view, devices, previewOn, loops, uiStop, trouble>>

BridgeExecutes ==
  /\ bridge = "execute"
  /\ loops' = loops + 1
  /\ bridge' = "idle"
  /\ UNCHANGED <<cam, view, devices, posts, previewOn, uiStop, trouble>>

EndLoop(ends) ==
  /\ ends /\ ~previewOn
  /\ loops' = loops - 1
  /\ UNCHANGED <<cam, view, devices, posts, previewOn, bridge, uiStop, trouble>>

\* Mutant: a loop that has ended ends again.
LoopEndsAgain == EndLoop(loops \in Nat)

\* The preview's loop looks at the flag once a round and ends when it is off.
LoopEnds == EndLoop(loops > 0)

EnterUiStop ==
  /\ uiStop = "idle"
  /\ uiStop' = "wanted"
  /\ previewOn' = FALSE
  /\ trouble' = trouble \cup {x \in {"crossed"} : bridge \in StartSteps}
  /\ UNCHANGED <<cam, view, devices, posts, loops, bridge>>

UiStops ==
  /\ \/ /\ uiStop = "wanted" /\ uiStop' = "post"
        /\ cam' = [cam EXCEPT !.wanted = FALSE] /\ UNCHANGED posts
     \/ /\ uiStop = "post" /\ uiStop' = "idle"
        /\ Post("close", 0) /\ UNCHANGED cam
  /\ UNCHANGED <<view, devices, previewOn, loops, bridge, trouble>>

-----------------------------------------------------------------------------
(* The UI thread's tasks.                                                      *)

\* openCamera: a device that is still opening is not in the field, and the
\* field is all it looks at.
OpenCamera(available) ==
  /\ IF cam.wanted /\ cam.camera = 0 /\ available
       THEN /\ devices' = Append(devices, [state |-> "opening", config |-> "none"])
            /\ trouble' = trouble \cup {x \in {"twice"} : Opening \cup Open # {}}
       ELSE UNCHANGED <<devices, trouble>>
  /\ UNCHANGED cam

\* closeCamera, with the device d in the field.
CloseCamera(d) ==
  /\ cam' = [cam EXCEPT !.camera = 0, !.session = 0]
  /\ devices' = [i \in DOMAIN devices |->
                   IF i = d THEN [devices[i] EXCEPT !.state = "closed"] ELSE devices[i]]

\* onOpened: the device replaces the field, whatever it held.
OnOpenedWith(d, wanted) ==
  IF ~wanted THEN CloseCamera(d)
  ELSE /\ cam' = [cam EXCEPT !.camera = d]
       /\ devices' = [devices EXCEPT ![d].config = "asked"]

\* Mutant: a device that opens after the stop is kept.
OnOpenedUnasked(d) == OnOpenedWith(d, TRUE)

OnOpened(d) == OnOpenedWith(d, cam.wanted)

\* onDisconnected and onError: the field is cleared, whatever it holds, and the
\* session is kept.
OnGone(d) ==
  /\ cam' = [cam EXCEPT !.camera = 0]
  /\ devices' = [devices EXCEPT ![d].state = "closed"]

\* onConfigured, with the request for its frames accepted.
OnConfigured(d) ==
  /\ cam' = IF cam.camera = 0 THEN cam ELSE [cam EXCEPT !.session = d]
  /\ UNCHANGED devices

RunPost ==
  /\ uiStop = "idle" /\ posts # << >>
  /\ LET t == Head(posts) IN
     /\ posts' = Tail(posts)
     /\ t.what # "open" => UNCHANGED trouble
     /\ CASE t.what = "open" -> OpenCamera(view)
          [] t.what = "close" -> CloseCamera(cam.camera)
          [] t.what = "opened" -> OnOpened(t.device)
          [] t.what = "gone" -> OnGone(t.device)
          [] t.what = "configured" -> OnConfigured(t.device)
          [] OTHER -> UNCHANGED <<cam, devices>>
  /\ UNCHANGED <<view, previewOn, loops, bridge, uiStop>>

\* onConfigured, with setRepeatingRequest refused: the session is kept all the
\* same, and shows nothing.
PreviewFails ==
  /\ uiStop = "idle" /\ posts # << >>
  /\ LET t == Head(posts) IN
     /\ t.what = "configured" /\ cam.camera # 0
     /\ posts' = Tail(posts)
     /\ cam' = [cam EXCEPT !.session = t.device]
     /\ devices' = [devices EXCEPT ![t.device].config = "refused"]
  /\ trouble' = trouble \cup {"failed"}
  /\ UNCHANGED <<view, previewOn, loops, bridge, uiStop>>

\* onSurfaceTextureAvailable.
ViewComes ==
  /\ ~view /\ uiStop = "idle"
  /\ view' = TRUE
  /\ OpenCamera(TRUE)
  /\ UNCHANGED <<posts, previewOn, loops, bridge, uiStop>>

-----------------------------------------------------------------------------
(* The camera service: it opens a device, taking the camera from an older one  *)
(* or refusing the newer, configures its session, or loses it.                 *)

Tell(what, d, device) ==
  /\ devices' = [devices EXCEPT ![d] = device]
  /\ Post(what, d)
  /\ UNCHANGED <<cam, view, previewOn, loops, bridge, uiStop>>

Lost(d) == [devices[d] EXCEPT !.state = "lost"]

Evict(old, d) ==
  /\ devices' = [devices EXCEPT ![old] = Lost(old), ![d].state = "open"]
  /\ posts' = posts \o << Task("gone", old), Task("opened", d) >>
  /\ UNCHANGED <<cam, view, previewOn, loops, bridge, uiStop>>

ServiceOpens(d) ==
  /\ d \in Opening
  /\ \/ Open = {} /\ Tell("opened", d, [devices[d] EXCEPT !.state = "open"])
     \/ \E old \in Open : Evict(old, d)
     \/ Open # {} /\ Tell("gone", d, Lost(d))
  /\ UNCHANGED trouble

Configured(d) == [devices[d] EXCEPT !.config = "told"]

ServiceConfigures(d) ==
  /\ devices[d].config = "asked"
  /\ Tell(IF d \in Open THEN "configured" ELSE "configureFailed", d, Configured(d))
  /\ UNCHANGED trouble

\* A device that cannot be opened, is lost, or whose session cannot be configured.
ServiceFails(d) ==
  /\ \/ d \in Opening \cup Open /\ Tell("gone", d, Lost(d))
     \/ devices[d].config = "asked" /\ Tell("configureFailed", d, Configured(d))
  /\ trouble' = trouble \cup {"failed"}

BridgeThread == BridgeWants \/ BridgePosts \/ BridgeExecutes

CameraStep ==
  \/ LoopEnds \/ RunPost \/ ViewComes
  \/ \E d \in DOMAIN devices : ServiceOpens(d) \/ ServiceConfigures(d)

-----------------------------------------------------------------------------
CameraQuiet ==
  /\ bridge = "idle" /\ uiStop = "idle" /\ posts = << >>
  /\ Opening = {} /\ \A d \in DOMAIN devices : devices[d].config # "asked"

Streaming ==
  /\ cam.camera \in Open /\ cam.session = cam.camera /\ loops > 0
  /\ devices[cam.camera].config # "refused"

CameraTypeOK ==
  /\ cam \in [wanted : BOOLEAN, camera : 0..Len(devices), session : 0..Len(devices)]
  /\ view \in BOOLEAN /\ previewOn \in BOOLEAN /\ loops \in Nat
  /\ devices \in Seq([state : {"opening", "open", "lost", "closed"},
                      config : {"none", "asked", "told", "refused"}])
  /\ posts \in Seq([what : Tasks, device : 0..Len(devices)])
  /\ bridge \in {"idle", "stopWanted", "stopPost"} \cup StartSteps
  /\ uiStop \in {"idle", "wanted", "post"}
  /\ trouble \subseteq Troubles
=============================================================================
