--------------------------- MODULE MCDeviceShell ---------------------------
(* A small instance of DeviceShell. A behaviour has one of several budgets,  *)
(* and most of them let one part of the shell run.                          *)
EXTENDS DeviceShell

MCCaptureScreens == {"enroll", "auth"}
MCScreens == {"waiting", "detecting", "registerPrompt", "lcdOk"} \cup MCCaptureScreens

Captures == {"waiting"} \cup MCCaptureScreens

Budget(s, l, p, f, a, screens, parts) ==
  [counts |-> [shows |-> s, loads |-> l, pauses |-> p, failures |-> f, asks |-> a],
   screens |-> screens, parts |-> parts]

MCBudgets ==
  { Budget(4, 0, 0, 0, 0, MCScreens \ MCCaptureScreens, {"led"}),
    Budget(3, 0, 0, 2, 0, MCScreens \ MCCaptureScreens, {"led"}),
    Budget(3, 0, 0, 0, 0, Captures, {"camera"}),
    Budget(2, 0, 1, 0, 0, {"waiting", "auth"}, {"camera"}),
    Budget(2, 1, 0, 1, 0, {"waiting", "auth"}, {"camera"}),
    Budget(2, 1, 0, 0, 2, Captures, {"engine"}) }
=============================================================================
