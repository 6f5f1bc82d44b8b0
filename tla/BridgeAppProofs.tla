--------------------------- MODULE BridgeAppProofs ---------------------------
(***************************************************************************)
(* The window adds no behaviour to the engine: every step of BridgeApp is  *)
(* a step of BridgeEngine or leaves its state unchanged.  What is proved   *)
(* of the engine therefore holds of the program the user works with, and   *)
(* in particular what OutputSession promises to the endpoints.             *)
(***************************************************************************)
EXTENDS BridgeApp, BridgeSessionProofs

LEMMA GuiCommands == Gui => [Next]_vars
<1> SUFFICES ASSUME Gui PROVE [Next]_vars
  OBVIOUS
<1>1. CASE Refresh
  BY <1>1 DEF Refresh
<1>2. CASE ClickStart \/ ClickStop \/ ClickTest \/ CloseWindow
  BY <1>2 DEF ClickStart, ClickStop, ClickTest, CloseWindow, Next, User
<1>3. CASE \E s \in Side : ChooseCDU(s)
  BY <1>3 DEF ChooseCDU, Next, User
<1>4. CASE \E v \in BOOLEAN : TickAuto(v)
  BY <1>4 DEF TickAuto, Next, User
<1> QED
  BY <1>1, <1>2, <1>3, <1>4 DEF Gui

LEMMA AppSteps == [AppNext]_appVars => [Next]_vars
<1> SUFFICES ASSUME [AppNext]_appVars PROVE [Next]_vars
  OBVIOUS
<1>1. CASE Gui
  BY <1>1, GuiCommands
<1>2. CASE Others
  BY <1>2 DEF Others, Next
<1>3. CASE UNCHANGED appVars
  BY <1>3 DEF appVars
<1> QED
  BY <1>1, <1>2, <1>3 DEF AppNext

\* Behind its window the engine does nothing it could not do without
\* (main_windows.go:443-515, 579-632).
THEOREM AppIsEngine == AppSpec => Spec
<1>1. AppInit => Init
  BY DEF AppInit
<1> QED
  BY <1>1, AppSteps, PTL DEF AppSpec, Spec

\* The inductive invariant of the engine, and with it all its safety properties,
\* hold whatever the user clicks and whenever the window is updated.
THEOREM AppKeepsInvariant == AppSpec => []EngineInv
  BY AppIsEngine, EngineInvariant, PTL

\* The program as a whole keeps what OutputSession promises to the endpoints.
THEOREM AppImplementsOutput == AppSpec => ImplementsOutput
  BY AppIsEngine, EngineImplementsOutput, PTL

\* What the window remembers is a snapshot of the engine, and while it remembers a
\* requested bridge the Stop button is enabled: an update that touches only what
\* differs from the snapshot before misses no difference.
WindowInv ==
  /\ last \in [requested : BOOLEAN, testRunning : BOOLEAN, cdu : Side]
  /\ stopOn \in BOOLEAN /\ combo \in Side
  /\ last.requested => stopOn

LEMMA WindowNext == TypeOK /\ WindowInv /\ [AppNext]_appVars => WindowInv'
<1> SUFFICES ASSUME TypeOK, WindowInv, [AppNext]_appVars PROVE WindowInv'
  OBVIOUS
<1>1. Snapshot \in [requested : BOOLEAN, testRunning : BOOLEAN, cdu : Side]
  BY DEF TypeOK, Booleans, EngineTypes, Snapshot
<1>2. CASE Refresh
  <2>1. stopOn' \in BOOLEAN /\ combo' \in Side /\ last' = Snapshot
    BY <1>1, <1>2 DEF Refresh, WindowInv, TypeOK, Booleans, EngineTypes
  <2>2. requested => stopOn'
    <3>1. CASE requested # last.requested \/ testRunning # last.testRunning
      BY <1>2, <3>1 DEF Refresh
    <3>2. CASE requested = last.requested /\ testRunning = last.testRunning
      BY <1>2, <3>2 DEF Refresh, WindowInv
    <3> QED
      BY <3>1, <3>2
  <2> QED
    BY <1>1, <2>1, <2>2 DEF WindowInv, Snapshot
<1>3. CASE \E s \in Side : ChooseCDU(s)
  BY <1>3 DEF ChooseCDU, WindowInv
<1>4. CASE UNCHANGED guiVars
  BY <1>4 DEF guiVars, WindowInv
<1>5. ASSUME AppNext PROVE Refresh \/ (\E s \in Side : ChooseCDU(s)) \/ UNCHANGED guiVars
  BY <1>5 DEF AppNext, Gui, Others, ClickStart, ClickStop, ClickTest, CloseWindow,
              TickAuto
<1> QED
  BY <1>2, <1>3, <1>4, <1>5 DEF appVars

\* A window that has seen the bridge requested offers Stop, however commands,
\* auto-start and updates interleave (main_windows.go:594-603).
THEOREM WindowOffersStop == AppSpec => []WindowInv
<1>1. AppInit /\ TypeOK => WindowInv
  BY DEF AppInit, WindowInv, Snapshot, TypeOK, Booleans, EngineTypes
<1>2. EngineInv => TypeOK
  BY DEF EngineInv
<1> QED
  BY <1>1, <1>2, WindowNext, AppKeepsInvariant, PTL DEF AppSpec
=============================================================================
