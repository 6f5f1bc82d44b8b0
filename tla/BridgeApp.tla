----------------------------- MODULE BridgeApp -----------------------------
(***************************************************************************)
(* The bridge engine behind its window (src/main_windows.go).  The GUI     *)
(* thread handles one message at a time: a click on an enabled control, or *)
(* the 500 ms timer that takes a snapshot of the engine and updates what   *)
(* differs from the snapshot before.  Between two timer messages the       *)
(* controls are those of an earlier snapshot, so that a command can meet   *)
(* an engine its control would no longer allow.                            *)
(***************************************************************************)
EXTENDS BridgeEngine

VARIABLES
  last,       \* gui.last: the fields of the last snapshot used here
  stopOn,     \* the Stop button is enabled
  combo       \* what the CDU selector shows

guiVars == <<last, stopOn, combo>>
appVars == <<vars, guiVars>>

Snapshot == [requested |-> requested, testRunning |-> testRunning, cdu |-> cdu]

\* Start, Test display and the CDU selector are enabled together.
IdleOn == ~last.requested /\ ~last.testRunning

AppInit ==
  /\ Init
  /\ last = Snapshot /\ combo = cdu
  /\ stopOn = TRUE     \* enabled when created, and a first update keeps it so

\* Mutant: a change of requested alone does not update the Stop button.
RefreshOnTestOnly ==
  /\ ~stop
  /\ stopOn' = IF testRunning # last.testRunning THEN requested ELSE stopOn
  /\ combo' = IF cdu # last.cdu THEN cdu ELSE combo
  /\ last' = Snapshot
  /\ UNCHANGED vars

\* Mutant: a snapshot with the same requested flag is taken for no change.
RefreshReturnsEarly ==
  /\ ~stop
  /\ stopOn' = requested
  /\ combo' = IF cdu # last.cdu THEN cdu ELSE combo
  /\ last' = IF requested = last.requested THEN last ELSE Snapshot
  /\ UNCHANGED vars

\* updateGUI: only what changed since the last snapshot is touched.
Refresh ==
  /\ ~stop
  /\ stopOn' = IF \/ requested # last.requested
                  \/ testRunning # last.testRunning
               THEN requested ELSE stopOn
  /\ combo' = IF cdu # last.cdu THEN cdu ELSE combo
  /\ last' = Snapshot
  /\ UNCHANGED vars

ClickStart == IdleOn /\ SetRequested(TRUE) /\ UNCHANGED guiVars

ClickStop == stopOn /\ SetRequested(FALSE) /\ UNCHANGED guiVars

\* The selector changes first; setCDU then ignores the choice if requested.
ChooseCDU(s) ==
  /\ IdleOn /\ ~stop /\ combo # s
  /\ combo' = s
  /\ SetCDU(s) \/ (requested /\ UNCHANGED vars)
  /\ UNCHANGED <<last, stopOn>>

TickAuto(v) == v # autoStart /\ SetAutoStart(v) /\ UNCHANGED guiVars

\* startTestDisplay returns at once when requested or already testing.
ClickTest == IdleOn /\ StartTest /\ UNCHANGED guiVars

\* WM_CLOSE: the timer is killed, Stop is called, the message loop ends.
CloseWindow == Quit /\ UNCHANGED guiVars

Gui == \/ Refresh \/ ClickStart \/ ClickStop \/ ClickTest \/ CloseWindow
       \/ \E s \in Side : ChooseCDU(s)
       \/ \E v \in BOOLEAN : TickAuto(v)

\* Everything that is not the GUI thread.
Others == /\ Loop \/ Test \/ World \/ (\E c \in Conn : ReaderExit(c))
          /\ UNCHANGED guiVars

AppNext == Gui \/ Others

AppSpec == AppInit /\ [][AppNext]_appVars

\* The engine's fairness, and a timer that keeps firing while there is a window.
AppFairness == Fairness /\ WF_appVars(Refresh)

FairAppSpec == AppSpec /\ AppFairness

-----------------------------------------------------------------------------
(* Properties *)

\* A running bridge can always be stopped: updates that look only at
\* differences never leave Stop disabled while the bridge is requested, however
\* auto-start, clicks and timer messages interleave (main_windows.go:594-603).
StopOffered == requested ~> (stopOn \/ ~requested \/ stop)

\* And a bridge that stays stopped with no test display running can be started.
StartOffered == <>[](~requested /\ ~testRunning /\ ~stop) => <>[]IdleOn

\* Claimed by RELEASE-NOTES-1.0.0.md:59, "automatic-connect/Test display
\* mutual exclusion": a test display and a requested bridge exclude each other.
TestExclusion == ~(testRunning /\ requested)

\* Claimed by INSTALLATION-AND-QUICK-START.md:84, "The selected CDU determines
\* which configured memory layout and MobiFlight endpoint is used".  Between two
\* steps of a requested bridge, when the CDU cannot be changed any more, the
\* layout and with it the endpoint are those of the CDU selected.
SelectedCduUsed ==
  (pc = "select" /\ requested /\ handle # Nil) => layout = cdu

\* The same claim about the selector the user sees: once the window has caught
\* up with the engine, it shows the CDU the engine works with.
SelectorShowsCdu == (last = Snapshot /\ requested) => combo = cdu
=============================================================================
