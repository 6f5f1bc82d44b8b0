------------------------------- MODULE Startup ------------------------------
(***************************************************************************)
(* The life of the program around the bridge: starts and ends of its       *)
(* processes, the settings they share, and the check for updates of the    *)
(* one that runs (main in main_windows.go, newBridgeEngine).               *)
(***************************************************************************)
EXTENDS Settings, UpdateCheck

vars == <<setVars, updVars>>

Up(i) == phase[i] \in {"up", "write"}

\* newBridgeEngine ends with loading the settings and a first check.
Boot(i) == Load(i) /\ CheckUpdates /\ UNCHANGED clicked

\* The state of the check goes with the window: nobody looks at what the goroutine
\* of a process that is leaving may still find.
EndOf(i) ==
  /\ Leave(i) \/ End(i)
  /\ IF Running(i)
     THEN /\ checking' = FALSE /\ status' = "checking" /\ url' = NoUrl
          /\ query' = "none" /\ list' = <<>> /\ scan' = 1 /\ best' = 0 /\ clicked' = FALSE
          /\ current' = current
     ELSE UNCHANGED updVars

SettingsStep(i) ==
  \/ Launch(i) \/ Refuse(i) \/ Import(i) \/ FinishImport(i)
  \/ Command(i) \/ FinishSave(i) \/ AutoStart(i)

UpdateStep ==
  /\ \E i \in Instance : Up(i)
  /\ Query \/ ClickUpdate \/ CheckAgain

Next ==
  \/ \E i \in Instance : \/ SettingsStep(i) /\ UNCHANGED updVars
                         \/ Boot(i) \/ EndOf(i)
  \/ UpdateStep /\ UNCHANGED setVars

Init == SetInit /\ UpdInit

Spec == Init /\ [][Next]_vars

\* The HTTP client gives up after five seconds and the list is finite, so that the
\* goroutine goes on as long as its process runs.
FairSpec ==
  Spec /\ WF_vars((\E i \in Instance : Up(i)) /\ Query /\ UNCHANGED setVars)

TypeOK == SettingsTypeOK /\ UpdateTypeOK

\* Every check comes to an end, or its process does (update_check.go:125-171).
CheckEnds == checking ~> ~checking
=============================================================================
