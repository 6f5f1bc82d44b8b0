------------------------------ MODULE Settings ------------------------------
(***************************************************************************)
(* What the bridge remembers between two runs: settings.json, read by      *)
(* newBridgeEngine and rewritten by every command of the user (all in      *)
(* engine_windows.go), the import of the settings of the older program,    *)
(* and the mutex that keeps a second instance away (qol_windows.go), which *)
(* is given up when main returns, before the process is gone.              *)
(*                                                                         *)
(* os.WriteFile truncates the file and then writes it, so a process that   *)
(* ends in between leaves a file that loadSettings cannot read.  Commands  *)
(* write with e.mu held; nothing else touches the settings meanwhile.      *)
(***************************************************************************)
CONSTANTS
  Instance,   \* processes of the program
  OldFiles,   \* what the settings file of the older program can be
  Absent,     \* no file
  Torn        \* a file that is not the JSON of settings

\* appSettings; a file can hold another CDU than the two, or none.
Prefs == [cdu : {"captain", "copilot"}, auto : BOOLEAN, show : BOOLEAN]
Stored == [cdu : {"captain", "copilot", "other"}, auto : BOOLEAN, show : BOOLEAN]

ASSUME OldFilesAssumption == OldFiles \subseteq Stored \cup {Absent, Torn}

\* The three kinds of file are told apart.
ASSUME FileAssumption ==
  Absent \notin Stored /\ Torn \notin Stored /\ Absent # Torn

Default == [cdu |-> "captain", auto |-> TRUE, show |-> TRUE]

VARIABLES
  disk,       \* settings.json: Absent, Torn or Stored
  old,        \* the older program's file
  phase,      \* where each process is
  handles,    \* the processes that hold the mutex open
  prefs,      \* e.cdu, e.autoStart and e.showPreview of each process
  requested,  \* e.requested of each process
  chosen,     \* auxiliary: the settings after the last command, or Absent
  cut         \* auxiliary: the writing of those was cut short

setVars == <<disk, old, phase, handles, prefs, requested, chosen, cut>>

Enter(i, p) == phase' = [phase EXCEPT ![i] = p]

-----------------------------------------------------------------------------
(* Start-up *)

\* MUTANT: the handle of a refused process decides, not the error.
LaunchIgnoresError(i) ==
  /\ phase[i] = "down"
  /\ Enter(i, "start")
  /\ handles' = handles \cup {i}
  /\ UNCHANGED <<disk, old, prefs, requested, chosen, cut>>

\* CreateMutexW: a process that finds the mutex gets a handle to it all the same.
Launch(i) ==
  /\ phase[i] = "down"
  /\ Enter(i, IF handles = {} THEN "start" ELSE "refused")
  /\ handles' = handles \cup {i}
  /\ UNCHANGED <<disk, old, prefs, requested, chosen, cut>>

\* That handle is closed at once; the message that the program is running comes
\* after it, and the process ends with the message.
Refuse(i) ==
  /\ phase[i] = "refused" /\ Enter(i, "message")
  /\ handles' = handles \ {i}
  /\ UNCHANGED <<disk, old, prefs, requested, chosen, cut>>

\* MUTANT: the old settings are imported at every start.
ImportAlways(i) ==
  /\ phase[i] = "start"
  /\ IF old # Absent THEN disk' = Torn /\ Enter(i, "import")
                     ELSE disk' = disk /\ Enter(i, "load")
  /\ UNCHANGED <<old, handles, prefs, requested, chosen, cut>>

\* The old settings are imported only if there are none, not even torn ones.
Import(i) ==
  /\ phase[i] = "start"
  /\ IF disk = Absent /\ old # Absent THEN disk' = Torn /\ Enter(i, "import")
                                      ELSE disk' = disk /\ Enter(i, "load")
  /\ UNCHANGED <<old, handles, prefs, requested, chosen, cut>>

FinishImport(i) ==
  /\ phase[i] = "import" /\ Enter(i, "load")
  /\ disk' = old
  /\ UNCHANGED <<old, handles, prefs, requested, chosen, cut>>

\* loadSettings: an unknown CDU leaves the default one, the rest is taken over.
Loaded(file) ==
  IF file \in {Absent, Torn} THEN Default
  ELSE [file EXCEPT !.cdu = IF file.cdu = "other" THEN Default.cdu ELSE file.cdu]

Load(i) ==
  /\ phase[i] = "load" /\ Enter(i, "up")
  /\ prefs' = [prefs EXCEPT ![i] = Loaded(disk)]
  /\ requested' = [requested EXCEPT ![i] = Loaded(disk).auto]
  /\ UNCHANGED <<disk, old, handles, chosen, cut>>

-----------------------------------------------------------------------------
(* Commands *)

\* A command assigns its field and calls saveSettingsLocked.
Save(i, p) ==
  /\ prefs' = [prefs EXCEPT ![i] = p] /\ chosen' = p
  /\ disk' = Torn /\ cut' = FALSE /\ Enter(i, "write")
  /\ UNCHANGED <<old, handles>>

SetRequested(i) ==
  /\ phase[i] = "up"
  /\ \E v \in BOOLEAN : requested' = [requested EXCEPT ![i] = v]
  /\ Save(i, prefs[i])

\* MUTANT: a choice that is ignored by the engine is written nevertheless.
SetCDUSavesAnyway(i) ==
  /\ phase[i] = "up"
  /\ \E c \in {"captain", "copilot"} :
       /\ disk' = [prefs[i] EXCEPT !.cdu = c]
       /\ prefs' = IF requested[i] THEN prefs ELSE [prefs EXCEPT ![i].cdu = c]
       /\ chosen' = prefs'[i]
  /\ UNCHANGED <<old, phase, handles, requested, cut>>

SetCDU(i) ==
  /\ phase[i] = "up" /\ ~requested[i]
  /\ \E c \in {"captain", "copilot"} : Save(i, [prefs[i] EXCEPT !.cdu = c])
  /\ UNCHANGED requested

SetAutoStart(i) ==
  /\ phase[i] = "up"
  /\ \E v \in BOOLEAN : Save(i, [prefs[i] EXCEPT !.auto = v])
  /\ UNCHANGED requested

SetShowPreview(i) ==
  /\ phase[i] = "up"
  /\ \E v \in BOOLEAN : Save(i, [prefs[i] EXCEPT !.show = v])
  /\ UNCHANGED requested

\* The rest of os.WriteFile
FinishSave(i) ==
  /\ phase[i] = "write" /\ Enter(i, "up")
  /\ disk' = prefs[i]
  /\ UNCHANGED <<old, handles, prefs, requested, chosen, cut>>

\* The loop starts the bridge by itself, and does not save that.  Nobody waits for
\* it, so that it still runs when main has returned.
AutoStart(i) ==
  /\ phase[i] \in {"up", "leaving"} /\ prefs[i].auto /\ ~requested[i]
  /\ requested' = [requested EXCEPT ![i] = TRUE]
  /\ UNCHANGED <<disk, old, phase, handles, prefs, chosen, cut>>

\* The window is closed and main returns: its deferred closeHandle runs, and the
\* threads go on until the process has ended.
Leave(i) ==
  /\ phase[i] = "up" /\ Enter(i, "leaving")
  /\ handles' = handles \ {i}
  /\ UNCHANGED <<disk, old, prefs, requested, chosen, cut>>

\* The process is gone, after all that or wherever it was; the system ends its
\* threads and then closes what it held.
End(i) ==
  /\ phase[i] # "down" /\ Enter(i, "down")
  /\ handles' = handles \ {i}
  /\ prefs' = [prefs EXCEPT ![i] = Default] /\ requested' = [requested EXCEPT ![i] = FALSE]
  /\ cut' = (cut \/ phase[i] = "write")
  /\ UNCHANGED <<disk, old, chosen>>

Command(i) == \/ SetRequested(i) \/ SetCDU(i) \/ SetAutoStart(i) \/ SetShowPreview(i)

SetInit ==
  /\ disk = Absent /\ old \in OldFiles
  /\ phase = [i \in Instance |-> "down"] /\ handles = {}
  /\ prefs = [i \in Instance |-> Default] /\ requested = [i \in Instance |-> FALSE]
  /\ chosen = Absent /\ cut = FALSE

-----------------------------------------------------------------------------
SettingsTypeOK ==
  /\ disk \in Stored \cup {Absent, Torn} /\ old \in OldFiles
  /\ phase \in [Instance -> {"down", "start", "refused", "message", "import", "load",
                         "up", "write", "leaving"}]
  /\ handles \subseteq Instance /\ prefs \in [Instance -> Prefs]
  /\ requested \in [Instance -> BOOLEAN]
  /\ chosen \in Prefs \cup {Absent} /\ cut \in BOOLEAN

\* Between the mutex and the end of main
Running(i) == phase[i] \in {"start", "import", "load", "up", "write"}

\* At most one process is in main past the mutex: no two import, load, write the
\* settings or take commands at once, however starts, refusals and ends fall
\* together (qol_windows.go:26-40, main_windows.go:754-765).  That no two of them
\* read the aircraft or send to one CDU does not follow: the loop of a process that
\* is "leaving" can still run when the next one has started.
OneInstance == \A i, j \in Instance : Running(i) /\ Running(j) => i = j

\* What the user chose last is what the next start brings back, unless the process
\* ended while it was being written; what the older program left counts only until
\* then (engine_windows.go:99-107, 127-145, 159-195).
SettingsSurvive ==
  \A i \in Instance :
    phase[i] = "up" => \/ chosen = Absent /\ prefs[i] \in {Default, Loaded(old)}
                       \/ chosen # Absent /\ prefs[i] = chosen
                       \/ cut /\ prefs[i] = Default

\* A file that can be read says what the engine's fields cdu, autoStart and
\* showPreview say (the selector of the window may show something else).
FileMatchesEngine ==
  \A i \in Instance :
    phase[i] = "up" /\ disk \notin {Absent, Torn} => Loaded(disk) = prefs[i]
=============================================================================
