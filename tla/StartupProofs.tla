--------------------------- MODULE StartupProofs ---------------------------
(***************************************************************************)
(* Theorems about Startup, for any number of processes, any settings files *)
(* of the older program and any lists of releases: one process is in main  *)
(* at a time, the settings survive, and the newest release is offered.     *)
(*                                                                         *)
(* The settings need an inductive invariant that says what is in the file  *)
(* at every point of a process; the update check one that says what the    *)
(* scan has found so far, and that Before is an order.                     *)
(***************************************************************************)
EXTENDS Startup, TLAPS

-----------------------------------------------------------------------------
(* The settings *)

\* The mutex is held by the process that runs and by those that are about to be
\* refused, and by no other.
MutexInv == \A i \in Instance : Running(i) \/ phase[i] = "refused" <=> i \in handles

\* What is in the file, by what was chosen and who is writing.
DiskInv ==
  /\ chosen = Absent => disk \in {Absent, Torn, old}
  /\ chosen # Absent => disk # Absent
  /\ \A i \in Instance :
       /\ phase[i] = "import" => disk = Torn /\ chosen = Absent
       /\ phase[i] = "write" => disk = Torn /\ prefs[i] = chosen /\ chosen # Absent
  /\ chosen # Absent /\ (\A i \in Instance : phase[i] # "write") =>
       disk = chosen \/ (cut /\ disk = Torn)

SettingsInv ==
  /\ SettingsTypeOK /\ MutexInv /\ OneInstance /\ DiskInv
  /\ SettingsSurvive /\ FileMatchesEngine

LEMMA LoadedType ==
  ASSUME NEW f \in Stored \cup {Absent, Torn} PROVE Loaded(f) \in Prefs
  BY FileAssumption DEF Loaded, Stored, Prefs, Default

LEMMA LoadedSame == ASSUME NEW p \in Prefs PROVE Loaded(p) = p
  BY FileAssumption DEF Loaded, Stored, Prefs

LEMMA DefaultType == Default \in Prefs
  BY DEF Default, Prefs

LEMMA PrefsStored == Prefs \subseteq Stored /\ Absent \notin Prefs /\ Torn \notin Prefs
  BY FileAssumption DEF Prefs, Stored

LEMMA SettingsStart == SetInit => SettingsInv
<1> SUFFICES ASSUME SetInit PROVE SettingsInv
  OBVIOUS
<1> QED
  BY DefaultType DEF SetInit, SettingsInv, SettingsTypeOK, MutexInv, OneInstance, DiskInv,
                     SettingsSurvive, FileMatchesEngine, Running

\* Types, through every step.
LEMMA SettingsTypes ==
  ASSUME SettingsTypeOK, NEW i \in Instance,
         SettingsStep(i) \/ Load(i) \/ Leave(i) \/ End(i)
  PROVE  SettingsTypeOK'
<1> USE DEF SettingsTypeOK, Enter
<1>0. \A p \in Prefs : [p EXCEPT !.auto = TRUE] \in Prefs /\ [p EXCEPT !.auto = FALSE] \in Prefs
                   /\ [p EXCEPT !.show = TRUE] \in Prefs /\ [p EXCEPT !.show = FALSE] \in Prefs
                   /\ [p EXCEPT !.cdu = "captain"] \in Prefs
                   /\ [p EXCEPT !.cdu = "copilot"] \in Prefs
  BY DEF Prefs
<1>1. CASE Launch(i) \/ Refuse(i)
  BY <1>1 DEF Launch, Refuse
<1>2. CASE Import(i)
  BY <1>2 DEF Import
<1>3. CASE FinishImport(i)
  BY <1>3, OldFilesAssumption DEF FinishImport
<1>4. CASE Load(i)
  <2>1. Loaded(disk) \in Prefs
    BY LoadedType
  <2>2. Loaded(disk).auto \in BOOLEAN
    BY <2>1 DEF Prefs
  <2> QED
    BY <1>4, <2>1, <2>2 DEF Load
<1>5. ASSUME NEW p \in Prefs, Save(i, p) PROVE /\ disk' = Torn /\ old' = old
                                              /\ handles' = handles /\ chosen' \in Prefs
                                              /\ cut' = FALSE
                                              /\ prefs' \in [Instance -> Prefs]
                                              /\ phase' = [phase EXCEPT ![i] = "write"]
  BY <1>5 DEF Save
<1>6. CASE SetRequested(i)
  <2>1. prefs[i] \in Prefs
    OBVIOUS
  <2> QED
    BY <1>6, <1>5, <2>1 DEF SetRequested
<1>7. CASE SetCDU(i)
  BY <1>7, <1>5, <1>0 DEF SetCDU
<1>8. CASE SetAutoStart(i)
  BY <1>8, <1>5, <1>0 DEF SetAutoStart
<1>9. CASE SetShowPreview(i)
  BY <1>9, <1>5, <1>0 DEF SetShowPreview
<1>10. CASE FinishSave(i)
  BY <1>10, PrefsStored DEF FinishSave
<1>11. CASE AutoStart(i)
  BY <1>11 DEF AutoStart
<1>12. CASE End(i)
  BY <1>12, DefaultType DEF End
<1>13. CASE Leave(i)
  BY <1>13 DEF Leave
<1> QED
  BY <1>1, <1>2, <1>3, <1>4, <1>6, <1>7, <1>8, <1>9, <1>10, <1>11, <1>12, <1>13
     DEF SettingsStep, Command

\* The mutex: whoever runs holds it, so the next one is refused.
LEMMA SettingsMutex ==
  ASSUME SettingsTypeOK, MutexInv, OneInstance, NEW i \in Instance,
         SettingsStep(i) \/ Load(i) \/ Leave(i) \/ End(i)
  PROVE  MutexInv' /\ OneInstance'
<1> USE DEF SettingsTypeOK, MutexInv, OneInstance, Running, Enter
<1>1. CASE Launch(i)
  BY <1>1 DEF Launch
<1>2. CASE Refuse(i) \/ Leave(i) \/ End(i)
  BY <1>2 DEF Refuse, Leave, End
<1>3. CASE Import(i) \/ FinishImport(i) \/ Load(i)
  BY <1>3 DEF Import, FinishImport, Load
<1>4. CASE Command(i)
  BY <1>4 DEF Command, SetRequested, SetCDU, SetAutoStart, SetShowPreview, Save
<1>5. CASE FinishSave(i) \/ AutoStart(i)
  BY <1>5 DEF FinishSave, AutoStart
<1> QED
  BY <1>1, <1>2, <1>3, <1>4, <1>5 DEF SettingsStep

\* A command leaves a torn file and the new settings in the process.
LEMMA SaveKeeps ==
  ASSUME SettingsInv, NEW i \in Instance, NEW p \in Prefs, phase[i] = "up", Save(i, p)
  PROVE  DiskInv' /\ SettingsSurvive' /\ FileMatchesEngine'
<1>1. /\ phase' = [phase EXCEPT ![i] = "write"] /\ prefs' = [prefs EXCEPT ![i] = p]
      /\ disk' = Torn /\ chosen' = p /\ cut' = FALSE /\ old' = old
  BY DEF Save, Enter
<1>2. \A j \in Instance : phase[j] \notin {"import", "write"} /\ (phase[j] = "up" => j = i)
  BY DEF SettingsInv, OneInstance, Running
<1>3. p # Absent /\ Torn # Absent
  BY PrefsStored, FileAssumption
<1>4. phase'[i] = "write" /\ prefs'[i] = p /\ \A j \in Instance \ {i} : phase'[j] = phase[j]
  BY <1>1 DEF SettingsInv, SettingsTypeOK
<1>5. DiskInv'
  BY <1>1, <1>2, <1>3, <1>4 DEF DiskInv
<1>6. \A j \in Instance : phase'[j] # "up"
  BY <1>2, <1>4
<1> QED
  BY <1>5, <1>6 DEF SettingsSurvive, FileMatchesEngine

LEMMA SettingsKeep ==
  ASSUME SettingsInv, NEW i \in Instance, SettingsStep(i) \/ Load(i) \/ Leave(i) \/ End(i)
  PROVE  DiskInv' /\ SettingsSurvive' /\ FileMatchesEngine'
<1>0. SettingsTypeOK /\ OneInstance /\ DiskInv /\ SettingsSurvive /\ FileMatchesEngine
  BY DEF SettingsInv
<1>a. prefs[i] \in Prefs /\ \A j \in Instance : Running(i) /\ Running(j) => j = i
  BY <1>0 DEF SettingsTypeOK, OneInstance
<1> USE <1>0 DEF SettingsTypeOK, Enter
<1>1. CASE Launch(i)
  BY <1>1 DEF Launch, DiskInv, SettingsSurvive, FileMatchesEngine
<1>2. CASE Refuse(i)
  BY <1>2 DEF Refuse, DiskInv, SettingsSurvive, FileMatchesEngine
<1>3. CASE Import(i)
  BY <1>3, <1>a, FileAssumption DEF Import, DiskInv, SettingsSurvive, FileMatchesEngine, Running
<1>4. CASE FinishImport(i)
  BY <1>4, <1>a, FileAssumption DEF FinishImport, DiskInv, SettingsSurvive, FileMatchesEngine, Running
<1>5. CASE Load(i)
  <2>1. \A j \in Instance : phase[j] # "write"
    BY <1>5, <1>a DEF Load, Running
  <2>2. /\ chosen = Absent => disk \in {Absent, Torn, old}
        /\ chosen # Absent => disk = chosen \/ (cut /\ disk = Torn)
    BY <2>1 DEF DiskInv
  <2>3. /\ disk \in {Absent, Torn} => Loaded(disk) = Default
        /\ chosen # Absent => Loaded(chosen) = chosen
    BY LoadedSame DEF Loaded
  <2>4. \A j \in Instance : phase'[j] = "up" => j = i /\ prefs'[j] = Loaded(disk)
    BY <1>5, <1>a DEF Load, Running
  <2>5. DiskInv'
    BY <1>5, <2>1 DEF Load, DiskInv
  <2>6. SettingsSurvive' /\ FileMatchesEngine'
    BY <1>5, <2>2, <2>3, <2>4 DEF Load, SettingsSurvive, FileMatchesEngine
  <2> QED
    BY <2>5, <2>6
<1>6. CASE SetRequested(i)
  BY <1>6, <1>a, SaveKeeps DEF SetRequested
<1>7. CASE SetCDU(i)
  <2>1. \A c \in {"captain", "copilot"} : [prefs[i] EXCEPT !.cdu = c] \in Prefs
    BY <1>a DEF Prefs
  <2> QED
    BY <1>7, <2>1, SaveKeeps DEF SetCDU
<1>8. CASE SetAutoStart(i)
  <2>1. \A v \in BOOLEAN : [prefs[i] EXCEPT !.auto = v] \in Prefs
    BY <1>a DEF Prefs
  <2> QED
    BY <1>8, <2>1, SaveKeeps DEF SetAutoStart
<1>9. CASE SetShowPreview(i)
  <2>1. \A v \in BOOLEAN : [prefs[i] EXCEPT !.show = v] \in Prefs
    BY <1>a DEF Prefs
  <2> QED
    BY <1>9, <2>1, SaveKeeps DEF SetShowPreview
<1>10. CASE FinishSave(i)
  <2>1. prefs[i] = chosen /\ chosen # Absent /\ chosen \in Prefs /\ Loaded(chosen) = chosen
    BY <1>10, LoadedSame DEF FinishSave, DiskInv
  <2>2. \A j \in Instance : phase'[j] = "up" => j = i
    BY <1>10, <1>a DEF FinishSave, Running
  <2>3. \A j \in Instance : phase'[j] \notin {"import", "write"}
    BY <1>10, <1>a DEF FinishSave, Running
  <2> QED
    BY <1>10, <2>1, <2>2, <2>3 DEF FinishSave, DiskInv, SettingsSurvive, FileMatchesEngine
<1>11. CASE AutoStart(i)
  BY <1>11 DEF AutoStart, DiskInv, SettingsSurvive, FileMatchesEngine
<1>12. CASE End(i)
  <2>1. \A j \in Instance : phase'[j] # "down" => j # i /\ phase'[j] = phase[j] /\ prefs'[j] = prefs[j]
    BY <1>12 DEF End
  <2>2. phase[i] = "write" => \A j \in Instance : ~(phase'[j] \in {"up", "write", "import"})
    BY <1>12, <1>a DEF End, Running
  <2>3. DiskInv'
    BY <1>12, <2>1, <2>2 DEF End, DiskInv
  <2>4. SettingsSurvive' /\ FileMatchesEngine'
    BY <1>12, <2>1, <2>2 DEF End, SettingsSurvive, FileMatchesEngine
  <2> QED
    BY <2>3, <2>4
<1>13. CASE Leave(i)
  <2>1. phase[i] = "up" /\ \A j \in Instance : phase'[j] \in {"up", "write", "import"} => phase'[j] = phase[j]
    BY <1>13 DEF Leave
  <2> QED
    BY <1>13, <2>1 DEF Leave, DiskInv, SettingsSurvive, FileMatchesEngine
<1> QED
  BY <1>1, <1>2, <1>3, <1>4, <1>5, <1>6, <1>7, <1>8, <1>9, <1>10, <1>11, <1>12, <1>13
     DEF SettingsStep, Command

-----------------------------------------------------------------------------
(* The order of versions *)

LEMMA KindTypes ==
  ASSUME NEW k \in Kind
  PROVE  /\ Stage(k) \in 0..4 /\ (Stage(k) = 4 <=> k = "none")
         /\ Alphabet[k] \in Nat
<1>1. Stage(k) \in {0, 1, 2, 3, 4} /\ (Stage(k) = 4 <=> k = "none")
  BY SMT DEF Stage
<1>2. Alphabet[k] \in Nat
  BY KindAssumption
<1> QED
  BY <1>1, <1>2, SMT

\* Before, written out.
InOrder(a, b) ==
  \/ a.major < b.major
  \/ a.major = b.major /\ a.minor < b.minor
  \/ a.major = b.major /\ a.minor = b.minor /\ a.patch < b.patch
  \/ /\ a.major = b.major /\ a.minor = b.minor /\ a.patch = b.patch
     /\ \/ Stage(a.kind) < Stage(b.kind)
        \/ Stage(a.kind) = Stage(b.kind) /\ Alphabet[a.kind] < Alphabet[b.kind]
        \/ /\ Stage(a.kind) = Stage(b.kind) /\ Alphabet[a.kind] = Alphabet[b.kind]
           /\ a.num < b.num

LEMMA BeforeIs == ASSUME NEW a, NEW b PROVE Before(a, b) <=> InOrder(a, b)
<1> DEFINE key(v) == <<v.major, v.minor, v.patch, Stage(v.kind), Alphabet[v.kind], v.num>>
<1>1. \A v : /\ key(v)[1] = v.major /\ key(v)[2] = v.minor /\ key(v)[3] = v.patch
             /\ key(v)[4] = Stage(v.kind) /\ key(v)[5] = Alphabet[v.kind] /\ key(v)[6] = v.num
  OBVIOUS
<1>2. Before(a, b) <=> \E k \in 1..6 : /\ key(a)[k] < key(b)[k]
                                      /\ \A j \in 1..k-1 : key(a)[j] = key(b)[j]
  BY DEF Before
<1> HIDE DEF key
<1>3. Before(a, b) <=>
        \/ key(a)[1] < key(b)[1]
        \/ key(a)[2] < key(b)[2] /\ key(a)[1] = key(b)[1]
        \/ key(a)[3] < key(b)[3] /\ key(a)[1] = key(b)[1] /\ key(a)[2] = key(b)[2]
        \/ key(a)[4] < key(b)[4] /\ key(a)[1] = key(b)[1] /\ key(a)[2] = key(b)[2]
                                 /\ key(a)[3] = key(b)[3]
        \/ key(a)[5] < key(b)[5] /\ key(a)[1] = key(b)[1] /\ key(a)[2] = key(b)[2]
                                 /\ key(a)[3] = key(b)[3] /\ key(a)[4] = key(b)[4]
        \/ key(a)[6] < key(b)[6] /\ key(a)[1] = key(b)[1] /\ key(a)[2] = key(b)[2]
                                 /\ key(a)[3] = key(b)[3] /\ key(a)[4] = key(b)[4]
                                 /\ key(a)[5] = key(b)[5]
  <2> DEFINE D(k) == /\ key(a)[k] < key(b)[k]
                     /\ \A j \in 1..k-1 : key(a)[j] = key(b)[j]
  <2>1. D(1) <=> key(a)[1] < key(b)[1]
    BY SMT
  <2>2. D(2) <=> key(a)[2] < key(b)[2] /\ key(a)[1] = key(b)[1]
    <3>1. \A j : j \in 1..2-1 <=> j = 1
      BY SMT
    <3> QED BY <3>1, Zenon
  <2>3. D(3) <=> key(a)[3] < key(b)[3] /\ key(a)[1] = key(b)[1] /\ key(a)[2] = key(b)[2]
    <3>1. \A j : j \in 1..3-1 <=> j \in {1, 2}
      BY SMT
    <3> QED BY <3>1, Zenon
  <2>4. D(4) <=> key(a)[4] < key(b)[4] /\ key(a)[1] = key(b)[1] /\ key(a)[2] = key(b)[2]
                                      /\ key(a)[3] = key(b)[3]
    <3>1. \A j : j \in 1..4-1 <=> j \in {1, 2, 3}
      BY SMT
    <3> QED BY <3>1, Zenon
  <2>5. D(5) <=> key(a)[5] < key(b)[5] /\ key(a)[1] = key(b)[1] /\ key(a)[2] = key(b)[2]
                                      /\ key(a)[3] = key(b)[3] /\ key(a)[4] = key(b)[4]
    <3>1. \A j : j \in 1..5-1 <=> j \in {1, 2, 3, 4}
      BY SMT
    <3> QED BY <3>1, Zenon
  <2>6. D(6) <=> key(a)[6] < key(b)[6] /\ key(a)[1] = key(b)[1] /\ key(a)[2] = key(b)[2]
                                      /\ key(a)[3] = key(b)[3] /\ key(a)[4] = key(b)[4]
                                      /\ key(a)[5] = key(b)[5]
    <3>1. \A j : j \in 1..6-1 <=> j \in {1, 2, 3, 4, 5}
      BY SMT
    <3> QED BY <3>1, Zenon
  <2>7. \A k : k \in 1..6 <=> k \in {1, 2, 3, 4, 5, 6}
    BY SMT
  <2>8. (\E k \in 1..6 : D(k)) <=> D(1) \/ D(2) \/ D(3) \/ D(4) \/ D(5) \/ D(6)
    <3> HIDE DEF D
    <3> QED BY <2>7, Zenon
  <2>9. Before(a, b) <=> \E k \in 1..6 : D(k)
    BY <1>2
  <2> HIDE DEF D
  <2> QED
    BY <2>1, <2>2, <2>3, <2>4, <2>5, <2>6, <2>8, <2>9, Zenon
<1> QED
  BY <1>1, <1>3, Zenon DEF InOrder

\* What compareSemVersion computes is that order, and no two results overlap.
LEMMA CompareIsBefore ==
  ASSUME NEW a \in Version, NEW b \in Version
  PROVE  Compare(a, b) > 0 <=> Before(b, a)
<1>1. /\ a.major \in Nat /\ a.minor \in Nat /\ a.patch \in Nat /\ a.kind \in Kind /\ a.num \in Int
      /\ b.major \in Nat /\ b.minor \in Nat /\ b.patch \in Nat /\ b.kind \in Kind /\ b.num \in Int
  BY DEF Version
<1>2. /\ Stage(a.kind) \in 0..4 /\ (Stage(a.kind) = 4 <=> a.kind = "none") /\ Alphabet[a.kind] \in Nat
      /\ Stage(b.kind) \in 0..4 /\ (Stage(b.kind) = 4 <=> b.kind = "none") /\ Alphabet[b.kind] \in Nat
  BY <1>1, KindTypes
<1>3. a.kind = b.kind <=> Alphabet[a.kind] = Alphabet[b.kind]
  BY <1>1, KindAssumption
<1>4. \A m, n \in Int : (Order(m, n) > 0 <=> n < m)
  BY SMT DEF Order
<1>5. \A m, n \in Nat : (Order(m, n) > 0 <=> n < m)
  BY SMT DEF Order
<1> DEFINE numbers == a.major = b.major /\ a.minor = b.minor /\ a.patch = b.patch
<1>6. CASE ~numbers
  <2>1. /\ a.major # b.major => Compare(a, b) = Order(a.major, b.major)
        /\ a.major = b.major /\ a.minor # b.minor => Compare(a, b) = Order(a.minor, b.minor)
        /\ a.major = b.major /\ a.minor = b.minor =>
             Compare(a, b) = Order(a.patch, b.patch)
    BY <1>6, Zenon DEF Compare
  <2>2. Before(b, a) <=>
          \/ b.major < a.major
          \/ b.major = a.major /\ b.minor < a.minor
          \/ b.major = a.major /\ b.minor = a.minor /\ b.patch < a.patch
    <3>1. ~(b.major = a.major /\ b.minor = a.minor /\ b.patch = a.patch)
      BY <1>6
    <3>2. Before(b, a) <=> InOrder(b, a)
      BY BeforeIs
    <3> QED
      BY <3>1, <3>2, SMT DEF InOrder
  <2>3. CASE a.major # b.major
    <3>1. Compare(a, b) > 0 <=> Order(a.major, b.major) > 0
      BY <2>1, <2>3, Zenon
    <3>2. Order(a.major, b.major) > 0 <=> b.major < a.major
      BY <1>1, <1>5, Zenon
    <3>3. b.major # a.major
      BY <2>3
    <3> QED
      BY <1>1, <2>2, <3>1, <3>2, <3>3, SMT
  <2>4. CASE a.major = b.major /\ a.minor # b.minor
    <3>1. Compare(a, b) > 0 <=> Order(a.minor, b.minor) > 0
      BY <2>1, <2>4, Zenon
    <3>2. Order(a.minor, b.minor) > 0 <=> b.minor < a.minor
      BY <1>1, <1>5, Zenon
    <3>3. ~(b.major < a.major) /\ b.major = a.major /\ b.minor # a.minor
      BY <1>1, <2>4, SMT
    <3> QED
      BY <1>1, <2>2, <3>1, <3>2, <3>3, SMT
  <2>5. CASE a.major = b.major /\ a.minor = b.minor
    <3>1. Compare(a, b) > 0 <=> Order(a.patch, b.patch) > 0
      BY <2>1, <2>5, Zenon
    <3>2. Order(a.patch, b.patch) > 0 <=> b.patch < a.patch
      BY <1>1, <1>5, Zenon
    <3>3. ~(b.major < a.major) /\ ~(b.minor < a.minor) /\ b.major = a.major /\ b.minor = a.minor
      BY <1>1, <2>5, SMT
    <3> QED
      BY <1>1, <2>2, <3>1, <3>2, <3>3, SMT
  <2> QED
    BY <2>3, <2>4, <2>5
<1>7. CASE numbers
  <2>1. Before(b, a) <=>
          \/ Stage(b.kind) < Stage(a.kind)
          \/ Stage(b.kind) = Stage(a.kind) /\ Alphabet[b.kind] < Alphabet[a.kind]
          \/ /\ Stage(b.kind) = Stage(a.kind) /\ Alphabet[b.kind] = Alphabet[a.kind]
             /\ b.num < a.num
    <3>1. ~(b.major < a.major) /\ ~(b.minor < a.minor) /\ ~(b.patch < a.patch)
      BY <1>1, <1>7, SMT
    <3> QED
      BY <1>7, <3>1, BeforeIs, Zenon DEF InOrder
  <2>2. CASE a.kind = "none" /\ b.kind # "none"
    <3>1. Compare(a, b) = 1
      BY <1>7, <2>2, Zenon DEF Compare
    <3> QED
      BY <1>2, <2>1, <2>2, <3>1, SMT
  <2>3. CASE a.kind # "none" /\ b.kind = "none"
    <3>1. Compare(a, b) = -1
      BY <1>7, <2>3, Zenon DEF Compare
    <3> QED
      BY <1>2, <2>1, <2>3, <3>1, SMT
  <2>4. CASE a.kind = b.kind
    <3>1. Compare(a, b) = Order(a.num, b.num)
      BY <1>7, <2>4, Zenon DEF Compare
    <3>2. Before(b, a) <=> b.num < a.num
      BY <1>2, <2>1, <2>4, SMT
    <3> QED
      BY <1>1, <1>4, <3>1, <3>2
  <2>5. CASE a.kind # "none" /\ b.kind # "none" /\ a.kind # b.kind /\ Stage(a.kind) # Stage(b.kind)
    <3>1. Compare(a, b) = Order(Stage(a.kind), Stage(b.kind))
      BY <1>7, <2>5, Zenon DEF Compare
    <3>2. Stage(a.kind) \in Nat /\ Stage(b.kind) \in Nat
      BY <1>2, SMT
    <3>3. Before(b, a) <=> Stage(b.kind) < Stage(a.kind)
      BY <2>1, <2>5, Zenon
    <3> QED
      BY <1>4, <3>1, <3>2, <3>3
  <2>6. CASE a.kind # "none" /\ b.kind # "none" /\ a.kind # b.kind /\ Stage(a.kind) = Stage(b.kind)
    <3>1. Compare(a, b) = Order(Alphabet[a.kind], Alphabet[b.kind])
      BY <1>7, <2>6, Zenon DEF Compare
    <3>2. Before(b, a) <=> Alphabet[b.kind] < Alphabet[a.kind]
      BY <1>2, <1>3, <2>1, <2>6, SMT
    <3> QED
      BY <1>2, <1>4, <3>1, <3>2
  <2> QED
    BY <2>2, <2>3, <2>4, <2>5, <2>6
<1> QED
  BY <1>6, <1>7

\* Before is a strict order, and total up to versions that compare equal.
LEMMA BeforeIrreflexive == ASSUME NEW a \in Version PROVE ~Before(a, a)
<1>1. /\ a.major \in Nat /\ a.minor \in Nat /\ a.patch \in Nat /\ a.kind \in Kind /\ a.num \in Int
  BY DEF Version
<1>2. Stage(a.kind) \in 0..4 /\ Alphabet[a.kind] \in Nat
  BY <1>1, KindTypes
<1> QED
  BY <1>1, <1>2, BeforeIs, SMT DEF InOrder

LEMMA BeforeTransitive ==
  ASSUME NEW a \in Version, NEW b \in Version, NEW c \in Version, Before(a, b), Before(b, c)
  PROVE  Before(a, c)
<1>1. \A v \in {a, b, c} : /\ v.major \in Nat /\ v.minor \in Nat /\ v.patch \in Nat
                           /\ v.kind \in Kind /\ v.num \in Int
  BY DEF Version
<1>2. \A v \in {a, b, c} : Stage(v.kind) \in 0..4 /\ Alphabet[v.kind] \in Nat
  BY <1>1, KindTypes
<1> QED
  BY <1>1, <1>2, BeforeIs, SMT DEF InOrder

-----------------------------------------------------------------------------
(* The check for updates *)

\* What the scan has found among the entries it has seen.
ScanInv ==
  query = "scan" =>
    /\ current # Garbled
    /\ best # 0 => /\ best < scan /\ Offered(best)
                   /\ \A j \in 1..scan-1 :
                        Offered(j) => ~Before(VersionOf(best), VersionOf(j))
    /\ best = 0 => \A j \in 1..scan-1 : ~Offered(j)

UpdateInv == UpdateTypeOK /\ UrlMatchesStatus /\ ScanInv /\ BestRelease

LEMMA ParseType == ASSUME NEW t \in Tag PROVE Parse(t) \in Version
<1>1. t.suffix \in Suffix /\ t.major \in Nat /\ t.minor \in Nat /\ t.patch \in Nat
  BY DEF Tag
<1>2. Parse(t).num \in Int
  <2>1. Rest[t.suffix] \in Int \cup {NoNumber}
    BY <1>1, KindAssumption
  <2> QED
    BY <2>1 DEF Parse
<1>3. Parse(t).kind \in Kind
  <2>1. Opening[t.suffix] # "none" => Opening[t.suffix] \in Stages
    BY <1>1, KindAssumption
  <2> QED
    BY <1>1, <2>1 DEF Parse, Kind
<1>4. Parse(t) = [major |-> t.major, minor |-> t.minor, patch |-> t.patch,
                  kind |-> Parse(t).kind, num |-> Parse(t).num]
  BY DEF Parse
<1> QED
  BY <1>1, <1>2, <1>3, <1>4 DEF Version

LEMMA AnswerType ==
  /\ <<>> \in Seq(Release)
  /\ \A l \in Lists : l \in Seq(Release)
  /\ \A l \in Seq(Release) : Len(l) \in Nat
<1>1. <<>> \in Seq(Release)
  OBVIOUS
<1>2. \A l \in Lists : l \in Seq(Release)
  BY ReleaseAssumption
<1>3. \A l \in Seq(Release) : Len(l) \in Nat
  OBVIOUS
<1> QED
  BY <1>1, <1>2, <1>3

\* The numbers of the scan.
LEMMA ScanNumbers ==
  ASSUME UpdateTypeOK
  PROVE  scan \in 1..Len(list)+1 /\ best \in 0..Len(list)
  BY DEF UpdateTypeOK

\* The entries of a list, and the version of the program where it is compared.
LEMMA ListTypes ==
  ASSUME UpdateTypeOK
  PROVE  /\ Len(list) \in Nat
         /\ \A i \in 1..Len(list) : list[i] \in Release
         /\ current # Garbled => Parse(current) \in Version
         /\ \A i \in 1..Len(list) : list[i].tag # Garbled => VersionOf(i) \in Version
<1>1. list \in Seq(Release)
  <2>1. list = <<>> \/ list \in Lists
    BY DEF UpdateTypeOK
  <2> QED
    BY <2>1, AnswerType
<1>2. Len(list) \in Nat /\ \A i \in 1..Len(list) : list[i] \in Release
  BY <1>1
<1>3. current # Garbled => Parse(current) \in Version
  BY ParseType, ReleaseAssumption DEF UpdateTypeOK
<1>4. ASSUME NEW i \in 1..Len(list), list[i].tag # Garbled PROVE VersionOf(i) \in Version
  <2>1. list[i].tag \in Tag
    BY <1>2, <1>4 DEF Release
  <2> QED
    BY <2>1, ParseType DEF VersionOf
<1> QED
  BY <1>2, <1>3, <1>4

LEMMA UpdateStart == UpdInit => UpdateInv
<1> SUFFICES ASSUME UpdInit PROVE UpdateInv
  OBVIOUS
<1>1. list = <<>> /\ Len(list) = 0 /\ scan = 1 /\ best = 0
  BY DEF UpdInit
<1>2. scan \in 1..Len(list)+1 /\ best \in 0..Len(list)
  BY <1>1, SMT
<1>3. UpdateTypeOK
  BY <1>1, <1>2, Zenon DEF UpdInit, UpdateTypeOK
<1> QED
  BY <1>3 DEF UpdInit, UpdateInv, UrlMatchesStatus, ScanInv, BestRelease

LEMMA QueryTypes ==
  ASSUME UpdateTypeOK, Query PROVE UpdateTypeOK'
<1> USE DEF UpdateTypeOK
<1>1. CASE QueryFails
  BY <1>1 DEF QueryFails, Conclude
<1>2. CASE QueryAnswers
  <2>1. Len(list') \in Nat
    BY <1>2, AnswerType DEF QueryAnswers
  <2>2. scan' \in 1..Len(list')+1 /\ best' \in 0..Len(list')
    <3>1. scan' = 1 /\ best' = 0
      BY <1>2 DEF QueryAnswers
    <3> HIDE DEF UpdateTypeOK
    <3> QED
      BY <2>1, <3>1, SMT
  <2> QED
    BY <1>2, <2>2, Zenon DEF QueryAnswers
<1>3. CASE ScanRelease
  <2>1. Len(list) \in Nat /\ scan \in 1..Len(list)+1 /\ best \in 0..Len(list)
    BY ListTypes, ScanNumbers
  <2>2. scan' \in 1..Len(list)+1 /\ best' \in 0..Len(list)
    <3>1. scan <= Len(list) /\ scan' = scan + 1 /\ best' \in {scan, best}
      BY <1>3 DEF ScanRelease
    <3> HIDE DEF UpdateTypeOK
    <3> QED
      BY <2>1, <3>1, SMT
  <2> QED
    BY <1>3, <2>2, Zenon DEF ScanRelease
<1>4. CASE Answer
  BY <1>4 DEF Answer, Conclude
<1> QED
  BY <1>1, <1>2, <1>3, <1>4 DEF Query

\* What can be offered is what the scan takes for a candidate.
LEMMA OfferedIsCandidate ==
  ASSUME UpdateTypeOK, current # Garbled, NEW i \in 1..Len(list)
  PROVE  Offered(i) <=> Candidate(list[i])
<1>1. CASE list[i].tag = Garbled
  BY <1>1 DEF Offered, Candidate
<1>2. CASE list[i].tag # Garbled
  <2>1. VersionOf(i) \in Version /\ Parse(current) \in Version
    BY <1>2, ListTypes
  <2>2. Compare(VersionOf(i), Parse(current)) > 0 <=> Before(Parse(current), VersionOf(i))
    BY <2>1, CompareIsBefore
  <2> QED
    BY <2>2 DEF Offered, Candidate, VersionOf
<1> QED
  BY <1>1, <1>2

LEMMA ScanKeeps ==
  ASSUME UpdateTypeOK, ScanInv, ScanRelease PROVE ScanInv'
<1>1. /\ scan \in 1..Len(list) /\ scan' = scan + 1 /\ Len(list) \in Nat
      /\ list' = list /\ current' = current /\ query' = "scan"
  <2>1. scan \in 1..Len(list)+1 /\ Len(list) \in Nat /\ scan <= Len(list)
    BY ListTypes, ScanNumbers DEF ScanRelease
  <2> QED
    BY <2>1, SMT DEF ScanRelease
<1>2. current # Garbled
  BY DEF ScanInv, ScanRelease
<1>3. best' = IF Offered(scan) /\ Better(scan) THEN scan ELSE best
  BY <1>1, <1>2, OfferedIsCandidate DEF ScanRelease
<1>4. \A j : (Offered(j) <=> Offered(j)') /\ VersionOf(j)' = VersionOf(j)
  BY <1>1 DEF Offered, VersionOf
<1>5. \A j \in 1..scan'-1 : j \in 1..scan-1 \/ j = scan
  BY <1>1, SMT
<1>6. \A j \in 1..scan : Offered(j) => VersionOf(j) \in Version
  <2>1. \A j \in 1..scan : j \in 1..Len(list)
    BY <1>1, SMT
  <2> QED
    BY <2>1, ListTypes DEF Offered
<1>7. best # 0 => best < scan /\ best \in 1..scan /\ Offered(best)
  <2>1. best \in Nat
    BY <1>1, ScanNumbers, SMT
  <2> QED
    BY <1>1, <2>1, SMT DEF ScanInv, ScanRelease
<1>8. CASE Offered(scan) /\ Better(scan)
  <2>1. best' = scan /\ scan # 0 /\ scan < scan' /\ VersionOf(scan) \in Version /\ scan \in 1..scan
    BY <1>1, <1>3, <1>6, <1>8, SMT
  <2>2. ASSUME NEW j \in 1..scan-1, Offered(j) PROVE ~Before(VersionOf(scan), VersionOf(j))
    <3>1. best # 0
      BY <2>2 DEF ScanInv, ScanRelease
    <3>2. /\ ~Before(VersionOf(best), VersionOf(j))
          /\ Before(VersionOf(best), VersionOf(scan))
      <4>1. VersionOf(best) \in Version /\ Offered(best)
        BY <1>6, <1>7, <3>1
      <4>2. Compare(VersionOf(scan), VersionOf(best)) > 0
        BY <1>8, <3>1 DEF Better
      <4> QED
        BY <2>1, <2>2, <3>1, <4>1, <4>2, CompareIsBefore DEF ScanInv, ScanRelease
    <3>3. /\ VersionOf(j) \in Version /\ VersionOf(best) \in Version
      <4>1. j \in 1..scan
        BY <1>1, SMT
      <4> QED
        BY <1>6, <1>7, <2>2, <3>1, <4>1
    <3> QED
      BY <2>1, <3>2, <3>3, BeforeTransitive
  <2>3. ~Before(VersionOf(scan), VersionOf(scan))
    BY <2>1, BeforeIrreflexive
  <2>4. \A j \in 1..scan'-1 : Offered(j) => ~Before(VersionOf(scan), VersionOf(j))
    BY <1>5, <2>2, <2>3
  <2> QED
    BY <1>1, <1>2, <1>4, <1>8, <2>1, <2>4 DEF ScanInv
<1>9. CASE ~(Offered(scan) /\ Better(scan))
  <2>1. best' = best
    BY <1>3, <1>9
  <2>2. CASE best = 0
    <3>1. ~Offered(scan) /\ \A j \in 1..scan-1 : ~Offered(j)
      BY <1>9, <2>2 DEF Better, ScanInv, ScanRelease
    <3> QED
      BY <1>1, <1>2, <1>4, <1>5, <2>1, <2>2, <3>1 DEF ScanInv
  <2>3. CASE best # 0
    <3>1. best < scan' /\ Offered(best)
      BY <1>1, <1>7, <2>3, ScanNumbers, SMT
    <3>2. Offered(scan) => ~Before(VersionOf(best), VersionOf(scan))
      <4> SUFFICES ASSUME Offered(scan) PROVE ~Before(VersionOf(best), VersionOf(scan))
        OBVIOUS
      <4>1. ~(Compare(VersionOf(scan), VersionOf(best)) > 0)
        BY <1>9, <2>3 DEF Better
      <4>2. scan \in 1..scan
        BY <1>1, SMT
      <4>3. VersionOf(scan) \in Version /\ VersionOf(best) \in Version
        BY <1>6, <1>7, <2>3, <4>2
      <4> QED
        BY <4>1, <4>3, CompareIsBefore
    <3>3. \A j \in 1..scan-1 : Offered(j) => ~Before(VersionOf(best), VersionOf(j))
      BY <2>3 DEF ScanInv, ScanRelease
    <3> QED
      BY <1>1, <1>2, <1>4, <1>5, <2>1, <2>3, <3>1, <3>2, <3>3 DEF ScanInv
  <2> QED
    BY <2>2, <2>3
<1> QED
  BY <1>8, <1>9

\* What is offered in the end is what the scan holds.
LEMMA AnswerKeeps ==
  ASSUME UpdateInv, Answer PROVE BestRelease'
<1>1. Len(list) \in Nat /\ scan \in 1..Len(list)+1 /\ best \in 0..Len(list) /\ scan > Len(list)
  BY ListTypes, ScanNumbers DEF UpdateInv, Answer
<1>2. scan = Len(list) + 1
  BY <1>1, SMT
<1>3. \A j \in 1..Len(list) : j \in 1..scan-1
  BY <1>1, <1>2, SMT
<1>4. list' = list /\ current' = current
  BY DEF Answer, Conclude
<1>5. \A j : (Offered(j) <=> Offered(j)') /\ VersionOf(j)' = VersionOf(j)
  BY <1>4 DEF Offered, VersionOf
<1>6. ScanInv /\ query = "scan"
  BY DEF UpdateInv, Answer
<1>7. CASE best = 0
  <2>1. status' = "up to date"
    BY <1>7 DEF Answer, Conclude
  <2>2. \A j \in 1..Len(list) : ~Offered(j)
    BY <1>3, <1>6, <1>7 DEF ScanInv
  <2> QED
    BY <1>4, <1>5, <2>1, <2>2 DEF BestRelease
<1>8. CASE best # 0
  <2>1. status' = "available" /\ url' = list[best].url
    BY <1>8 DEF Answer, Conclude
  <2>2. best \in 1..Len(list)
    BY <1>1, <1>8, SMT
  <2>3. Offered(best) /\ \A j \in 1..Len(list) :
                            Offered(j) => ~Before(VersionOf(best), VersionOf(j))
    BY <1>3, <1>6, <1>8 DEF ScanInv
  <2> QED
    BY <1>4, <1>5, <2>1, <2>2, <2>3 DEF BestRelease
<1> QED
  BY <1>7, <1>8

LEMMA QueryKeeps ==
  ASSUME UpdateInv, Query PROVE UpdateInv'
<1>0. UpdateTypeOK /\ UrlMatchesStatus /\ ScanInv /\ BestRelease
  BY DEF UpdateInv
<1>1. UpdateTypeOK'
  BY <1>0, QueryTypes
<1>2. CASE QueryFails
  BY <1>1, <1>2 DEF QueryFails, Conclude, UpdateInv, UrlMatchesStatus, ScanInv, BestRelease
<1>3. CASE QueryAnswers
  <2>1. \A j : j \notin 1..1-1
    BY SMT
  <2>2. status = "checking" /\ url = NoUrl
    BY <1>0, <1>3 DEF QueryAnswers, UrlMatchesStatus
  <2> QED
    BY <1>0, <1>1, <1>3, <2>1, <2>2
       DEF QueryAnswers, UpdateInv, UrlMatchesStatus, ScanInv, BestRelease
<1>4. CASE ScanRelease
  <2>1. ScanInv'
    BY <1>0, <1>4, ScanKeeps
  <2> QED
    BY <1>0, <1>1, <1>4, <2>1 DEF ScanRelease, UpdateInv, UrlMatchesStatus, BestRelease
<1>5. CASE Answer
  <2>1. best # 0 => list[best].url # NoUrl
    <3>1. best # 0 => Offered(best)
      BY <1>0, <1>5 DEF Answer, ScanInv
    <3> QED
      BY <3>1 DEF Offered
  <2>2. UrlMatchesStatus' /\ ScanInv'
    BY <1>5, <2>1 DEF Answer, Conclude, UrlMatchesStatus, ScanInv
  <2>3. BestRelease'
    BY <1>5, AnswerKeeps
  <2> QED
    BY <1>1, <2>2, <2>3 DEF UpdateInv
<1> QED
  BY <1>2, <1>3, <1>4, <1>5 DEF Query

LEMMA CheckKeeps ==
  ASSUME UpdateInv, CheckUpdates, clicked' \in BOOLEAN PROVE UpdateInv'
<1>0. UpdateTypeOK /\ UrlMatchesStatus /\ ScanInv /\ BestRelease
  BY DEF UpdateInv
<1>1. CASE checking
  BY <1>0, <1>1 DEF CheckUpdates, UpdateInv, UpdateTypeOK, UrlMatchesStatus, ScanInv,
                    BestRelease, Offered, VersionOf
<1>2. CASE ~checking
  BY <1>0, <1>2 DEF CheckUpdates, UpdateInv, UpdateTypeOK, UrlMatchesStatus, ScanInv, BestRelease
<1> QED
  BY <1>1, <1>2

LEMMA UpdateUnchanged == UpdateInv /\ UNCHANGED updVars => UpdateInv'
<1> SUFFICES ASSUME UpdateInv, UNCHANGED updVars PROVE UpdateInv'
  OBVIOUS
<1>0. UpdateTypeOK /\ UrlMatchesStatus /\ ScanInv /\ BestRelease
  BY DEF UpdateInv
<1>1. \A j : (Offered(j) <=> Offered(j)') /\ VersionOf(j)' = VersionOf(j)
  BY Zenon DEF updVars, Offered, VersionOf
<1>2. UpdateTypeOK'
  BY <1>0, Zenon DEF updVars, UpdateTypeOK
<1>3. UrlMatchesStatus'
  BY <1>0 DEF updVars, UrlMatchesStatus
<1>4. ScanInv'
  BY <1>0, <1>1, Zenon DEF updVars, ScanInv
<1>5. BestRelease'
  BY <1>0, <1>1, Zenon DEF updVars, BestRelease
<1> QED
  BY <1>2, <1>3, <1>4, <1>5 DEF UpdateInv

LEMMA SettingsUnchanged == SettingsInv /\ UNCHANGED setVars => SettingsInv'
  BY DEF setVars, SettingsInv, SettingsTypeOK, MutexInv, OneInstance, DiskInv, SettingsSurvive,
         FileMatchesEngine, Running

-----------------------------------------------------------------------------
(* The composition *)

StartupInv == SettingsInv /\ UpdateInv

LEMMA SettingsStepKeeps ==
  ASSUME SettingsInv, NEW i \in Instance, SettingsStep(i) \/ Load(i) \/ Leave(i) \/ End(i)
  PROVE  SettingsInv'
  BY SettingsTypes, SettingsMutex, SettingsKeep DEF SettingsInv

\* The inductive invariant of the program's life holds in every reachable state.
THEOREM StartupInvariant == Spec => []StartupInv
<1>1. Init => StartupInv
  BY SettingsStart, UpdateStart DEF Init, StartupInv
<1>2. StartupInv /\ [Next]_vars => StartupInv'
  <2> SUFFICES ASSUME StartupInv, [Next]_vars PROVE StartupInv'
    OBVIOUS
  <2>0. SettingsInv /\ UpdateInv
    BY DEF StartupInv
  <2>1. ASSUME NEW i \in Instance, SettingsStep(i), UNCHANGED updVars PROVE StartupInv'
    BY <2>0, <2>1, SettingsStepKeeps, UpdateUnchanged DEF StartupInv
  <2>2. ASSUME NEW i \in Instance, Boot(i) PROVE StartupInv'
    <3>1. Load(i) /\ CheckUpdates /\ clicked' = clicked /\ clicked \in BOOLEAN
      BY <2>0, <2>2 DEF Boot, UpdateInv, UpdateTypeOK
    <3> QED
      BY <2>0, <3>1, SettingsStepKeeps, CheckKeeps DEF StartupInv
  <2>3. ASSUME NEW i \in Instance, EndOf(i) PROVE StartupInv'
    <3>1. SettingsInv'
      BY <2>0, <2>3, SettingsStepKeeps DEF EndOf
    <3>2. CASE Running(i)
      <4>1. /\ current' = current /\ checking' = FALSE /\ status' = "checking" /\ url' = NoUrl
            /\ query' = "none" /\ list' = <<>> /\ scan' = 1 /\ best' = 0 /\ clicked' = FALSE
        BY <2>3, <3>2 DEF EndOf
      <4>2. Len(list') = 0
        BY <4>1
      <4>3. scan' \in 1..Len(list')+1 /\ best' \in 0..Len(list')
        BY <4>1, <4>2, SMT
      <4>4. UpdateTypeOK'
        BY <2>0, <4>1, <4>3, Zenon DEF UpdateInv, UpdateTypeOK
      <4>5. UrlMatchesStatus' /\ ScanInv' /\ BestRelease'
        BY <4>1 DEF UrlMatchesStatus, ScanInv, BestRelease
      <4> QED
        BY <3>1, <4>4, <4>5 DEF UpdateInv, StartupInv
    <3>3. CASE ~Running(i)
      BY <2>0, <2>3, <3>1, <3>3, UpdateUnchanged DEF EndOf, StartupInv
    <3> QED
      BY <3>2, <3>3
  <2>4. ASSUME UpdateStep, UNCHANGED setVars PROVE StartupInv'
    <3>1. CASE Query
      BY <2>0, <2>4, <3>1, QueryKeeps, SettingsUnchanged DEF StartupInv
    <3>2. CASE ClickUpdate
      BY <2>0, <2>4, <3>2, SettingsUnchanged
         DEF ClickUpdate, StartupInv, UpdateInv, UpdateTypeOK, UrlMatchesStatus, ScanInv,
             BestRelease, Offered, VersionOf
    <3>3. CASE CheckAgain
      BY <2>0, <2>4, <3>3, CheckKeeps, SettingsUnchanged DEF CheckAgain, StartupInv
    <3> QED
      BY <2>4, <3>1, <3>2, <3>3 DEF UpdateStep
  <2>5. CASE UNCHANGED vars
    BY <2>0, <2>5, SettingsUnchanged, UpdateUnchanged DEF vars, StartupInv
  <2> QED
    BY <2>1, <2>2, <2>3, <2>4, <2>5 DEF Next
<1> QED
  BY <1>1, <1>2, PTL DEF Spec

\* Types, whatever files and lists there are (engine_windows.go, update_check.go).
THEOREM StartupTypes == Spec => []TypeOK
<1>1. StartupInv => TypeOK
  BY DEF StartupInv, SettingsInv, UpdateInv, TypeOK
<1> QED
  BY <1>1, StartupInvariant, PTL

\* However many processes are started and however they end, one of them is in main
\* past the mutex at a time (qol_windows.go:26-40, main_windows.go:754-765).
THEOREM SingleInstance == Spec => []OneInstance
<1>1. StartupInv => OneInstance
  BY DEF StartupInv, SettingsInv
<1> QED
  BY <1>1, StartupInvariant, PTL

\* The settings chosen last come back unless the process ended while it wrote
\* them (engine_windows.go:99-107, 127-145).
THEOREM SettingsRemembered == Spec => []SettingsSurvive
<1>1. StartupInv => SettingsSurvive
  BY DEF StartupInv, SettingsInv
<1> QED
  BY <1>1, StartupInvariant, PTL

\* The file says what the fields of the engine say, or cannot be read (engine_windows.go:159-195).
THEOREM FileFollowsEngine == Spec => []FileMatchesEngine
<1>1. StartupInv => FileMatchesEngine
  BY DEF StartupInv, SettingsInv
<1> QED
  BY <1>1, StartupInvariant, PTL

\* One check at a time, and a URL exactly where one is offered
\* (engine_windows.go:228-265).
THEOREM UrlFollowsStatus == Spec => []UrlMatchesStatus
<1>1. StartupInv => UrlMatchesStatus
  BY DEF StartupInv, UpdateInv
<1> QED
  BY <1>1, StartupInvariant, PTL

\* The newest release is offered, for any list in any order and any kinds of
\* prerelease (update_check.go:75-171).
THEOREM NewestOffered == Spec => []BestRelease
<1>1. StartupInv => BestRelease
  BY DEF StartupInv, UpdateInv
<1> QED
  BY <1>1, StartupInvariant, PTL

\* compareSemVersion is the order Before, irreflexive and transitive, so that the
\* release offered does not depend on the order of the answer.
THEOREM VersionsOrdered ==
  \A a, b, c \in Version : /\ Compare(a, b) > 0 <=> Before(b, a)
                          /\ ~Before(a, a)
                          /\ Before(a, b) /\ Before(b, c) => Before(a, c)
  BY CompareIsBefore, BeforeIrreflexive, BeforeTransitive
=============================================================================
