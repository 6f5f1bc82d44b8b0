---------------------------- MODULE ProfileMerge ----------------------------
(***************************************************************************)
(* The aircraft profiles of the bridge: the built-in ones, and how the     *)
(* profiles.json beside the program is laid over them at start-up          *)
(* (loadProfiles in engine_windows.go, mergeProfileJSON in profiles.go).   *)
(*                                                                         *)
(* A profile is a record                                                   *)
(*   id, adapter, name, maker  texts; maker stands for manufacturer and    *)
(*                             aircraft joined by a space                  *)
(*   required                  the export suffixes a module must have      *)
(*   linear                    the suffix of the linear-memory export      *)
(*   hints                     names of modules to look at first           *)
(*   messages                  what a message selector can hold, with the  *)
(*                             blocks of the messages it names then        *)
(*   layout[side]              blocks (offsets of the six text blocks),    *)
(*                             selector (0: none) and url                  *)
(***************************************************************************)
EXTENDS Naturals, Sequences

CONSTANTS
  Text,       \* the texts that occur in a profile
  Empty,      \* the empty text
  Trim,       \* Trim[t]: t without the blanks around it
  Wasm,       \* the adapter's ID, wasmCDUAdapterID
  Memory,     \* the suffix "_WASM_linearmemory0"
  Callbacks,  \* the suffixes of the two display callbacks
  Words,      \* the words a memory can hold that are keys of fmsMessages
  BuiltIn,    \* defaultProfiles()
  Files,      \* what profiles.json can hold: Absent, Garbled or a sequence of profiles
  Absent,     \* the file is not there or cannot be read
  Garbled     \* the file is not the JSON of a list of profiles

Side == {"captain", "copilot"}

Layout == [blocks : Seq(Nat), selector : Nat, url : Text]

Profile == [id : Text, adapter : Text, name : Text, maker : Text,
            required : SUBSET Text, linear : Text, hints : SUBSET Text,
            messages : SUBSET [word : Words, block : Nat],
            layout : [Side -> Layout]]

ASSUME TextAssumption ==
  /\ {Empty, Wasm, Memory} \cup Callbacks \subseteq Text
  /\ Empty \notin {Wasm, Memory}
  /\ Trim \in [Text -> Text]
  /\ \A t \in Text : Trim[Trim[t]] = Trim[t]

\* No two built-in profiles have one ID, even after normalisation.
ASSUME BuiltInAssumption ==
  /\ BuiltIn \in Seq(Profile)
  /\ \A i, j \in 1..Len(BuiltIn) :
       Trim[BuiltIn[i].id] = Trim[BuiltIn[j].id] => i = j

ASSUME FilesAssumption ==
  Files \subseteq Seq(Profile) \cup {Absent, Garbled}

VARIABLES
  file,       \* what profiles.json holds at start-up
  profiles,   \* e.profiles
  out,        \* the list that mergeProfileJSON builds
  next,       \* the entry of the file it looks at
  mpc         \* "read", "merge" or "loaded"

mergeVars == <<file, profiles, out, next, mpc>>

-----------------------------------------------------------------------------
OrElse(t, default) == IF t = Empty THEN default ELSE t

\* normalizeProfile
Normalize(p) ==
  LET adapter  == OrElse(Trim[p.adapter], Wasm)
      linear   == IF adapter = Wasm THEN OrElse(p.linear, Memory) ELSE p.linear
      required == IF adapter = Wasm /\ p.required = {}
                  THEN {linear} \cup Callbacks ELSE p.required
  IN [id |-> Trim[p.id], adapter |-> adapter,
      name |-> OrElse(Trim[p.name], Trim[p.maker]), maker |-> p.maker,
      required |-> required, linear |-> linear, hints |-> p.hints,
      messages |-> p.messages, layout |-> p.layout]

CompleteLayout(l) ==
  /\ \A i \in 1..Len(l.blocks) : l.blocks[i] # 0
  /\ Trim[l.url] # Empty

\* validateProfile, of a normalised profile
Valid(p) ==
  /\ Empty \notin {p.id, p.adapter, p.name}
  /\ p.adapter = Wasm => /\ p.linear # Empty /\ p.required # {}
                         /\ \A s \in Side : CompleteLayout(p.layout[s])

Entry == Normalize(file[next])

\* index[id], the map of mergeProfileJSON from IDs to places in out
Holds(i, id) == i \in 1..Len(out) /\ out[i].id = id
Known(id) == \E i \in 1..Len(out) : Holds(i, id)

MergeInit ==
  /\ file \in Files /\ profiles = BuiltIn
  /\ out = <<>> /\ next = 1 /\ mpc = "read"

\* No file, or no list of profiles in it: the built-in profiles stay.
IgnoreFile ==
  /\ mpc = "read" /\ file \in {Absent, Garbled}
  /\ mpc' = "loaded"
  /\ UNCHANGED <<file, profiles, out, next>>

StartMerge ==
  /\ mpc = "read" /\ file \notin {Absent, Garbled}
  /\ out' = [i \in 1..Len(profiles) |-> Normalize(profiles[i])]
  /\ mpc' = "merge"
  /\ UNCHANGED <<file, profiles, next>>

\* MUTANT: an entry that is not valid is skipped, and those before it kept.
RejectKeepsPrefix ==
  /\ mpc = "merge" /\ next <= Len(file) /\ ~Valid(Entry)
  /\ profiles' = out /\ mpc' = "loaded"
  /\ UNCHANGED <<file, out, next>>

\* An entry that is not valid: everything read so far is thrown away.
RejectFile ==
  /\ mpc = "merge" /\ next <= Len(file) /\ ~Valid(Entry)
  /\ mpc' = "loaded"
  /\ UNCHANGED <<file, profiles, out, next>>

ReplaceProfile ==
  /\ mpc = "merge" /\ next <= Len(file) /\ Valid(Entry)
  /\ \E i \in 1..Len(out) :
       /\ Holds(i, Entry.id)
       /\ \A j \in i+1..Len(out) : ~Holds(j, Entry.id)
       /\ out' = [out EXCEPT ![i] = Entry]
  /\ next' = next + 1
  /\ UNCHANGED <<file, profiles, mpc>>

\* MUTANT: an ID is looked up among the built-in profiles only.
AddWithoutIndex ==
  /\ mpc = "merge" /\ next <= Len(file) /\ Valid(Entry)
  /\ ~\E i \in 1..Len(BuiltIn) : Holds(i, Entry.id)
  /\ out' = Append(out, Entry) /\ next' = next + 1
  /\ UNCHANGED <<file, profiles, mpc>>

AddProfile ==
  /\ mpc = "merge" /\ next <= Len(file) /\ Valid(Entry) /\ ~Known(Entry.id)
  /\ out' = Append(out, Entry)
  /\ next' = next + 1
  /\ UNCHANGED <<file, profiles, mpc>>

FinishMerge ==
  /\ mpc = "merge" /\ next > Len(file)
  /\ profiles' = out /\ mpc' = "loaded"
  /\ UNCHANGED <<file, out, next>>

Load == \/ IgnoreFile \/ StartMerge \/ RejectFile
        \/ ReplaceProfile \/ AddProfile \/ FinishMerge

-----------------------------------------------------------------------------
\* Two profiles of the list never have the same ID, so that the report of a
\* profile names one (profiles.go:159-175).
UniqueIds ==
  \A i, j \in 1..Len(profiles) : profiles[i].id = profiles[j].id => i = j

Given(j) == Normalize(file[j])
LastOf(j) == \A k \in j+1..Len(file) : Given(k).id # Given(j).id

\* The file counts as a whole or not at all, so that the profiles in use are never
\* those of one part of it; of the entries with one ID the last counts; a built-in
\* profile keeps its place, replaced by the entry with its ID if there is one
\* (profiles.go:153-177, engine_windows.go:114-126).
MergedAsWhole ==
  mpc = "loaded" =>
    \/ /\ profiles = BuiltIn
       /\ file \in {Absent, Garbled} \/ \E j \in 1..Len(file) : ~Valid(Given(j))
    \/ /\ file \notin {Absent, Garbled}
       /\ \A j \in 1..Len(file) : Valid(Given(j))
       /\ Len(profiles) >= Len(BuiltIn)
       /\ \A i \in 1..Len(BuiltIn) : profiles[i].id = Trim[BuiltIn[i].id]
       /\ \A j \in 1..Len(file) : LastOf(j) =>
            \E i \in 1..Len(profiles) : profiles[i] = Given(j)
       /\ \A i \in 1..Len(profiles) :
            \/ \E j \in 1..Len(file) : LastOf(j) /\ profiles[i] = Given(j)
            \/ /\ i <= Len(BuiltIn) /\ profiles[i] = Normalize(BuiltIn[i])
               /\ \A j \in 1..Len(file) : Given(j).id # profiles[i].id
=============================================================================
