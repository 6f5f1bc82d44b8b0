---------------------------- MODULE RuntimeProbe ----------------------------
(***************************************************************************)
(* The search for a compatible aircraft in the running simulator: attach   *)
(* in engine_windows.go, the adapter of adapter_wasm_windows.go, and the   *)
(* reads of winproc_windows.go they rest on.  The aircraft's memory goes   *)
(* on changing between any two reads, and until it settles a read can fail *)
(* where it would succeed a moment later.                                  *)
(*                                                                         *)
(* A module stands for what moduleCacheKey tells apart: process, base,     *)
(* size and path.  An image is what is loaded there:                       *)
(*   exports[n]  where the name n leads: to the cell that holds the        *)
(*               pointer to the linear memory, or to something else        *)
(*   hidden      names that ReadProcessMemory does not reach               *)
(***************************************************************************)
EXTENDS ProfileMerge

CONSTANTS
  Module,     \* the keys under which modules are listed
  Place,      \* Place[m]: the place of m in the snapshot of the modules
  Hinted,     \* Hinted[m]: the hint that names the module
  Generated,  \* the modules whose name has the form of MSFS' generated names
  Ending,     \* Ending[n]: the suffixes of the export name n
  Images,     \* what can be loaded as a module
  Base,       \* addresses of linear memories
  Contents,   \* what a linear memory can hold by offset: "text", "junk", "gone" (it
              \* cannot be read), or the value of a message selector: a word or "zero"
  Nil, Low    \* nothing; a pointer below 0x10000

Names == DOMAIN Ending
List  == UNION {[N -> {"cell", "other"}] : N \in SUBSET Names}
Image == {i \in [exports : List, hidden : SUBSET Names] :
            i.hidden \subseteq DOMAIN i.exports}

\* aircraftAttachment, with the side whose layout the engine reads
Attachment == [profile : Nat, module : Module, linear : Base, side : Side]

ASSUME WorldAssumption ==
  /\ Place \in [Module -> Nat]
  /\ \A m, n \in Module : Place[m] = Place[n] => m = n
  /\ Images \subseteq Image
  /\ Ending \in [Names -> SUBSET Text]
  /\ Nil \notin Images \cup Base \cup Module \cup List \cup Attachment
  /\ Low \notin Base

VARIABLES
  image,      \* image[m]: the image loaded as m, or Nil
  cell,       \* cell[m]: the pointer in the cell of m
  memory,     \* memory[b]: what is at b
  steady,     \* the simulator does not change any more
  cache,      \* exportCache: the names read from a module, or Nil
  pc,         \* where attach is
  pi,         \* the profile it tries
  queue,      \* the modules it has not tried with this profile
  linear,     \* the pointer read from the module
  check,      \* the next block to validate
  closest,    \* a candidate has been rejected in this search
  att,        \* what the engine is attached to, or Nil
  verdict,    \* the first line of e.buildStatus
  mods,       \* the modules listed at the start of the search
  clean       \* auxiliary: nothing changed and no read failed by chance since then

worldVars == <<image, cell, memory, steady>>
probeVars == <<pc, pi, queue, linear, check, closest, mods>>
vars == <<mergeVars, worldVars, cache, probeVars, att, verdict, clean>>

Pointer == Base \cup {Low, Nil}

-----------------------------------------------------------------------------
(* The simulator *)

\* Something changes: a module is loaded, unloaded or replaced, a pointer is
\* set, a memory is written, allocated or freed.
Change ==
  /\ ~steady /\ clean' = FALSE
  /\ \/ /\ \E m \in Module, i \in Images \cup {Nil} :
             image' = [image EXCEPT ![m] = i]
        /\ UNCHANGED <<cell, memory>>
     \/ /\ \E m \in Module, c \in Pointer : cell' = [cell EXCEPT ![m] = c]
        /\ UNCHANGED <<image, memory>>
     \/ /\ \E b \in Base, c \in Contents : memory' = [memory EXCEPT ![b] = c]
        /\ UNCHANGED <<image, cell>>
  /\ UNCHANGED <<mergeVars, steady, cache, probeVars, att, verdict>>

Settle ==
  /\ ~steady /\ steady' = TRUE
  /\ UNCHANGED <<mergeVars, image, cell, memory, cache, probeVars, att, verdict, clean>>

\* A read that fails by chance, as in a transition of the runtime.
Chance == ~steady /\ clean' = FALSE

Keep == clean' = clean

-----------------------------------------------------------------------------
(* Modules and their exports *)

\* listModules
Snapshot == {m \in Module : image[m] # Nil}

Rank(p, m) == IF Hinted[m] \in p.hints THEN 0
              ELSE IF m \in Generated THEN 1 ELSE 2

\* orderModulesByHints, a stable sort by rank: p looks at m before n.
TriedBefore(p, m, n) ==
  IF p.hints = {} \/ Rank(p, m) = Rank(p, n) THEN Place[m] < Place[n]
  ELSE Rank(p, m) < Rank(p, n)

\* remotePEExports: a name that cannot be read is left out, without an error.
Readable(i) == [n \in DOMAIN i.exports \ i.hidden |-> i.exports[n]]

\* exportBySuffix: any of the names that end so.
WithSuffix(list, s) == {n \in DOMAIN list : s \in Ending[n]}

\* hasAllExportSuffixes, and the lookup of the linear-memory export
Matches(list, p) ==
  \A s \in p.required \cup {p.linear} : WithSuffix(list, s) # {}

\* What validateProfileMemory reads, in this order.
LayoutChecks(l) ==
  [i \in 1..Len(l.blocks) |-> [at |-> l.blocks[i], text |-> TRUE]]
    \o (IF l.selector = 0 THEN <<>> ELSE <<[at |-> l.selector, text |-> FALSE]>>)

\* MUTANT: the first officer's layout is not validated.
ChecksCaptainOnly(p) == LayoutChecks(p.layout["captain"])

Checks(p) == LayoutChecks(p.layout["captain"]) \o LayoutChecks(p.layout["copilot"])

\* Validated: readable, and plausible as text where it is a block of text.
Passes(b, c) == IF c.text THEN memory[b][c.at] = "text" ELSE memory[b][c.at] # "gone"

-----------------------------------------------------------------------------
(* attach *)

Current == profiles[pi]
Here    == CHOOSE m \in queue : \A n \in queue \ {m} : TriedBefore(Current, m, n)

NextModule == pc' = "module" /\ queue' = queue \ {Here}

\* MUTANT: closest is a field that survives the search.
StartKeepsClosest ==
  /\ pc = "idle" /\ mpc = "loaded"
  /\ mods' = Snapshot
  /\ pc' = "profile" /\ pi' = 1 /\ clean' = TRUE
  /\ UNCHANGED <<mergeVars, worldVars, cache, queue, linear, check, closest, att, verdict>>

\* MUTANT: the search starts at the profile it stopped at.
StartWhereItStopped ==
  /\ pc = "idle" /\ mpc = "loaded"
  /\ mods' = Snapshot
  /\ pc' = "profile" /\ closest' = FALSE /\ clean' = TRUE
  /\ UNCHANGED <<mergeVars, worldVars, cache, pi, queue, linear, check, att, verdict>>

\* An attempt of the loop: the modules are listed and the process is opened.  If
\* either fails the next attempt starts anew.
StartProbe ==
  /\ pc = "idle" /\ mpc = "loaded"
  /\ mods' = Snapshot
  /\ pc' = "profile" /\ pi' = 1 /\ closest' = FALSE /\ clean' = TRUE
  /\ UNCHANGED <<mergeVars, worldVars, cache, queue, linear, check, att, verdict>>

\* A profile for another adapter than the one there is, is passed over.
SkipProfile ==
  /\ pc = "profile" /\ pi <= Len(profiles) /\ Current.adapter # Wasm
  /\ pi' = pi + 1 /\ Keep
  /\ UNCHANGED <<mergeVars, worldVars, cache, pc, queue, linear, check, closest, mods, att, verdict>>

TryProfile ==
  /\ pc = "profile" /\ pi <= Len(profiles) /\ Current.adapter = Wasm
  /\ queue' = mods /\ pc' = "module" /\ Keep
  /\ UNCHANGED <<mergeVars, worldVars, cache, pi, linear, check, closest, mods, att, verdict>>

NextProfile ==
  /\ pc = "module" /\ queue = {}
  /\ pc' = "profile" /\ pi' = pi + 1 /\ Keep
  /\ UNCHANGED <<mergeVars, worldVars, cache, queue, linear, check, closest, mods, att, verdict>>

NothingFound ==
  /\ pc = "profile" /\ pi > Len(profiles)
  /\ verdict' = IF closest THEN "rejected" ELSE "scanning"
  /\ pc' = "idle" /\ mods' = {} /\ Keep
  /\ UNCHANGED <<mergeVars, worldVars, cache, pi, queue, linear, check, closest, att>>

\* moduleExports fails: the module is passed over, and nothing is remembered.
ExportsFail ==
  /\ pc = "module" /\ queue # {} /\ cache[Here] = Nil
  /\ (image[Here] = Nil /\ Keep) \/ Chance
  /\ NextModule
  /\ UNCHANGED <<mergeVars, worldVars, cache, pi, linear, check, closest, mods, att, verdict>>

\* moduleExports succeeds, and keeps the list under the module's key.
ReadExports ==
  /\ pc = "module" /\ queue # {} /\ cache[Here] = Nil /\ image[Here] # Nil
  /\ cache' = [cache EXCEPT ![Here] = Readable(image[Here])]
  /\ Keep
  /\ UNCHANGED <<mergeVars, worldVars, probeVars, att, verdict>>

\* MUTANT: a module that is no candidate ends the search with this profile.
MismatchEndsProfile ==
  /\ pc = "module" /\ queue # {} /\ cache[Here] # Nil /\ ~Matches(cache[Here], Current)
  /\ pc' = "module" /\ queue' = {} /\ Keep
  /\ UNCHANGED <<mergeVars, worldVars, cache, pi, linear, check, closest, mods, att, verdict>>

Mismatch ==
  /\ pc = "module" /\ queue # {} /\ cache[Here] # Nil /\ ~Matches(cache[Here], Current)
  /\ NextModule /\ Keep
  /\ UNCHANGED <<mergeVars, worldVars, cache, pi, linear, check, closest, mods, att, verdict>>

\* What ReadU64 may give at the export that was picked; Nil is a failure.
Pointers(m, where) ==
  IF image[m] = Nil THEN {Nil}
  ELSE IF where = "cell" /\ (\A n \in DOMAIN cache[m] \cap DOMAIN image[m].exports :
                               cache[m][n] = image[m].exports[n])
  THEN {cell[m]} ELSE Pointer

Candidate(m, ptr) ==
  /\ cache[m] # Nil /\ Matches(cache[m], Current)
  /\ \E n \in WithSuffix(cache[m], Current.linear) : ptr \in Pointers(m, cache[m][n])

\* The locals of one attempt are gone with it.
Forget == linear' = Nil /\ check' = 1

Reject == closest' = TRUE /\ NextModule /\ Forget

\* The pointer cannot be read, or is no plausible address.
BadPointer ==
  /\ pc = "module" /\ queue # {} /\ cache[Here] # Nil
  /\ \/ Keep /\ (Candidate(Here, Nil) \/ Candidate(Here, Low))
     \/ Chance /\ Matches(cache[Here], Current)
  /\ Reject
  /\ UNCHANGED <<mergeVars, worldVars, cache, pi, mods, att, verdict>>

ReadPointer ==
  /\ pc = "module" /\ queue # {}
  /\ \E b \in Base : Candidate(Here, b) /\ linear' = b
  /\ pc' = "validate" /\ check' = 1 /\ Keep
  /\ UNCHANGED <<mergeVars, worldVars, cache, pi, queue, closest, mods, att, verdict>>

BlockFails ==
  /\ pc = "validate" /\ check <= Len(Checks(Current))
  /\ (~Passes(linear, Checks(Current)[check]) /\ Keep) \/ Chance
  /\ Reject
  /\ UNCHANGED <<mergeVars, worldVars, cache, pi, mods, att, verdict>>

BlockPasses ==
  /\ pc = "validate" /\ check <= Len(Checks(Current))
  /\ Passes(linear, Checks(Current)[check])
  /\ check' = check + 1 /\ Keep
  /\ UNCHANGED <<mergeVars, worldVars, cache, pc, pi, queue, linear, closest, mods, att, verdict>>

\* The first candidate that passes is taken, with the layout of the selected CDU.
Accept ==
  /\ pc = "validate" /\ check > Len(Checks(Current))
  /\ \E s \in Side : att' = [profile |-> pi, module |-> Here, linear |-> linear, side |-> s]
  /\ verdict' = "attached" /\ pc' = "attached" /\ Keep
  /\ queue' = {} /\ mods' = {} /\ Forget
  /\ UNCHANGED <<mergeVars, worldVars, cache, pi, closest>>

Attached       == profiles[att.profile]
AttachedLayout == Attached.layout[att.side]

\* The block of the message that the selector names, if it names one: validation
\* never reads it.
NamedMessage ==
  IF AttachedLayout.selector = 0 THEN {}
  ELSE LET word == memory[att.linear][AttachedLayout.selector]
       IN {m.block : m \in {x \in Attached.messages : x.word = word /\ word # "zero"}}

\* What readFrame reads; the selector only if the profile has messages.
FrameBlocks ==
  {AttachedLayout.blocks[i] : i \in 1..Len(AttachedLayout.blocks)} \cup NamedMessage
    \cup (IF AttachedLayout.selector = 0 \/ Attached.messages = {}
          THEN {} ELSE {AttachedLayout.selector})

\* A frame of that side cannot be read: the engine lets go and searches anew.
Detach ==
  /\ pc = "attached"
  /\ \/ Keep /\ \E b \in FrameBlocks : memory[att.linear][b] = "gone"
     \/ Chance
  /\ att' = Nil /\ pc' = "idle"
  /\ UNCHANGED <<mergeVars, worldVars, cache, pi, queue, linear, check, closest, mods, verdict>>

-----------------------------------------------------------------------------
Init ==
  /\ MergeInit
  /\ image \in [Module -> Images \cup {Nil}] /\ cell \in [Module -> Pointer]
  /\ memory \in [Base -> Contents] /\ steady = FALSE
  /\ cache = [m \in Module |-> Nil]
  /\ pc = "idle" /\ pi = 1 /\ queue = {} /\ linear = Nil /\ check = 1
  /\ closest = FALSE /\ mods = {} /\ att = Nil /\ verdict = "waiting"
  /\ clean = FALSE

LoadStep == Load /\ UNCHANGED <<worldVars, cache, probeVars, att, verdict, clean>>

Probe ==
  \/ StartProbe \/ SkipProfile \/ TryProfile \/ NextProfile \/ NothingFound
  \/ ExportsFail \/ ReadExports \/ Mismatch \/ BadPointer \/ ReadPointer
  \/ BlockFails \/ BlockPasses \/ Accept \/ Detach

Next == LoadStep \/ Change \/ Settle \/ Probe

Spec == Init /\ [][Next]_vars

\* The loop tries again as long as the bridge is requested (engine_windows.go:418-423),
\* and the profiles are loaded before it starts.
FairSpec == Spec /\ WF_vars(LoadStep) /\ WF_vars(Probe)

-----------------------------------------------------------------------------
TypeOK ==
  /\ image \in [Module -> Images \cup {Nil}] /\ cell \in [Module -> Pointer]
  /\ memory \in [Base -> Contents] /\ steady \in BOOLEAN /\ clean \in BOOLEAN
  /\ cache \in [Module -> List \cup {Nil}]
  /\ pc \in {"idle", "profile", "module", "validate", "attached"}
  /\ pi \in 1..Len(profiles) + 1 /\ queue \subseteq Module /\ mods \subseteq Module
  /\ linear \in Base \cup {Nil}
  /\ check \in Nat \ {0} /\ closest \in BOOLEAN
  /\ verdict \in {"waiting", "rejected", "scanning", "attached"}
  /\ att \in Attachment \cup {Nil}

\* What the list kept for a module says is still true of it.
Fresh(m) == cache[m] # Nil /\ image[m] # Nil /\ cache[m] = image[m].exports

\* All that a profile asks of a linear memory.
TextBlocks(p, b) ==
  \A s \in Side : /\ \A i \in 1..Len(p.layout[s].blocks) :
                       memory[b][p.layout[s].blocks[i]] = "text"
                  /\ p.layout[s].selector # 0 =>
                       memory[b][p.layout[s].selector] # "gone"

\* A module that suits a profile whichever of its names is picked.
Suits(p, m, list) ==
  /\ p.adapter = Wasm /\ Matches(list, p)
  /\ \A n \in WithSuffix(list, p.linear) : list[n] = "cell"
  /\ cell[m] \in Base /\ TextBlocks(p, cell[m])

\* Nothing is read continuously from a memory that does not hold all the blocks
\* of both layouts, reached through a module with all the exports of the profile:
\* the four requirements of the architecture's compatibility safety
\* (adapter_wasm_windows.go:95-188, engine_windows.go:534-564).
AcceptsOnlyCompatible ==
  att # Nil /\ clean =>
    LET p == profiles[att.profile] IN
      /\ p.adapter = Wasm /\ TextBlocks(p, att.linear)
      /\ Fresh(att.module) =>
           /\ Matches(image[att.module].exports, p)
           /\ Suits(p, att.module, image[att.module].exports) => att.linear = cell[att.module]

\* What the list kept for m shows does not suit p.
PassedOver(p, m) == Fresh(m) => ~Suits(p, m, image[m].exports)

\* Of the profiles that suit what is loaded, the first of the list is attached
\* (engine_windows.go:535-605), and of the modules that suit it, the one the hints
\* and the snapshot put first (adapter_wasm_windows.go:41-62, 95-98).
EarlierProfileWins ==
  att # Nil /\ clean =>
    /\ \A i \in 1..att.profile - 1, m \in Module : PassedOver(profiles[i], m)
    /\ LET p == profiles[att.profile] IN
       \A m \in Module : TriedBefore(p, m, att.module) => PassedOver(p, m)

\* Modules with the export signature of a profile.
Candidates == {m \in Module : /\ image[m] # Nil /\ cache[m] # Nil
                              /\ \E i \in 1..Len(profiles) :
                                   /\ profiles[i].adapter = Wasm
                                   /\ Matches(cache[m], profiles[i])}

\* The user is told of a rejected candidate exactly if a module had the export
\* signature of a profile (engine_windows.go:608-622, adapter_wasm_windows.go:97-125).
RejectionExplained ==
  pc = "idle" /\ clean =>
    /\ verdict = "rejected" => Candidates # {}
    /\ verdict = "scanning" => Candidates = {}

\* A module whose exports are known in full, or will be when they are read.
Listable(m) == image[m] # Nil /\ (Fresh(m) \/ (cache[m] = Nil /\ image[m].hidden = {}))

Recognisable ==
  /\ steady /\ mpc = "loaded"
  /\ \E i \in 1..Len(profiles), m \in Module :
       Listable(m) /\ Suits(profiles[i], m, image[m].exports)

\* The selector names a message that cannot be read.
MessageLost == att # Nil /\ \E b \in NamedMessage : memory[att.linear][b] = "gone"

\* An aircraft that suits a profile is found once the simulator has settled, and
\* kept: whatever failed before, whatever its module is called, wherever its
\* profile stands in the list (engine_windows.go:376-448, 524-623).  The exception
\* is a message outside the memory, which validation does not look at: the engine
\* attaches, fails to read it, lets go and attaches again, for ever.
Recognised == Recognisable ~> ([](att # Nil) \/ []<>MessageLost)
=============================================================================
