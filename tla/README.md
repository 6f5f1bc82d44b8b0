# OpenAvionicsBridge in TLA+

OpenAvionicsBridge is one Windows program. It finds the running Microsoft
Flight Simulator, recognises a supported aircraft in its memory, reads the
text of the aircraft's CDU (control display unit) out of that memory every
100 ms, and sends it as JSON over a WebSocket to MobiFlight, which shows it on
a hardware CDU. This directory models the parts of the program where things
run beside each other, checks them with TLC and proves the most important
properties with TLAPS.

Contents: 1 the system, 2 the modules, 3 how the models relate to the code,
4 the runs, 5 fairness, 6 the proofs, 7 disagreements found, 8 what is not
modelled, 9 the plan.

## 1. The system

### Components

| Component | Source | State | Operations |
|---|---|---|---|
| Bridge engine | `engine_windows.go` | `bridgeEngine` under `e.mu`: `requested`, `autoStart`, `cdu`, attachment (`handle`, linear base, layout), `ws`, `lastJSON`, `testRunning`, status lines | `setRequested`, `setCDU`, `setAutoStart`, `startTestDisplay`, `Stop`, `snapshot`; `loop` / `step` / `attach` / `readFrame` / `closeResources` |
| Test display | `engine_windows.go:267-334` | a goroutine with its own connection; `testRunning` | dial, send, wait, send again, close, clear the flag |
| Window | `main_windows.go` | `gui.last` (previous snapshot), controls | clicks, the 500 ms timer `updateGUI`, `WM_CLOSE` |
| WebSocket connection | `websocket.go` | `done`, `mu`, the TCP connection | `SendText`, `Close`, `Alive`, `readLoop` |
| Process access | `winproc_windows.go` | none of its own; handles | find the simulator, open, list modules, read memory, read PE exports |
| Aircraft adapter | `adapter_wasm_windows.go` | export cache | match a profile against the modules of the process, validate its layouts |
| Profiles | `profiles.go` | the list of profiles | normalise, validate, merge the built-in list with `profiles.json` |
| Settings | `engine_windows.go:113-158` | `settings.json` | load, save, import from the program's earlier name |
| Renderer | `renderer.go`, `fms_messages*.go` | none | bytes of display memory to a 24 x 14 frame |
| Display JSON | `display_json.go` | none | frame to JSON |
| Update check | `update_check.go`, `engine_windows.go` | status and URL in the engine | fetch releases, compare versions |
| The rest | `qol_windows.go`, logs, reports, painting, the build tool | - | - |

### How they interact

Five kinds of goroutines share the engine. The GUI thread issues commands and
takes snapshots under `e.mu`. The loop goroutine runs `step`, which takes
`e.mu` for short sections and makes its system calls (finding the simulator,
reading memory, dialling, sending) outside it, on copies of the state. A test
display runs in a goroutine of its own and dials the same endpoint. Every
connection has a reader goroutine that answers pings through the same writer
mutex and closes the connection when the peer is gone. An update check is one
more goroutine. Outside, the simulator, the aircraft and MobiFlight come and go
whenever they like.

### What is hard, and what makes each component correct

* **Engine.** Every decision of a step is taken on values that may have changed
  by the time it acts. Correct means: whatever was opened is closed or still
  held by someone; frames only go to the endpoint of the layout they were read
  with; suppressing unchanged frames never hides anything; at most one frame
  follows a Stop; after any failure the bridge recovers by itself; a stopped
  bridge gives everything back; closing the window ends the loop.
* **Test display.** It must close its connection on every path, before it says
  that it is over; it must always end; its picture must go away again.
* **Window.** Updates compare one snapshot with the one before, not with the
  controls. Correct means that Stop and Start are always offered in the end,
  and that what the window shows is what the engine does.
* **WebSocket.** Two goroutines write to one connection, a third may close it,
  and the peer may stall with the mutex held. Frames must not interleave, an
  error must end the connection, every call must return, no reader may outlive
  its connection, and the reader must never lose its place in the byte stream.
* **Adapter.** The same aircraft must be found again whatever was cached and
  whichever read failed. **Profiles.** IDs stay unique, one bad profile drops
  the file and nothing else. **Settings.** What was saved comes back, also when
  the program ends in the middle. **Renderer.** Every cell comes from the layer
  that has precedence. **Update check.** Versions are totally ordered and the
  newest one is offered.

The list of hazards in `PROJECT.json` names, with its line, what could go wrong
in each, and the property that watches it or the reason why none does.

## 2. The modules

| Module | What it is |
|---|---|
| `BridgeEngine` | the loop, the attachment, the link, the test display, the user's commands and the outside world |
| `BridgeEngineProofs` | its inductive invariant and eight theorems |
| `OutputSession` | the abstract specification: what the bridge promises to the two CDU endpoints |
| `BridgeSession` | the refinement mapping from `BridgeEngine` to `OutputSession` |
| `BridgeSessionProofs` | the proof that every step of the engine is a step of `OutputSession` or a stutter, and what follows for live frames |
| `BridgeApp` | `BridgeEngine` composed with the window's controls |
| `BridgeAppProofs` | the window adds no behaviour to the engine; Stop is offered by a window that knows of a start |
| `WsFrame` | frame headers as operators: what the writer makes of a length, what the reader makes of a header |
| `WebSocket` | one connection: its owner, its reader goroutine and the peer, using `WsFrame` |
| `Connection` | the abstract specification of a connection: `SendText` as one step |
| `WebSocketProofs` | lemmas about the headers, the refinement of `Connection`, and eight more theorems |
| `ProfileMerge` | normalising and validating profiles, and the merge of `profiles.json` entry by entry |
| `RuntimeProbe` | the search for a compatible aircraft: modules, export cache, pointer, validation |
| `RuntimeProbeProofs` | the merge, the search and the acceptance of an aircraft, for all profiles, files, modules and memories |
| `Renderer` | decoding, trimming and layering of the text blocks into rows, as operators |
| `FrameRead` | the reading of the blocks of a frame while the aircraft writes them |
| `FrameReadProofs` | a page is shown cell by cell as its uppermost glyphs, for every size and content |
| `Settings` | `settings.json`, the import of the older file, the mutex of the single instance |
| `UpdateCheck` | the order of versions, the choice of a release, overlapping checks |
| `Startup` | `Settings` and `UpdateCheck` composed: the life of the program's processes |
| `StartupProofs` | seven theorems about them, and the order of versions |
| `MCBridgeEngine`, `MCBridgeApp`, `MCWebSocket`, `MCRuntimeProbe`, `MCFrameRead`, `MCStartup` | instances for TLC: values of the constants, symmetry, view, constraints |

How they build on each other:

    OutputSession <- implemented by - BridgeEngine      (mapping: BridgeSession)
                                        ^ extended by
                                      BridgeApp
    Connection   <- implemented by - WebSocket - uses -> WsFrame
    ProfileMerge <- extended by - RuntimeProbe
    Renderer     <- extended by - FrameRead
    Settings, UpdateCheck <- extended by - Startup

`BridgeApp` extends `BridgeEngine`: its actions are those of the engine, each
behind the control that issues it, and the GUI's own variables. `BridgeEngine`
uses of a connection exactly what `WebSocket` promises: `SendText` is one step,
whose error leaves the connection dead (`ImplementsConnection`), the reader closes
it when the peer is gone (`ReaderEnds`), and a call returns (`CallsReturn`). In the same way the actions
`Adopt` and `Reject` of the engine stand for a search of `RuntimeProbe`, and
`ReadOk`, `ReadRetry` and `ReadFail` for an attempt of `FrameRead`. Each of these
parts is modelled twice on purpose, coarse where the engine uses it and fine
where it is looked into.

Definitions named *Mutant* in a comment are not part of the model. Each is what
a plausible mistake would make of a definition; the run that checks a property
must fail when the mutant takes its place.

## 3. How the models relate to the code

### The engine

**Steps.** One action is one stretch of code between two points where another
goroutine can be observed: a section under `e.mu`, or a system call. `pc` says
where `step` is:

    select -> read -> [reread] -> publish -> [dial] -> send -> select     attached
    select -> detect -> found -> attach -> probe -> read ...              detached
    select -> closeDetect -> detect                                       release
    reread -> closeSelect -> select                                       read error
    select -> closeStop -> done                                           Stop

`closeResources` is two actions, because it takes the references under the lock
(`TakeResources`) and closes them outside (`CloseTaken`). The locals of a step
(`req`, `auto`, `proc`, `frame`) are variables and are cleared where they are
not used any more, which only merges states that cannot be told apart.

**Time.** The models have no clock. "Less than a second since the last
detection", "two seconds since the last attempt to connect" and "two seconds
since the last frame" are free choices: both outcomes are possible at any step,
so that every timing of the program is a behaviour of the model. The 100 ms
ticker and the wake channel are both the choice to run another step, and the
2.5 s that a dial can last is the time any other goroutine needs to do anything
in between. Write and read timeouts are failures that may happen.

**Data.** A frame is one value of `Text`; a loaded aircraft is the base address
of its memory, one value of `Gen`; a process is its id. The test picture is
`Pattern`. Status lines are kept as the cases of the program's texts, where a
property needs them. While `calm` is false the aircraft is rewriting its display
memory and calls may fail for no lasting reason; a frame read then may be any
text.

**The outside world** does what it wants: the simulator starts and ends, the
aircraft is loaded, reloaded at another or the same address, and unloaded;
MobiFlight starts, stops, and drops single connections. A frame written to a
connection whose peer is gone (`lost`) disappears without an error until a
write fails or the reader notices. Two assumptions about Windows: a process id
is not reused while a handle to the process is open; and with
`StaleReadable = TRUE` the memory of an aircraft that is gone may stay mapped
and readable.

**`late`** is the only history variable: the live frames sent since `requested`
last became false.

### What the engine promises to a CDU

`OutputSession` knows nothing of loops, locks, handles or connections. It has a
permission to show live frames (`allow`: any, one more, none), the selected CDU,
the CDU of the session with the aircraft, a link to it, the CDU of a test
display, and what the two screens show. The mapping of `BridgeSession`:

| `OutputSession` | `BridgeEngine` |
|---|---|
| `allow` | `Allowed`: open while `requested`; one more while the step under way can still send (`StepMaySend`); shut otherwise |
| `selected` | `cdu` |
| `session` | `layout` while there is a handle, else none |
| `link` | `Alive(ws)` |
| `test` | `tside` while `testRunning`, else none |
| `screen` | `screen` |

### The window

`BridgeApp` puts each command behind the control that issues it. `last` is
`gui.last`, the snapshot of the previous timer message: controls change only
where the next snapshot differs from it. `stopOn` and `combo` are the Stop button
and the selector, which can say something else than `last`.

### The connection

`SendText` is the unlocked look at `done`, the lock with the second look, and
the write with its outcome. `closeDone` and `conn.Close` are one step, since
nobody can tell the moment between them from a moment before or after both. The
write may succeed on any open connection (buffers of a dead peer included) and
may fail when the connection is closed or the peer does not read. Of a frame the
model keeps its kind and its length; the header bytes that carry the length are
written and read exactly as the code does, and a reader that takes too many
bytes goes on into the payload, all of whose bytes are `Fill`. What the reader makes of
them is `LengthRead`, which decides whether the frame is accepted, and a pong has
that length, since it answers with the payload the reader took (`asked` is auxiliary:
the length the peer had written). `Fill` is not 0: the reader would take zeros for a
length and go on from within the payload (section 8). Masks and opcode bits are left out.
Lengths are below 2^24, so three of the eight length bytes carry them.

`Connection` is what the loop and the test display take all this for: `alive` is
`~done`, `result` the outcome of the last call, `ponging` that the reader is
writing. A call delivers its frame whole on a live connection, at a moment when no
pong is being written, or fails and leaves the connection dead.

### Profiles and the search for the aircraft

A profile is a record of what decisions depend on. `ProfileMerge` is the loop of
`mergeProfileJSON`, an action per entry: the first invalid entry throws all away
(`RejectFile`), an entry with a known ID replaces, another is appended. The
map `index` is the relation `Holds` between places and IDs.

`RuntimeProbe` is one pass of `attach` and of the adapter: profiles in order, for each the
modules in the order of its hints (`TriedBefore`: by rank, and by the place in the
snapshot where ranks are equal, since the sort is stable; `Here` is the first that is
left), for each module its exports (read once and kept under the module's key), the
pointer, and the blocks of both layouts. An `Image` is what is loaded as a module: its
names, where each leads, and which names cannot be read. A name leads to the cell with the
pointer or to something else, where any pointer may be found. Which of several exports
with the suffix is taken is a choice, as the code iterates over a map.

An attached bridge reads what `FrameBlocks` says: the text blocks of its side, the message
selector if the profile has messages, and the block of the message that the selector names
(`NamedMessage`). If one of them cannot be read the engine lets go (`Detach`). Validation
has read all of these, and those of the other side, except for the blocks of messages.

The simulator changes anything between any two reads until `Settle`. A read
that fails although it could succeed (`Chance`) is possible until then too.
`clean` is auxiliary: neither has happened since the search began. Some properties
speak of searches that ran undisturbed, for during others nothing can be promised.

### Frames

`FrameRead` reads a block per action, in the order of `readFrameOnce`, while the
aircraft may write any block in between. A failed read starts the frame again
from nothing, a second one gives the attachment up. `Display` is what the
renderer makes of the blocks read, translated function by function in `Renderer`:
cut at the first 0, trimmed by two different sets of blanks, laid over each
other. What it should be is said separately, without the order of painting:
`Standing` says which glyph of a text stands in a column, and `Topmost` takes the
uppermost of several layers. `changed` is auxiliary: something was written since
the attempt began. Code points are the members of a set with a map to glyphs, so
that the properties do not depend on the table of characters.

### Settings, updates and processes

Writing `settings.json` is two actions, truncation (`Save`, `Import`) and content
(`FinishSave`, `FinishImport`), and a process can end anywhere, also in between:
then the file is `Torn`. Each process has its own copy of the engine's fields.
`chosen` and `cut` are auxiliary: what the user chose last, and whether its
writing was cut short. A second process gets a handle to the mutex too, closes it
(`Refuse`) and then shows its message. The first one gives up the mutex when `main` returns
(`Leave`) and is gone some time later (`End`); until then its loop runs (`AutoStart` in
"leaving").

The update check is a request, an answer or a failure, and the scan of the list,
one entry per action. `Parse` and `Compare` are `parseSemVersion` and
`compareSemVersion`; `Before` is the order they are meant to be. Of the suffix of a tag the
model knows what `parseSemVersion` looks at: which stage it begins with (`Opening`), the
number that follows (`Rest`), its place among strings. The click reads a
snapshot (`ClickUpdate`) and commands a check later (`CheckAgain`), so that another
check can start in between.

## 4. The runs

| Run | Checks | Instance |
|---|---|---|
| `engine_safety` | `TypeOK`, `HandlesAccountedFor`, `SocketsAccountedFor`, `LinkMatchesLayout`, `SuppressionIsSound`, `AtMostOneLateFrame`, `TestOverMeansClosed`, `EngineInv`, `ImplementsOutput` | everything may happen, stale memory included; 1 process, 1 address, 2 connections, 1 text; 3.3 million states |
| `live_recovery` | `Converges` | no test display, no closing, auto-start and CDU fixed; 2 texts, transient faults |
| `live_release` | `Converges`, `TestEnds`, `StopReleases`, `QuitReleases` | test displays, Stop and closing, the captain's CDU, started by hand; the simulator may end once, one aircraft, no transient faults |
| `app_controls` | `StopOffered`, `StartOffered` | the window and auto-start; no aircraft, MobiFlight off |
| `ws` | `TypeOK`, `OneWriter`, `InSync`, `PongMatchesPing`, `ImplementsConnection`, `GivesUpOnlyOnTooLong`, `ReaderEnds`, `CallsReturn` | ten lengths, on both sides of every boundary |
| `probe` | `UniqueIds`, `MergedAsWhole`, `AcceptsOnlyCompatible`, `EarlierProfileWins`, `RejectionExplained`, `Recognised` | one built-in profile with a message, four files, two modules, one memory; 610 thousand states |
| `frame` | `PageIsShown`, `MessageIsShown`, `TornFrameRepaired` | three columns, one pair of rows, up to three contents of a block; 310 thousand states |
| `startup` | `OneInstance`, `SettingsSurvive`, `FileMatchesEngine`, `UrlMatchesStatus`, `BestRelease`, `CheckEnds` | two processes, four kinds of old file, six lists of releases; 525 thousand states |
| `app_exclusion`, `app_selected_cdu`, `app_selector`, `ws_127` | one claim each, violated: section 7 | |

**The engine.**

* `ImplementsOutput`: the refinement of section 3. Frames appear on one CDU at a
  time, the one selected when the session began; at most one after a Stop; nobody
  else writes.
* `HandlesAccountedFor`, `SocketsAccountedFor`: an open handle or connection is
  always held by the loop, by `closeResources` on its way to close it, by an
  `attach` under way, or by the test display. Together with `StopReleases`
  (a bridge that stays stopped ends with nothing open) nothing leaks.
* `LinkMatchesLayout`: the CDU may be changed and the bridge restarted between
  any two actions, yet a live connection leads to the endpoint of the layout in
  use, and there is none without an attachment.
* `SuppressionIsSound`: as long as the connection is sound, the CDU shows what
  `lastJSON` remembers, or the test pattern, which the 2 s refresh removes.
* `AtMostOneLateFrame`: a step that was under way when Stop was clicked sends at
  most one frame; no other can begin.
* `TestOverMeansClosed`: the deferred calls of the test display run in the right
  order.
* `Converges`: if from some time on the simulator, the aircraft and MobiFlight
  stay, the bridge stays requested and no fault is left, then in the end the
  selected CDU shows the display memory and both status lines say so, for good.
  This is the recovery that `TECHNICAL-ARCHITECTURE.md` describes, whatever
  happened before.

**The connection.** `ImplementsConnection`: although a call looks at `done` twice, waits
for the mutex and can find the connection closed under it at any point, it is one step
to its caller. `OneWriter`, `InSync`, `PongMatchesPing` and `GivesUpOnlyOnTooLong`: text
frames and pongs never mix, neither end loses its place in the stream, and a pong has
the length its ping had, two headers and one reading later. `ReaderEnds`
and `CallsReturn`: a dead connection keeps no goroutine and no caller waiting.

**The search.** `MergedAsWhole` states the merge without its loop: the file
counts as a whole or not at all, the last entry of an ID counts, built-in profiles
keep their place. `AcceptsOnlyCompatible`: what is attached by an undisturbed search
has the exports of its profile and all text blocks of both layouts.
`EarlierProfileWins`: no earlier profile of the list would have fitted, and of the
modules that fit, the one attached is the first by the hints and the snapshot.
`RejectionExplained`: the user is told of a rejected candidate if and only if there was one.
`Recognised`: an aircraft that fits is found once the simulator has settled, and
kept, whatever failed before. The one exception it makes is a message that the selector
names and that cannot be read: then the bridge attaches, lets go and attaches again, for
ever, which the run reaches. It leaves out, as the code does, a module of
which an older or incomplete list of exports is cached.

**Frames.** `PageIsShown` and `MessageIsShown`: a page that stood still while it was
read is shown cell by cell, also when the first attempt failed. `TornFrameRepaired`:
a mixture of two pages does not last.

**The life of the program.** `OneInstance`: of any number of processes one is in `main`
past the mutex, so that two never take commands or write the settings together; it does
not say that two loops never run together (section 7). `SettingsSurvive`: what was chosen
last comes back, or the defaults if the writing of it was cut short, and nothing else.
`FileMatchesEngine`: a file that can be read says what the fields of the engine say.
`UrlMatchesStatus`: one check at a time, and a page to open if and only if the status
offers one. `BestRelease`: the page is that of the newest published release above the
program's own version, whatever the order of the list.

**Bounds, and why they are enough.**

*Engine.* The loop and its `closeResources` never hold more than one connection
between them (`Control`), and the test display holds another: two. A third would
only be used after one of them was closed, and its identity is free again then
(`Fresh`). A second process or address adds nothing to a handle that is dropped
and reopened, since a new incarnation with the same name is a harder case, not
an easier one, for stale references. One text is enough for the safety run,
because its properties compare a screen with the frame remembered or with
nothing; `live_recovery` has two, so that a change of the display is visible.
All properties of the safety run are also proved for every value of the
constants. Symmetry is used there only. Its view leaves out the two status lines,
which the engine writes and never reads and of which only `TypeOK` speaks
(`TypeCorrect` proves it for them).

The liveness runs leave events out with action constraints. The constraints
only restrict the user and the outside world (a constraint on an engine step
could make a fair action disappear and the property true for a wrong reason).
They are defined and explained in the MC modules. Convergence is checked with
`StaleReadable = FALSE`: while the memory of an aircraft that is gone stays
mapped, reads succeed, and the program has no means of noticing.

*Connection.* The ten lengths are 0, 125, 126, 128, 255, 256, 65535, 65536, 2^20
and 2^20 + 1, and `Fill` is 34, the quotation mark of JSON. The length 127 is
excluded and has a run of its own (section 7). The peer sends one frame at
a time, as the reader takes one at a time.

*Search.* The four files are none, one that replaces and adds with a duplicate,
one with an entry for another adapter, and one with an invalid entry after a valid
one; a garbled file takes the way of an absent one (the theorems have it). Two
modules let one stand before the other: the hints of the built-in profile put them in the
opposite order of the snapshot, and a profile without hints takes them as they come.
The memory is sound, spoilt in two ways that leave some of the profiles fitting or none,
or sound with a selector that names a message outside it.
One, `gauge`, is loaded, replaced and unloaded as another image at any time, with
a complete, a partly readable, an ambiguous and an unrelated list of exports among
them; the other stays what it was at first (`OtherStays`), a complete candidate or
a module of another kind, to keep the number of states small. One memory suffices,
as a candidate with a wrong memory differs from one with a wrong pointer only in
where it fails. Deadlock is not checked here: an engine that is attached in a simulator
that has settled has nothing left to search for.

*Frames.* Three columns let two texts overlap, leave a gap or fill a row; one pair has
a row of each kind. The contents begin and end with blanks of both kinds, hold
the square and end before the block does. The theorems have the rest.

*Start-up.* Two processes are the case of the single instance; the lists have releases in
and out of order, a draft, a release without a page, a tag that is none, and the suffixes
that `parseSemVersion` does not take apart as one would: `dev10` comes before `dev7`, as
a suffix without a stage is compared as a string; `rc-4` has the number -4; `rc` and
`rc.2` have the number 0.

## 5. Fairness

* `WF(Loop)`, `WF(Test)`, `WF(Reader)`, and of every connection's `ReaderExit`:
  a goroutine that can run does run.
* `SF(Detect)`, `SF` of a dial, `SF(SendOk)`: the limits of 1 s and 2 s run out
  while steps go on at 100 ms, so that a step which comes back to the same place
  again and again finds its limit over. `SendOk` contains the refresh; that a
  write which can go through does in the end is the assumption that the peer is
  really there.
* `SF(LoopStop)`: `select` chooses among the ready channels at random, and a
  closed channel stays ready.
* `SF(SendLock)`, `SF(PongLock)`: `sync.Mutex` hands itself over to a goroutine
  that has waited for a millisecond.
* `WF(Refresh)`: the window's timer fires every 500 ms.
* In `WebSocket` a started call goes on (`SendText` with `opc # "idle"`), since a
  write that does not progress ends at its deadline. Nobody has to start one.
* In `RuntimeProbe`, `WF(LoadStep)` and `WF(Probe)`: the profiles are loaded before
  the loop starts, and the loop searches again as long as the bridge is requested.
  Fairness of the search as a whole never makes it pick one export rather than another.
* In `FrameRead`, `WF(Read)`: the loop reads a frame every 100 ms.
* In `Startup`, weak fairness of the check while a process is up: the HTTP client gives
  up after five seconds and the list is finite. Processes need not be started or live on.

The user, the simulator and the rest of the outside world owe nothing. `Settle` is
not fair either: the properties of `RuntimeProbe` and `FrameRead` speak of what
follows if it happens.

## 6. The proofs

All theorems hold for every value of the constants, under assumptions that TLC
evaluates in the runs: `ConstantsAssumption` (`BridgeEngine`: non-empty sets, `Nil`
and `Pattern` apart from the rest), `LengthsAssumption` (`WsFrame`: lengths below
2^24, `Fill` a byte other than 0), `TextAssumption` (`ProfileMerge`: trimming twice is trimming once, the
adapter's names are not empty), `BuiltInAssumption` (built-in profiles have distinct IDs),
`FilesAssumption`, `WorldAssumption` (`RuntimeProbe`: kinds of values told apart),
`RendererAssumption` (the square is no blank, what ends a line is white),
`FrameAssumption` (a message block is none of the other blocks), `OldFilesAssumption`,
`FileAssumption`, `KindAssumption` (suffixes have distinct places in the alphabet, and a
suffix that is a stage begins with that stage) and `ReleaseAssumption`.

**Engine.** The safety properties are not inductive by themselves: that attach
closes its handle depends on `proc` being the process opened, that a new dial
leaks nothing depends on the old connection being closed, and so on. The
invariant `EngineInv` adds

* `Control`: where the loop is attached there is a handle, where it is not there
  is none and no connection either; only a closing point holds something
  to close; a dial has no live connection to lose;
* `TestHolds`: where the test display holds no connection, and that it is off
  when `testRunning` is false;
* `LateEndsStep`: after a late frame the loop is at a place from where it cannot
  send again before `requested` is true.

`EngineInvInit` and `EngineInvNext` prove that it holds first and is kept; the
latter from one lemma per part, each with one step per action. The theorems
`TypeCorrect`, `NoHandleLeak`, `NoSocketLeak`, `TestLeavesNothing`, `LinkCorrect`,
`SuppressionCorrect` and `OneLateFrame` follow.

**Refinement.** `EngineImplementsOutput` proves that every step of the engine is a step of
`OutputSession` or leaves its state alone, action by action. The mapping needs
`EngineInv` and three facts more, `SessionInv`: the connection of the test display leads
to the CDU the test was started for, a frame is at hand where one is sent, and a step
that releases was taken on a stopped bridge.

What an abstract specification promises is easier to prove of it than of the engine, and
then carries over. `OutputStep` reads off the actions of `OutputSession` what no step can
do; from it follow `LiveOnSelectedOnly` (where a live frame can appear),
`SessionKeepsSide` (an attachment serves one CDU from its beginning to its end),
`SilentOnceStopped` (after the step a Stop found under way, nothing is shown for as long
as the bridge stays stopped) and `OneFrameThenSilent` (the one frame that may come is
the last). `QuitIsFinal` is the safety half of `QuitReleases`: a loop that has returned
holds nothing, ever after.

**Window.** `AppIsEngine` proves that each click and update is a step of the engine or
none, so that `AppKeepsInvariant` and `AppImplementsOutput` follow for the program as a
whole. `WindowOffersStop`, with the inductive invariant `WindowInv`, says that a window
that has seen the bridge requested has Stop enabled: comparing snapshots instead of
controls misses no difference.

**Connection.** `WsInv` says that the owner is writing exactly when it holds the
mutex, that the reader is past its lock exactly when it does, and that a failed
call left the connection dead. It gives `WsTypeCorrect`, `WritersExclude` and
`ErrorsEndConnection`. The others rest on lemmas about the headers: the three
bytes of a length give it back (`Bytes`, the arithmetic), the writer's
header is the protocol's (`WriterFollowsProtocol`), the peer reads it back
(`ReadBack`), and the reader takes exactly the header of every frame that is not
127 bytes long (`ReaderReads`). Hence `ReaderInSync` and `ReaderPatient`, both
for sets of lengths without 127. `WriterCorrect` holds for all: a length the reader accepts
is the one the peer wrote (`AcceptedIsTrue`), since what it makes of a frame of 127 bytes
is far too long (`Misread`) and such a ping gets no pong.

`ConnectionIsAtomic` proves the refinement of `Connection`: the moment of the write is
the step, and the second look at `done` under the mutex is what makes it a step on a live
connection. `ReaderWindsDown` is the safety half of `ReaderEnds`: `ToGo` counts what a
reader has before it on a closed connection, and nobody's step makes it more.

**Profiles and search.** The merge is a loop, and `Merging` its invariant: what
`MergedAsWhole` says of the file, said of the entries before `next`. From it follow
`ProfilesUnique` and `MergeCorrect` for all files. `Candidacy` says what is known of a
candidate while it is validated: its exports matched, the pointer came from the cell if the
list is fresh, and the first `check - 1` blocks passed, as long as the search is `clean`.
When all have passed, the blocks of both layouts have (`OnlyCompatible`).

That the first profile wins is about what the search has left behind. `SearchInv` says,
for a `clean` search, that each profile before `pi`, and each module not in `queue` for
`pi` itself, is `Excluded` for a reason that lasts: another adapter, nothing loaded, or
a list of exports that shows it does not suit, with `closest` set if it was a candidate.
`ReasonsLast` proves that no later step takes a reason back, since lists are only added
while nothing changes, and `GivenUp` and `GoesOn` cover the steps that pass over a module or
a profile. The order needs that every set of modules has a first one by rank and place
(`FirstExists`), whatever their number. `FirstWins` and `RejectionsExplained` follow.
`ProbeTypes` is proved before it, as an attachment must be a record to be told from
`Nil`. `SearchEnds` is the safety half of `Recognised`: each step of a search makes it
shorter, in the order of profiles, modules, exports and blocks, and no step of the simulator
makes it longer, so that with fairness every search ends.

**Frames.** Painting has no induction in it, and the definition of what should be seen has none
either; between them stand lemmas about one row. The last and the first visible place of a
text exist (`MaxExists`, by the well-foundedness of the order of numbers), so that `Trimmed`
keeps exactly the glyphs that `Standing` counts (`StandingLeft`, `StandingRight`); one
overlay therefore changes the cells where its text stands and no others
(`OverlayCell`), and adding a layer on top is one overlay more (`TopmostAppend`). Rows of two
and four layers follow (`FourLayerRow`), and a page of them (`DisplayShowsPage`,
`DisplayShowsLastLine`). `ReadInv` says that the blocks read so far are those of memory as long as
nothing was written, and that a frame has them all; hence `PageShown` and `MessageShown`, and
`PageStays`, the safety half of `TornFrameRepaired`. `FrameTypes` says that a torn frame,
too, is a full display of known glyphs (`PaintedType`, `RowTypes`).

**Life of the program.** `StartupInv` says who holds the mutex in which phase (a process on
its way to be refused, and the one in `main`, not one that is leaving), what the file
can hold there, and that of the entries scanned none is better than `best`. For the latter
`VersionsOrdered` proves that `Compare` is positive exactly when `Before` says so, a strict order.
`SingleInstance`, `SettingsRemembered`, `FileFollowsEngine`, `UrlFollowsStatus`,
`NewestOffered` and `StartupTypes` follow.

**Only model-checked:** liveness under fairness, which is out of the prover's reach:
`Converges`, `StopReleases`, `QuitReleases`, `TestEnds`, `StopOffered`, `StartOffered`,
`ReaderEnds`, `CallsReturn`, `Recognised`, `TornFrameRepaired` and `CheckEnds`. The half
that is safety is proved of `StopOffered` (`WindowOffersStop`), `QuitReleases`
(`QuitIsFinal`), `ReaderEnds` (`ReaderWindsDown`), `Recognised` (`SearchEnds`) and
`TornFrameRepaired` (`PageStays`). Every invariant and every refinement that a passing run
checks is proved, `InSync` and `GivesUpOnlyOnTooLong` for lengths other than 127.

## 7. Disagreements found

* `ws_127` (`websocket.go:211`). The test for 127 is made on a length that
  may just have been read from two bytes. A frame of exactly 127 bytes is
  read as if eight more length bytes followed, and the reader ends the
  connection. MobiFlight hardly ever sends such a frame, and the bridge dials
  again; but nothing in the protocol forbids it.
* `app_exclusion` (`engine_windows.go:413`). Auto-start requests the bridge
  without looking at `testRunning`; the release notes speak of mutual exclusion.
  What the program does is harmless: `Converges` holds in `live_release` with
  test displays before and beside live frames, because the refresh overwrites the
  pattern.
* `app_selected_cdu` (`engine_windows.go:384`). Stop, a change of the CDU and
  Start within one step leave the old layout and endpoint in use. The frames are
  still those of the endpoint they go to (`LinkMatchesLayout`), just not those
  the user has selected.
* `app_selector` (`main_windows.go:604`). A CDU chosen between an auto-start and
  the next update of the window is ignored by the engine, and the selector goes
  on showing it.

Two more are read off the models without a run of their own, because the property they
concern is stated as the code has it:

* The mutex (`main_windows.go:765`). The README of the program, line 26, says of the
  single instance that "two bridge processes cannot compete for the same hardware
  endpoint". The handle is closed
  when `main` returns, and the loop is not waited for: in the moment before the process
  has ended another one can start, and both loops can send. `OneInstance` promises the
  commands and the settings only.
* The external profiles (`profiles.go:166`). `docs/ADDING-AIRCRAFT.md:81-86` says that
  "a profile with a new `id` is added" and that "Invalid profiles are rejected during profile
  validation"; one invalid profile makes the program ignore the whole file, valid
  profiles included. `MergedAsWhole` has it so.

Things the models reproduce and nothing in the repository promises otherwise:

* A Stop in the middle of a step can be overwritten by the step's status lines
  ("Bridge running") until the next start; a Stop can be undone by auto-start.
* The error of writing a pong is discarded (`websocket.go:242`).
* A module that was replaced in place, or one whose names could not all be read, keeps
  the list of exports that was cached first; `Recognised` leaves it out.
* A process that ends while it writes `settings.json` loses all settings, not
  only the last change (`SettingsSurvive` allows just that).
* `rc.1` and `rc.2` are the same version to `parseSemVersion`, which does not read the
  number after the dot; of two such releases the first of the list is offered. `rc-4` is
  older than `rc`, and `dev10` than `dev7`.
* A message that the selector names is read without having been validated
  (`fms_messages_windows.go:25`): if it lies outside the memory, the bridge attaches and lets go for
  as long as the selector names it.

## 8. Not modelled

* What the loop of a process that is leaving does at the CDU while the next process
  starts: `Settings` has its `AutoStart` beside the other process, `BridgeEngine` is
  one process. `QuitReleases` says what the loop does if it is given the time; Windows
  closes the rest.
* A payload of zeros after a misread header: the reader takes a wrong length, within
  bounds, and goes on in the middle of the stream.
* How much of a failed write reached the peer, and so what MobiFlight makes of the
  frames after a pong that was written half.
* Display JSON. It is formatting. It quotes glyphs with `strconv.Quote`, whose escapes
  for control characters are not those of JSON; blocks that passed validation hold
  none but the tab, but validation looks at them once and the texts go on changing.
* Validation of message blocks: the code has none. That the offsets of a profile are
  right is data; what follows if one is not is in `RuntimeProbe` (`Detach`).
* PE parsing, which is reduced to its result: names with targets, some of them
  unreadable, or an error. Hashes choose a word of the report.
* A disk that refuses to be written to. The code ignores the error, and the next
  start reads what was there before.
* HTTP and the JSON of the releases, which are an answer or a failure.
* The text of status lines, log, diagnostics and reports, painting, colours and
  layout of the window, the header lines of the WebSocket handshake, the clipboard and the
  build tool: formatting or sequences of system calls, with no decision of the
  program on them.

## 9. The plan

Done, in this order: the engine, with its proofs; the window; the connection and
its headers, with their proofs; `OutputSession` and the refinement, checked and
proved; profiles and the search, with proofs of the merge and of the acceptance; the
reading and rendering of frames, with proofs for every page; settings, processes and
updates, with proofs of all their safety properties; the window's theorems.

Then `EarlierProfileWins` and `RejectionExplained` as theorems, for which the order of the
modules was restated without a recursive sort; the refinement of `Connection`; the
consequences of `OutputSession`; the safety halves of five liveness properties.

Left:

1. `BridgeEngine` with `RuntimeProbe` and `FrameRead` in the place of `Adopt`,
   `Reject` and the reads. The composed state space is too large for TLC; it
   would be a refinement from each of them to the engine's coarse actions.
2. A peer that reports half a frame, to say what a torn pong does to the stream.
3. The safety halves of `Converges` and `StopReleases`: the order in which the
   engine approaches them.
