--------------------------- MODULE BridgeEngine ---------------------------
(***************************************************************************)
(* The bridge engine (src/engine_windows.go): the loop goroutine that      *)
(* attaches to the simulator, reads the aircraft's display memory and      *)
(* sends it to the MobiFlight endpoint of the selected CDU; the test       *)
(* display goroutine; the commands the GUI thread issues; and the outside  *)
(* world they meet (simulator, aircraft, MobiFlight).                      *)
(*                                                                         *)
(* One action is one stretch of code between two points where another      *)
(* goroutine can be observed: a section under e.mu, or a system call.      *)
(* Two sections are one action only where no other goroutine reads or      *)
(* writes what lies between them.                                          *)
(*                                                                         *)
(* Time is abstract.  The 1 s detection limit, the 2 s reconnection limit  *)
(* and the 2 s refresh are free choices ("due" or not), and the 100 ms     *)
(* ticker and the wake channel are both the choice to run another step.    *)
(* A frame is one value of Text (its JSON), a loaded aircraft runtime one  *)
(* value of Gen (the base of its linear memory).                           *)
(***************************************************************************)
EXTENDS Naturals, FiniteSets

CONSTANTS
  Pid,            \* process ids of simulator processes
  Gen,            \* base addresses a WASM runtime's linear memory can have
  Conn,           \* identities of WebSocket connections
  Text,           \* display contents (the JSON of a frame)
  Pattern,        \* the JSON of the test display frame
  Nil,            \* no process, no connection, no frame, a blank screen
  StaleReadable   \* may the memory of an unloaded runtime still be mapped?

Side == {"captain", "copilot"}

ASSUME ConstantsAssumption ==
  /\ Pid # {} /\ Gen # {} /\ Conn # {} /\ Text # {}
  /\ Nil \notin Pid \cup Gen \cup Conn \cup Text \cup Side
  /\ Pattern \notin Text \cup {Nil}
  /\ StaleReadable \in BOOLEAN

VARIABLES
  (* bridgeEngine, guarded by e.mu *)
  requested,      \* the user (or auto-start) wants the bridge running
  autoStart,      \* the setting
  cdu,            \* the selected CDU
  stop,           \* e.stop is closed
  handle,         \* process whose handle is held, or Nil
  linear,         \* base address found when attaching
  layout,         \* the CDU layout chosen when attaching
  ws,             \* the connection frames go to, or Nil
  lastJSON,       \* payload of the last frame sent on ws, or Nil
  testRunning,
  bridgeStatus,
  mfStatus,
  (* locals of the loop goroutine *)
  pc,             \* where step() is
  req, auto,      \* the copies of requested and autoStart a step works with
  proc,           \* the process findMSFS returned
  frame,          \* the frame that was read
  dws, dh,        \* what closeResources took out and has still to close
  (* the test display goroutine *)
  tpc, tside, tws,
  (* the outside world *)
  sim,            \* the running simulator process
  runtime,        \* the loaded supported aircraft, or Nil
  calm,           \* no transient faults and no update of the display memory
  mem,            \* what the display memory holds when calm
  opened,         \* processes this program has an open handle to
  mf,             \* MobiFlight is listening
  end,            \* endpoint of every connection not yet closed here, or Nil
  lost,           \* open connections whose peer is gone, not yet noticed
  screen,         \* what each CDU shows
  (* history *)
  late            \* live frames sent since requested last became FALSE

cmdVars  == <<requested, autoStart, cdu, stop>>
linkVars == <<handle, linear, layout, ws, lastJSON>>
locVars  == <<req, auto, proc, frame>>
loopVars == <<locVars, dws, dh>>
testVars == <<tpc, tside, tws>>
simVars  == <<sim, runtime, calm, mem>>
netVars  == <<end, lost>>
statVars == <<bridgeStatus, mfStatus>>

vars == <<cmdVars, linkVars, loopVars, pc, testVars, testRunning, statVars,
          simVars, opened, mf, netVars, screen, late>>

-----------------------------------------------------------------------------
(* Connections *)

\* simpleWebSocket.Alive: done is not closed.
Alive(c) == c # Nil /\ end[c] # Nil

\* An identity for a new connection: not open, and not one of those `held`
\* by others (the caller replaces the closed connection it holds itself).
Fresh(c, held) == end[c] = Nil /\ c \notin held

\* dialWebSocket succeeded.
Connect(c, s) == /\ end' = [end EXCEPT ![c] = s]
                 /\ lost' = lost

\* simpleWebSocket.Close; it does nothing the second time.
Disconnect(c) == /\ end' = [x \in Conn |-> IF x = c THEN Nil ELSE end[x]]
                 /\ lost' = lost \ {c}

\* A text frame written to c: it appears if the peer is still there.
Show(c, text) ==
  screen' = IF c \in lost THEN screen ELSE [screen EXCEPT ![end[c]] = text]

\* A write can fail once the peer is gone, or in a disturbance.
WriteCanFail(c) == ~Alive(c) \/ c \in lost \/ ~calm

-----------------------------------------------------------------------------
(* The loop goroutine: loop() and step() *)

\* Mutant: the layout is cleared as well.
TakeResourcesClearsLayout(next) ==
  /\ dws' = ws /\ dh' = handle
  /\ ws' = Nil /\ handle' = Nil /\ linear' = Nil /\ lastJSON' = Nil
  /\ layout' = Nil
  /\ pc' = next

\* Mutant: the connection survives the attachment.
TakeResourcesKeepsWs(next) ==
  /\ dws' = Nil /\ dh' = handle
  /\ handle' = Nil /\ linear' = Nil
  /\ UNCHANGED <<layout, ws, lastJSON>>
  /\ pc' = next

\* The section of closeResources under e.mu; `next` says who called it.
TakeResources(next) ==
  /\ dws' = ws /\ dh' = handle
  /\ ws' = Nil /\ handle' = Nil /\ linear' = Nil /\ lastJSON' = Nil
  /\ layout' = layout
  /\ pc' = next

\* The rest of closeResources, outside e.mu.
CloseTaken ==
  /\ pc \in {"closeDetect", "closeSelect", "closeStop"}
  /\ Disconnect(dws)
  /\ opened' = opened \ {dh}
  /\ dws' = Nil /\ dh' = Nil
  /\ pc' = CASE pc = "closeDetect" -> "detect"
             [] pc = "closeSelect" -> "select"
             [] pc = "closeStop"   -> "done"
  /\ UNCHANGED <<cmdVars, linkVars, locVars, testVars, testRunning, statVars,
                 simVars, mf, screen, late>>

\* Mutant: the loop returns without closeResources.
LoopStopAtOnce ==
  /\ pc = "select" /\ stop
  /\ pc' = "done"
  /\ UNCHANGED <<cmdVars, linkVars, loopVars, testVars, testRunning, statVars,
                 simVars, opened, mf, netVars, screen, late>>

\* loop: the stop channel is ready.
LoopStop ==
  /\ pc = "select" /\ stop
  /\ TakeResources("closeStop")
  /\ UNCHANGED <<cmdVars, locVars, testVars, testRunning, statVars, simVars,
                 opened, mf, netVars, screen, late>>

\* Mutant: an attached step goes on although the bridge was stopped.
StepAttachedAlways ==
  /\ pc = "select" /\ handle # Nil
  /\ pc' = "read"
  /\ UNCHANGED <<cmdVars, linkVars, loopVars, testVars, testRunning, statVars,
                 simVars, opened, mf, netVars, screen, late>>

\* step: a process is attached and the bridge is requested.
StepAttached ==
  /\ pc = "select" /\ handle # Nil /\ requested
  /\ pc' = "read"
  /\ UNCHANGED <<cmdVars, linkVars, loopVars, testVars, testRunning, statVars,
                 simVars, opened, mf, netVars, screen, late>>

\* Mutant: the references are dropped and nothing is closed.
StepReleaseForgets ==
  /\ pc = "select" /\ handle # Nil /\ ~requested
  /\ TakeResources("detect")
  /\ req' = requested /\ auto' = autoStart
  /\ UNCHANGED <<cmdVars, proc, frame, testVars, testRunning, statVars,
                 simVars, opened, mf, netVars, screen, late>>

\* step: a process is attached and the bridge is no longer requested.
StepRelease ==
  /\ pc = "select" /\ handle # Nil /\ ~requested
  /\ TakeResources("closeDetect")
  /\ req' = requested /\ auto' = autoStart
  /\ UNCHANGED <<cmdVars, proc, frame, testVars, testRunning, statVars,
                 simVars, opened, mf, netVars, screen, late>>

\* step: nothing is attached.
StepDetached ==
  /\ pc = "select" /\ handle = Nil
  /\ req' = requested /\ auto' = autoStart
  /\ pc' = "detect"
  /\ UNCHANGED <<cmdVars, linkVars, proc, frame, dws, dh, testVars,
                 testRunning, statVars, simVars, opened, mf, netVars, screen,
                 late>>

\* Back to the select statement; the locals of the step die with it.
EndStep ==
  /\ pc' = "select"
  /\ req' = FALSE /\ auto' = FALSE /\ proc' = Nil /\ frame' = Nil

\* step: less than a second since the last detection.
DetectSkip ==
  /\ pc = "detect"
  /\ EndStep
  /\ UNCHANGED <<cmdVars, linkVars, dws, dh, testVars, testRunning, statVars,
                 simVars, opened, mf, netVars, screen, late>>

\* findMSFS returned the running simulator, or none.
Detect ==
  /\ pc = "detect"
  /\ proc' = sim
  /\ pc' = "found"
  /\ UNCHANGED <<cmdVars, linkVars, req, auto, frame, dws, dh, testVars,
                 testRunning, statVars, simVars, opened, mf, netVars, screen,
                 late>>

\* findMSFS or attach returned an error: setErr.
StepError ==
  /\ \/ pc = "detect" /\ ~calm
     \/ pc = "attach" /\ (~calm \/ sim # proc)
  /\ bridgeStatus' = "recovering"
  /\ EndStep
  /\ UNCHANGED <<cmdVars, linkVars, dws, dh, testVars, testRunning, mfStatus,
                 simVars, opened, mf, netVars, screen, late>>

\* step: the section that may auto-start, decided on the copies req and auto.
AutoStarts == ~req /\ auto /\ proc # Nil

Found ==
  /\ pc = "found"
  /\ IF AutoStarts
       THEN /\ requested' = TRUE
            /\ bridgeStatus' = "waiting"
            /\ late' = 0
       ELSE UNCHANGED <<requested, bridgeStatus, late>>
  /\ IF req \/ AutoStarts
       THEN /\ pc' = IF proc = Nil THEN "noSim" ELSE "attach"
            /\ req' = FALSE /\ auto' = FALSE   \* not used again in this step
            /\ UNCHANGED <<proc, frame>>
       ELSE EndStep
  /\ UNCHANGED <<autoStart, cdu, stop, linkVars, dws, dh, testVars,
                 testRunning, mfStatus, simVars, opened, mf, netVars, screen>>

\* step: requested, but no simulator runs.
NoSim ==
  /\ pc = "noSim"
  /\ mfStatus' = "waiting" /\ bridgeStatus' = "waiting"
  /\ EndStep
  /\ UNCHANGED <<cmdVars, linkVars, dws, dh, testVars, testRunning, simVars,
                 opened, mf, netVars, screen, late>>

\* attach: the process handle is opened and the adapters are tried.
AttachOpen ==
  /\ pc = "attach" /\ sim = proc
  /\ opened' = opened \cup {proc}
  /\ pc' = "probe"
  /\ UNCHANGED <<cmdVars, linkVars, loopVars, testVars, testRunning, statVars,
                 simVars, mf, netVars, screen, late>>

\* Mutant: the layout is the one chosen when something was first attached.
AdoptKeepsLayout ==
  /\ pc = "probe" /\ sim = proc /\ runtime # Nil
  /\ handle' = proc /\ linear' = runtime
  /\ bridgeStatus' = "running"
  /\ pc' = "read"
  /\ proc' = Nil
  /\ UNCHANGED <<cmdVars, layout, ws, lastJSON, req, auto, frame, dws, dh,
                 testVars, testRunning, mfStatus, simVars, opened, mf, netVars,
                 screen, late>>

\* attach: an adapter accepted; the layout follows the CDU selected now.
Adopt ==
  /\ pc = "probe" /\ sim = proc /\ runtime # Nil
  /\ handle' = proc /\ linear' = runtime /\ layout' = cdu
  /\ bridgeStatus' = "running"
  /\ pc' = "read"
  /\ proc' = Nil
  /\ UNCHANGED <<cmdVars, ws, lastJSON, req, auto, frame, dws, dh, testVars,
                 testRunning, mfStatus, simVars, opened, mf, netVars, screen,
                 late>>

\* Mutant: the handle is not closed when no adapter accepts.
RejectLeaks ==
  /\ pc = "probe" /\ (sim # proc \/ runtime = Nil \/ ~calm)
  /\ mfStatus' = "waiting" /\ bridgeStatus' = "waiting"
  /\ EndStep
  /\ UNCHANGED <<cmdVars, linkVars, dws, dh, testVars, testRunning, simVars,
                 opened, mf, netVars, screen, late>>

\* attach: no adapter accepted.
Reject ==
  /\ pc = "probe" /\ (sim # proc \/ runtime = Nil \/ ~calm)
  /\ opened' = opened \ {proc}
  /\ mfStatus' = "waiting" /\ bridgeStatus' = "waiting"
  /\ EndStep
  /\ UNCHANGED <<cmdVars, linkVars, dws, dh, testVars, testRunning, simVars,
                 mf, netVars, screen, late>>

\* What readFrameOnce can return through the handle and base address held.
Mapped   == handle = sim /\ (linear = runtime \/ StaleReadable)
Readable == IF handle = sim /\ linear = runtime /\ calm THEN {mem}
            ELSE IF Mapped THEN Text ELSE {}

ReadOk ==
  /\ pc \in {"read", "reread"}
  /\ frame' \in Readable
  /\ pc' = "publish"
  /\ UNCHANGED <<cmdVars, linkVars, req, auto, proc, dws, dh, testVars,
                 testRunning, statVars, simVars, opened, mf, netVars, screen,
                 late>>

ReadCanFail == ~(Mapped /\ calm)

\* readFrame: the first attempt failed; one more after 5 ms.
ReadRetry ==
  /\ pc = "read" /\ ReadCanFail
  /\ pc' = "reread"
  /\ UNCHANGED <<cmdVars, linkVars, loopVars, testVars, testRunning, statVars,
                 simVars, opened, mf, netVars, screen, late>>

\* step: both attempts failed: setErr, then closeResources.
ReadFail ==
  /\ pc = "reread" /\ ReadCanFail
  /\ bridgeStatus' = "recovering"
  /\ TakeResources("closeSelect")
  /\ UNCHANGED <<cmdVars, locVars, testVars, testRunning, mfStatus,
                 simVars, opened, mf, netVars, screen, late>>

\* Mutant: only a missing connection is dialled again, not a dead one.
PublishTrustsWs ==
  /\ pc = "publish"
  /\ bridgeStatus' = "running"
  /\ IF ws # Nil
       THEN pc' = "send" /\ UNCHANGED locVars
       ELSE \/ pc' = "dial" /\ UNCHANGED locVars
            \/ EndStep
  /\ UNCHANGED <<cmdVars, linkVars, dws, dh, testVars, testRunning, mfStatus,
                 simVars, opened, mf, netVars, screen, late>>

\* step: the frame is published, then the connection is looked at: send on
\* it, dial a new one, or (no connection, 2 s not over) give up this step.
Publish ==
  /\ pc = "publish"
  /\ bridgeStatus' = "running"
  /\ IF Alive(ws)
       THEN pc' = "send" /\ UNCHANGED locVars
       ELSE \/ pc' = "dial" /\ UNCHANGED locVars
            \/ EndStep
  /\ UNCHANGED <<cmdVars, linkVars, dws, dh, testVars, testRunning, mfStatus,
                 simVars, opened, mf, netVars, screen, late>>

\* Mutant: lastJSON survives a reconnection.
DialOkKeepsLast ==
  /\ pc = "dial" /\ mf
  /\ \E c \in Conn : /\ Fresh(c, {dws, tws})
                     /\ Connect(c, layout)
                     /\ ws' = c
  /\ mfStatus' = "connected"
  /\ pc' = "send"
  /\ UNCHANGED <<cmdVars, handle, linear, layout, lastJSON, loopVars, testVars,
                 testRunning, bridgeStatus, simVars, opened, mf, screen, late>>

DialOk ==
  /\ pc = "dial" /\ mf
  /\ \E c \in Conn : /\ Fresh(c, {dws, tws})
                     /\ Connect(c, layout)
                     /\ ws' = c
  /\ lastJSON' = Nil
  /\ mfStatus' = "connected"
  /\ pc' = "send"
  /\ UNCHANGED <<cmdVars, handle, linear, layout, loopVars, testVars,
                 testRunning, bridgeStatus, simVars, opened, mf, screen, late>>

DialFail ==
  /\ pc = "dial" /\ (~mf \/ ~calm)
  /\ mfStatus' = "unreachable"
  /\ EndStep
  /\ UNCHANGED <<cmdVars, linkVars, dws, dh, testVars, testRunning,
                 bridgeStatus, simVars, opened, mf, netVars, screen, late>>

\* step: the connection died meanwhile, or the frame is the one sent last and
\* the 2 s refresh is not due.
SendSkip ==
  /\ pc = "send"
  /\ ~Alive(ws) \/ frame = lastJSON
  /\ EndStep
  /\ UNCHANGED <<cmdVars, linkVars, dws, dh, testVars, testRunning, statVars,
                 simVars, opened, mf, netVars, screen, late>>

\* Mutant: no refresh of an unchanged frame.
SendOkOnlyChanges ==
  /\ pc = "send" /\ Alive(ws) /\ frame # lastJSON
  /\ Show(ws, frame)
  /\ lastJSON' = frame
  /\ mfStatus' = "connected"
  /\ late' = IF requested THEN late ELSE late + 1
  /\ EndStep
  /\ UNCHANGED <<cmdVars, handle, linear, layout, ws, dws, dh, testVars,
                 testRunning, bridgeStatus, simVars, opened, mf, netVars>>

SendOk ==
  /\ pc = "send" /\ Alive(ws)
  /\ Show(ws, frame)
  /\ lastJSON' = frame
  /\ mfStatus' = "connected"
  /\ late' = IF requested THEN late ELSE late + 1
  /\ EndStep
  /\ UNCHANGED <<cmdVars, handle, linear, layout, ws, dws, dh, testVars,
                 testRunning, bridgeStatus, simVars, opened, mf, netVars>>

\* Mutant: a failed connection is dropped without being closed.
SendFailLeaks ==
  /\ pc = "send" /\ WriteCanFail(ws)
  /\ ws' = Nil /\ lastJSON' = Nil
  /\ mfStatus' = "lost"
  /\ EndStep
  /\ UNCHANGED <<cmdVars, handle, linear, layout, dws, dh, testVars,
                 testRunning, bridgeStatus, simVars, opened, mf, netVars,
                 screen, late>>

SendFail ==
  /\ pc = "send" /\ WriteCanFail(ws)
  /\ Disconnect(ws)
  /\ ws' = Nil /\ lastJSON' = Nil
  /\ mfStatus' = "lost"
  /\ EndStep
  /\ UNCHANGED <<cmdVars, handle, linear, layout, dws, dh, testVars,
                 testRunning, bridgeStatus, simVars, opened, mf, screen, late>>

Step == \/ StepAttached \/ StepRelease \/ StepDetached
        \/ DetectSkip \/ Detect \/ StepError \/ Found \/ NoSim
        \/ AttachOpen \/ Adopt \/ Reject
        \/ ReadOk \/ ReadRetry \/ ReadFail \/ Publish
        \/ DialOk \/ DialFail \/ SendSkip \/ SendOk \/ SendFail

Loop == LoopStop \/ CloseTaken \/ Step

-----------------------------------------------------------------------------
(* Commands of the GUI thread *)

SetRequested(v) ==
  /\ ~stop
  /\ requested' = v
  /\ late' = IF v = requested THEN late ELSE 0
  /\ IF v THEN UNCHANGED statVars
          ELSE bridgeStatus' = "stopped" /\ mfStatus' = "notConnected"
  /\ UNCHANGED <<autoStart, cdu, stop, linkVars, loopVars, pc, testVars,
                 testRunning, simVars, opened, mf, netVars, screen>>

SetCDU(s) ==
  /\ ~stop /\ ~requested
  /\ cdu' = s
  /\ UNCHANGED <<requested, autoStart, stop, linkVars, loopVars, pc, testVars,
                 testRunning, statVars, simVars, opened, mf, netVars, screen,
                 late>>

SetAutoStart(v) ==
  /\ ~stop
  /\ autoStart' = v
  /\ UNCHANGED <<requested, cdu, stop, linkVars, loopVars, pc, testVars,
                 testRunning, statVars, simVars, opened, mf, netVars, screen,
                 late>>

\* Stop, sent when the window closes.
Quit ==
  /\ ~stop
  /\ stop' = TRUE
  /\ UNCHANGED <<requested, autoStart, cdu, linkVars, loopVars, pc, testVars,
                 testRunning, statVars, simVars, opened, mf, netVars, screen,
                 late>>

\* startTestDisplay, up to the start of its goroutine.
StartTest ==
  /\ ~stop /\ ~requested /\ ~testRunning
  /\ testRunning' = TRUE
  /\ mfStatus' = "testing"
  /\ tside' = cdu /\ tpc' = "dial"
  /\ UNCHANGED <<cmdVars, linkVars, loopVars, pc, tws, bridgeStatus, simVars,
                 opened, mf, netVars, screen, late>>

User == \/ \E v \in BOOLEAN : SetRequested(v) \/ SetAutoStart(v)
        \/ \E s \in Side : SetCDU(s)
        \/ Quit \/ StartTest

-----------------------------------------------------------------------------
(* The goroutine of the test display *)

\* Mutant: a failed dial ends the goroutine without its deferred call.
TestDialGivesUp ==
  /\ tpc = "dial"
  /\ \/ /\ mf
        /\ \E c \in Conn : Fresh(c, {ws, dws}) /\ Connect(c, tside) /\ tws' = c
        /\ tpc' = "send"
        /\ mfStatus' = mfStatus
     \/ /\ ~mf \/ ~calm
        /\ mfStatus' = "testFailed"
        /\ tpc' = "off"
        /\ UNCHANGED <<netVars, tws>>
  /\ UNCHANGED <<cmdVars, linkVars, loopVars, pc, tside, testRunning,
                 bridgeStatus, simVars, opened, mf, screen, late>>

TestDial ==
  /\ tpc = "dial"
  /\ \/ /\ mf
        /\ \E c \in Conn : Fresh(c, {ws, dws}) /\ Connect(c, tside) /\ tws' = c
        /\ tpc' = "send"
        /\ mfStatus' = mfStatus
     \/ /\ ~mf \/ ~calm
        /\ mfStatus' = "testFailed"
        /\ tpc' = "clear"
        /\ UNCHANGED <<netVars, tws>>
  /\ UNCHANGED <<cmdVars, linkVars, loopVars, pc, tside, testRunning,
                 bridgeStatus, simVars, opened, mf, screen, late>>

TestSend ==
  /\ tpc = "send"
  /\ \/ /\ Alive(tws)
        /\ Show(tws, Pattern)
        /\ mfStatus' = "testActive"
        /\ tpc' = "hold"
        /\ UNCHANGED netVars
     \/ /\ WriteCanFail(tws)
        /\ Disconnect(tws)
        /\ mfStatus' = "testFailed"
        /\ tpc' = "close"
        /\ UNCHANGED screen
  /\ UNCHANGED <<cmdVars, linkVars, loopVars, pc, tside, tws, testRunning,
                 bridgeStatus, simVars, opened, mf, late>>

\* After 2 s the frame is sent again if the connection lives; the outcome is
\* ignored, but a failed SendText closes the connection.
TestAgain ==
  /\ tpc = "hold"
  /\ \/ Alive(tws) /\ Show(tws, Pattern) /\ UNCHANGED netVars
     \/ WriteCanFail(tws) /\ Disconnect(tws) /\ UNCHANGED screen
  /\ tpc' = "finish"
  /\ UNCHANGED <<cmdVars, linkVars, loopVars, pc, tside, tws, testRunning,
                 statVars, simVars, opened, mf, late>>

\* Mutant: testRunning is cleared before the connection is closed.
TestFinishClearsFirst ==
  /\ tpc = "finish"
  /\ mfStatus' = "testFinished" /\ testRunning' = FALSE
  /\ tpc' = "close"
  /\ UNCHANGED <<cmdVars, linkVars, loopVars, pc, tside, tws, bridgeStatus,
                 simVars, opened, mf, netVars, screen, late>>

TestFinish ==
  /\ tpc = "finish"
  /\ mfStatus' = "testFinished"
  /\ tpc' = "close"
  /\ UNCHANGED <<cmdVars, linkVars, loopVars, pc, tside, tws, testRunning,
                 bridgeStatus, simVars, opened, mf, netVars, screen, late>>

\* Mutant: the goroutine ends without closing its connection.
TestCloseForgets ==
  /\ tpc = "close"
  /\ tws' = Nil
  /\ tpc' = "clear"
  /\ UNCHANGED <<cmdVars, linkVars, loopVars, pc, tside, testRunning, statVars,
                 simVars, opened, mf, netVars, screen, late>>

\* The deferred calls, last registered first.
TestClose ==
  /\ tpc = "close"
  /\ Disconnect(tws)
  /\ tws' = Nil
  /\ tpc' = "clear"
  /\ UNCHANGED <<cmdVars, linkVars, loopVars, pc, tside, testRunning, statVars,
                 simVars, opened, mf, screen, late>>

TestClear ==
  /\ tpc = "clear"
  /\ testRunning' = FALSE
  /\ tpc' = "off" /\ tside' = "captain"
  /\ UNCHANGED <<cmdVars, linkVars, loopVars, pc, tws, statVars, simVars,
                 opened, mf, netVars, screen, late>>

Test == TestDial \/ TestSend \/ TestAgain \/ TestFinish \/ TestClose \/ TestClear

\* The reader of a connection sees that the peer is gone and closes it.
ReaderExit(c) ==
  /\ c \in lost
  /\ Disconnect(c)
  /\ UNCHANGED <<cmdVars, linkVars, loopVars, pc, testVars, testRunning,
                 statVars, simVars, opened, mf, screen, late>>

-----------------------------------------------------------------------------
(* The outside world *)

ourVars == <<cmdVars, linkVars, loopVars, pc, testVars, testRunning, statVars,
             opened, late>>

\* The system does not reuse the id of a process a handle is open to.
SimStart(p) ==
  /\ sim = Nil /\ p \notin opened
  /\ sim' = p
  /\ UNCHANGED <<ourVars, runtime, calm, mem, mf, netVars, screen>>

SimExit ==
  /\ sim # Nil
  /\ sim' = Nil /\ runtime' = Nil
  /\ UNCHANGED <<ourVars, calm, mem, mf, netVars, screen>>

\* A supported aircraft is loaded, or loaded again at another address.
AircraftLoad(g) ==
  /\ sim # Nil /\ runtime # g
  /\ runtime' = g
  /\ UNCHANGED <<ourVars, sim, calm, mem, mf, netVars, screen>>

AircraftUnload ==
  /\ runtime # Nil
  /\ runtime' = Nil
  /\ UNCHANGED <<ourVars, sim, calm, mem, mf, netVars, screen>>

\* A transient: memory is being rewritten, calls may fail, writes time out.
Disturb ==
  /\ calm
  /\ calm' = FALSE
  /\ UNCHANGED <<ourVars, sim, runtime, mem, mf, netVars, screen>>

Settle(t) ==
  /\ ~calm
  /\ calm' = TRUE /\ mem' = t
  /\ UNCHANGED <<ourVars, sim, runtime, mf, netVars, screen>>

MFUp ==
  /\ ~mf
  /\ mf' = TRUE
  /\ UNCHANGED <<ourVars, simVars, netVars, screen>>

MFDown ==
  /\ mf
  /\ mf' = FALSE
  /\ lost' = {c \in Conn : end[c] # Nil}
  /\ screen' = [s \in Side |-> Nil]
  /\ UNCHANGED <<ourVars, simVars, end>>

PeerDrop(c) ==
  /\ end[c] # Nil /\ c \notin lost
  /\ lost' = lost \cup {c}
  /\ UNCHANGED <<ourVars, simVars, mf, end, screen>>

World == \/ \E p \in Pid : SimStart(p)
         \/ \E g \in Gen : AircraftLoad(g)
         \/ \E t \in Text : Settle(t)
         \/ \E c \in Conn : PeerDrop(c)
         \/ SimExit \/ AircraftUnload \/ Disturb \/ MFUp \/ MFDown

-----------------------------------------------------------------------------
Init ==
  /\ autoStart \in BOOLEAN /\ requested = autoStart
  /\ cdu \in Side
  /\ stop = FALSE
  /\ handle = Nil /\ linear = Nil /\ layout = "captain"
  /\ ws = Nil /\ lastJSON = Nil
  /\ testRunning = FALSE
  /\ bridgeStatus = "stopped" /\ mfStatus = "notConnected"
  /\ pc = "select"
  /\ req = FALSE /\ auto = FALSE /\ proc = Nil /\ frame = Nil
  /\ dws = Nil /\ dh = Nil
  /\ tpc = "off" /\ tside = "captain" /\ tws = Nil
  /\ sim \in Pid \cup {Nil} /\ runtime = Nil
  /\ calm = TRUE /\ mem \in Text
  /\ opened = {}
  /\ mf \in BOOLEAN
  /\ end = [c \in Conn |-> Nil] /\ lost = {}
  /\ screen = [s \in Side |-> Nil]
  /\ late = 0

Next == Loop \/ User \/ Test \/ World \/ (\E c \in Conn : ReaderExit(c))

Spec == Init /\ [][Next]_vars

(***************************************************************************)
(* Fairness.  A goroutine that can run does run.  The loop takes every     *)
(* path that only needs time to pass: a step that detects, a step whose    *)
(* connection attempt is due, a step whose refresh is due; and a select    *)
(* statement whose stop channel stays ready picks it eventually (Go picks  *)
(* among the ready cases at random).  The reader of a connection notices   *)
(* that its peer is gone.  The user and the outside world owe nothing.     *)
(***************************************************************************)
Fairness ==
  /\ WF_vars(Loop)
  /\ SF_vars(Detect)
  /\ SF_vars(Publish /\ pc' = "dial")
  /\ SF_vars(SendOk)
  /\ SF_vars(LoopStop)
  /\ WF_vars(Test)
  /\ \A c \in Conn : WF_vars(ReaderExit(c))

FairSpec == Spec /\ Fairness
-----------------------------------------------------------------------------
(* Properties *)

Pcs  == {"select", "detect", "found", "noSim", "attach", "probe", "read",
         "reread", "publish", "dial", "send", "closeDetect", "closeSelect",
         "closeStop", "done"}
TPcs == {"off", "dial", "send", "hold", "finish", "close", "clear"}

Booleans ==
  /\ requested \in BOOLEAN /\ autoStart \in BOOLEAN /\ stop \in BOOLEAN
  /\ testRunning \in BOOLEAN /\ calm \in BOOLEAN /\ mf \in BOOLEAN
  /\ req \in BOOLEAN /\ auto \in BOOLEAN

EngineTypes ==
  /\ cdu \in Side /\ layout \in Side
  /\ handle \in Pid \cup {Nil} /\ linear \in Gen \cup {Nil}
  /\ ws \in Conn \cup {Nil} /\ lastJSON \in Text \cup {Nil}
  /\ bridgeStatus \in {"stopped", "waiting", "running", "recovering"}
  /\ mfStatus \in {"notConnected", "waiting", "connected", "unreachable",
                   "lost", "testing", "testFailed", "testActive",
                   "testFinished"}

LocalTypes ==
  /\ pc \in Pcs /\ tpc \in TPcs /\ tside \in Side
  /\ proc \in Pid \cup {Nil} /\ dh \in Pid \cup {Nil}
  /\ frame \in Text \cup {Nil}
  /\ dws \in Conn \cup {Nil} /\ tws \in Conn \cup {Nil}
  /\ late \in Nat

WorldTypes ==
  /\ sim \in Pid \cup {Nil} /\ runtime \in Gen \cup {Nil} /\ mem \in Text
  /\ opened \subseteq Pid
  /\ end \in [Conn -> Side \cup {Nil}] /\ lost \subseteq Conn
  /\ screen \in [Side -> Text \cup {Nil, Pattern}]

\* Type invariant of the engine, its goroutines and their surroundings.
TypeOK == Booleans /\ EngineTypes /\ LocalTypes /\ WorldTypes

\* No process handle leaks: every open handle is the one in use, the one
\* closeResources is about to close, or the one attach is still probing with
\* (the error and rejection paths of attach, engine_windows.go:541-545, 608).
HandlesAccountedFor ==
  opened = ({handle, dh} \cup (IF pc = "probe" THEN {proc} ELSE {})) \ {Nil}

\* No connection leaks: whatever is not closed here is still held by the loop,
\* by closeResources or by the test display (engine_windows.go:340-358,
\* 462-502, 311).
SocketsAccountedFor ==
  \A c \in Conn : end[c] # Nil => c \in {ws, dws, tws}

\* The connection frames go to leads to the endpoint of the layout they are
\* read with, although the CDU can be changed and the bridge stopped and
\* restarted between any two steps; and there is none without an attachment
\* (engine_windows.go:465, 553-564).
LinkMatchesLayout ==
  /\ ws # Nil => handle # Nil
  /\ Alive(ws) => end[ws] = layout

\* Suppressing an unchanged frame never hides anything: while the connection
\* is sound, the CDU shows what the engine remembers having sent last, or the
\* test pattern (engine_windows.go:471-474, 485, 495-500).
SuppressionIsSound ==
  (lastJSON # Nil /\ Alive(ws) /\ ws \notin lost)
    => screen[layout] \in {lastJSON, Pattern}

\* After Stop at most one more live frame reaches the socket: that of the step
\* that had read requested before (engine_windows.go:377-388, 485-486).
AtMostOneLateFrame == late <= 1

\* Once the engine says no test display runs, its connection is closed: the
\* order of the deferred calls (engine_windows.go:297-301, 311).
TestOverMeansClosed ==
  ~testRunning => /\ tws = Nil
                  /\ \A c \in Conn : end[c] # Nil => c \in {ws, dws}
(***************************************************************************)
(* The inductive invariant behind them.                                    *)
(***************************************************************************)

\* What each point of the loop goroutine may assume.
AttachedPcs == {"read", "reread", "publish", "dial", "send"}
ClosingPcs  == {"closeDetect", "closeSelect", "closeStop"}

Control ==
  /\ pc \in AttachedPcs => handle # Nil
  /\ pc \notin AttachedPcs \cup {"select"} => handle = Nil
  /\ pc \in {"attach", "probe"} => proc # Nil
  /\ pc \notin ClosingPcs => dws = Nil /\ dh = Nil
  /\ ws # Nil => handle # Nil
  /\ pc = "dial" => ~Alive(ws)

\* What the test display goroutine holds.
TestHolds ==
  /\ tpc \in {"off", "dial", "clear"} => tws = Nil
  /\ ~testRunning => tpc = "off"

\* A late frame ends its step, and no step that sends can start before the
\* bridge is requested again.
LateEndsStep ==
  late # 0 => /\ late = 1 /\ ~requested /\ ~req
              /\ pc \notin AttachedPcs \cup {"noSim", "attach", "probe",
                                           "closeSelect"}

EngineInv ==
  /\ TypeOK /\ Control /\ TestHolds /\ LateEndsStep
  /\ HandlesAccountedFor /\ SocketsAccountedFor
  /\ LinkMatchesLayout /\ SuppressionIsSound

(***************************************************************************)
(* Liveness.                                                               *)
(***************************************************************************)

\* Once the simulator, the aircraft and MobiFlight stay up, the bridge stays
\* requested and connections are no longer cut, the CDU comes to show what the
\* display memory holds, and the status lines come to say so, whatever
\* happened before (TECHNICAL-ARCHITECTURE.md, update cadence and recovery).
Steady == /\ requested /\ ~stop /\ mf /\ calm
          /\ sim # Nil /\ runtime # Nil /\ lost = {}
Converges ==
  <>[]Steady => <>[](/\ handle # Nil /\ screen[layout] = mem
                     /\ bridgeStatus = "running" /\ mfStatus = "connected")

\* A bridge that stays stopped gives its handle and its connection back.
StopReleases ==
  <>[]~requested => <>[](opened = {} /\ ws = Nil /\ dws = Nil)

\* Closing the window ends the loop goroutine with nothing left open, unless
\* the process is gone first (engine_windows.go:365-368).
QuitReleases == stop ~> (pc = "done" /\ opened = {} /\ \A c \in Conn : end[c] = Nil)

\* A test display ends on every path, so that another one can be started.
TestEnds == testRunning ~> ~testRunning
=============================================================================
