------------------------ MODULE BridgeSessionProofs ------------------------
(***************************************************************************)
(* BridgeEngine implements OutputSession, for every value of its           *)
(* constants: initial states map to initial states, and every step of the  *)
(* engine is a step of OutputSession or leaves its state unchanged.  What  *)
(* the steps of OutputSession cannot do is then carried over: where and    *)
(* when live frames appear, and that they cease with a Stop.               *)
(***************************************************************************)
EXTENDS BridgeSession, BridgeEngineProofs

LEMMA SessionInit == Init => SessionInv
  BY DEF Init, SessionInv

LEMMA SessionNext == EngineInv /\ SessionInv /\ [Next]_vars => SessionInv'
<1> SUFFICES ASSUME EngineInv, SessionInv, [Next]_vars PROVE SessionInv'
  OBVIOUS
<1>0. TypeOK /\ Control /\ TestHolds
  BY DEF EngineInv
<1> USE <1>0 DEF SessionInv, cmdVars, linkVars, locVars, loopVars, testVars,
                 simVars, netVars, statVars, ourVars
<1>1. CASE LoopStop
  BY <1>1 DEF LoopStop, TakeResources
<1>17. CASE CloseTaken
  BY <1>17 DEF CloseTaken, Disconnect, TypeOK, WorldTypes, LocalTypes
<1>2. CASE StepAttached \/ StepRelease \/ StepDetached
  BY <1>2 DEF StepAttached, StepRelease, StepDetached, TakeResources
<1>3. CASE DetectSkip \/ Detect \/ StepError \/ Found \/ NoSim
  BY <1>3 DEF DetectSkip, Detect, StepError, Found, NoSim, EndStep
<1>4. CASE AttachOpen \/ Adopt \/ Reject
  BY <1>4 DEF AttachOpen, Adopt, Reject, EndStep
<1>5. CASE ReadOk
  BY <1>5 DEF ReadOk, Readable, TypeOK, WorldTypes
<1>6. CASE ReadRetry \/ ReadFail \/ Publish
  BY <1>6 DEF ReadRetry, ReadFail, Publish, TakeResources, EndStep
<1>7. CASE DialOk
  BY <1>7 DEF DialOk, Connect, Fresh, TypeOK, WorldTypes
<1>8. CASE DialFail \/ SendSkip \/ SendOk
  BY <1>8 DEF DialFail, SendSkip, SendOk, EndStep
<1>9. CASE SendFail
  BY <1>9 DEF SendFail, Disconnect, EndStep, TypeOK, WorldTypes, LocalTypes
<1>10. CASE User
  <2>1. CASE StartTest
    BY <2>1 DEF StartTest, TestHolds
  <2> QED
    BY <1>10, <2>1 DEF User, SetRequested, SetAutoStart, SetCDU, Quit
<1>11. CASE TestDial
  BY <1>11 DEF TestDial, Connect, Fresh, TypeOK, WorldTypes
<1>12. CASE TestSend \/ TestAgain \/ TestClose
  BY <1>12 DEF TestSend, TestAgain, TestClose, Disconnect, TypeOK, WorldTypes,
               LocalTypes
<1>13. CASE TestFinish \/ TestClear
  BY <1>13 DEF TestFinish, TestClear, TestHolds
<1>14. CASE Readers
  BY <1>14 DEF Readers, ReaderExit, Disconnect, TypeOK, WorldTypes, LocalTypes
<1>15. CASE World
  BY <1>15 DEF World, SimStart, SimExit, AircraftLoad, AircraftUnload, Disturb,
               Settle, MFUp, MFDown, PeerDrop
<1>16. CASE UNCHANGED vars
  BY <1>16 DEF vars
<1> QED
  BY <1>1, <1>2, <1>3, <1>4, <1>5, <1>6, <1>7, <1>8, <1>9, <1>10, <1>11, <1>12,
     <1>13, <1>14, <1>15, <1>16, <1>17 DEF Next, Loop, Step, Test, Readers

-----------------------------------------------------------------------------
(* The simulation *)

LEMMA OutputInit == Init => Output!Init
  BY ConstantsAssumption
  DEF Init, Output!Init, Allowed, Attached, Tested, Alive, StepMaySend,
      AttachedPcs, Side, Output!Side

LEMMA OutputLoop ==
  EngineInv /\ SessionInv /\ Loop => [Output!Next]_Output!vars
<1> SUFFICES ASSUME EngineInv, SessionInv, Loop
             PROVE  Output!Next \/ UNCHANGED Output!vars
  OBVIOUS
<1>0. TypeOK /\ Control /\ LinkMatchesLayout
  BY DEF EngineInv
<1> USE <1>0, ConstantsAssumption
    DEF Allowed, Attached, Tested, Alive, StepMaySend, AttachedPcs, cmdVars,
        linkVars, locVars, loopVars, testVars, simVars, netVars, statVars
<1>1. CASE LoopStop \/ StepRelease
  <2>1. handle = Nil => UNCHANGED Output!vars
    BY <1>1 DEF LoopStop, StepRelease, TakeResources, Control, Output!vars
  <2>2. handle # Nil => Output!End
    BY <1>1 DEF LoopStop, StepRelease, TakeResources, Output!End,
                Output!MayLapse, TypeOK, EngineTypes, Side
  <2> QED
    BY <2>1, <2>2 DEF Output!Next
<1>2. CASE CloseTaken
  <2>1. UNCHANGED Output!vars
    BY <1>2 DEF CloseTaken, Disconnect, Control, SessionInv, ClosingPcs,
                Output!vars
  <2> QED
    BY <2>1
<1>3. CASE StepAttached \/ StepDetached \/ Detect
  <2>1. UNCHANGED Output!vars
    BY <1>3 DEF StepAttached, StepDetached, Detect, Control, Output!vars
  <2> QED
    BY <2>1
<1>4. CASE DetectSkip \/ StepError \/ NoSim \/ DialFail \/ SendSkip \/ Reject
  <2>1. Output!Lapse
    BY <1>4 DEF DetectSkip, StepError, NoSim, DialFail, SendSkip, Reject,
                EndStep, Output!Lapse, Output!MayLapse
  <2> QED
    BY <2>1 DEF Output!Next
<1>5. CASE Found
  <2>1. AutoStarts => Output!Start
    BY <1>5 DEF Found, AutoStarts, EndStep, Output!Start
  <2>2. ~AutoStarts => Output!Lapse
    BY <1>5 DEF Found, EndStep, Output!Lapse, Output!MayLapse
  <2> QED
    BY <2>1, <2>2 DEF Output!Next
<1>6. CASE AttachOpen \/ ReadOk \/ ReadRetry
  <2>1. UNCHANGED Output!vars
    BY <1>6 DEF AttachOpen, ReadOk, ReadRetry, Output!vars
  <2> QED
    BY <2>1
<1>7. CASE Adopt
  <2>1. Output!Begin
    BY <1>7 DEF Adopt, Control, Output!Begin, TypeOK, EngineTypes, Side
  <2> QED
    BY <2>1 DEF Output!Next
<1>8. CASE ReadFail
  <2>1. Output!End
    BY <1>8 DEF ReadFail, TakeResources, Control, Output!End, Output!MayLapse,
                TypeOK, EngineTypes, Side
  <2> QED
    BY <2>1 DEF Output!Next
<1>9. CASE Publish
  <2>1. Output!Lapse
    BY <1>9 DEF Publish, EndStep, Output!Lapse, Output!MayLapse
  <2> QED
    BY <2>1 DEF Output!Next
<1>10. CASE DialOk
  <2>1. Output!LinkUp
    BY <1>10 DEF DialOk, Connect, Control, Output!LinkUp, TypeOK, EngineTypes,
                 WorldTypes, Side
  <2> QED
    BY <2>1 DEF Output!Next
<1>11. CASE SendOk
  <2>1. handle # Nil /\ end[ws] = layout /\ layout # Nil /\ frame \in Text
    BY <1>11 DEF SendOk, Control, LinkMatchesLayout, SessionInv, TypeOK,
                 EngineTypes, Side
  <2>2. CASE ws \in lost
    <3>1. Output!Lapse
      BY <1>11, <2>2 DEF SendOk, Show, EndStep, Output!Lapse, Output!MayLapse
    <3> QED
      BY <3>1 DEF Output!Next
  <2>3. CASE ws \notin lost
    <3>1. Output!ShowLive(frame)
      BY <1>11, <2>1, <2>3 DEF SendOk, Show, EndStep, Output!ShowLive
    <3> QED
      BY <2>1, <3>1 DEF Output!Next
  <2> QED
    BY <2>2, <2>3
<1>12. CASE SendFail
  <2>1. Alive(ws) => Output!LinkDown
    BY <1>12 DEF SendFail, Disconnect, EndStep, Output!LinkDown, Output!MayLapse
  <2>2. ~Alive(ws) => Output!Lapse
    BY <1>12 DEF SendFail, Disconnect, EndStep, Output!Lapse, Output!MayLapse
  <2> QED
    BY <2>1, <2>2 DEF Output!Next
<1> QED
  BY <1>1, <1>2, <1>3, <1>4, <1>5, <1>6, <1>7, <1>8, <1>9, <1>10, <1>11, <1>12
  DEF Loop, Step

LEMMA OutputOthers ==
  EngineInv /\ SessionInv /\ (User \/ Test \/ World \/ Readers)
    => [Output!Next]_Output!vars
<1> SUFFICES ASSUME EngineInv, SessionInv, User \/ Test \/ World \/ Readers
             PROVE  Output!Next \/ UNCHANGED Output!vars
  OBVIOUS
<1>0. TypeOK /\ Control /\ TestHolds
  BY DEF EngineInv
<1> USE <1>0, ConstantsAssumption
    DEF Allowed, Attached, Tested, Alive, StepMaySend, AttachedPcs, cmdVars,
        linkVars, locVars, loopVars, testVars, simVars, netVars, statVars,
        ourVars
<1>1. CASE \E v \in BOOLEAN : SetRequested(v)
  <2> PICK v \in BOOLEAN : SetRequested(v)
    BY <1>1
  <2>1. v => Output!Start
    BY DEF SetRequested, Output!Start
  <2>2. ~v /\ requested => Output!Stop
    BY DEF SetRequested, Output!Stop
  <2>3. ~v /\ ~requested => Output!Lapse
    BY DEF SetRequested, Output!Lapse, Output!MayLapse, TypeOK, Booleans
  <2> QED
    BY <2>1, <2>2, <2>3 DEF Output!Next
<1>2. CASE Quit \/ \E v \in BOOLEAN : SetAutoStart(v)
  <2>1. UNCHANGED Output!vars
    BY <1>2 DEF Quit, SetAutoStart, Output!vars
  <2> QED
    BY <2>1
<1>3. CASE \E s \in Side : SetCDU(s)
  <2> PICK s \in Side : SetCDU(s)
    BY <1>3
  <2>1. Output!Choose(s)
    BY DEF SetCDU, Output!Choose
  <2> QED
    BY <2>1 DEF Output!Next, Output!Side, Side
<1>4. CASE StartTest
  <2>1. Output!StartTest
    BY <1>4 DEF StartTest, Output!StartTest
  <2> QED
    BY <2>1 DEF Output!Next
<1>5. CASE TestDial
  <2>1. UNCHANGED Output!vars
    BY <1>5 DEF TestDial, Connect, Fresh, Output!vars, TypeOK, EngineTypes,
                WorldTypes
  <2> QED
    BY <2>1
<1>6. CASE TestSend \/ TestAgain \/ TestClose
  <2>1. testRunning /\ tside # Nil
    BY <1>6 DEF TestSend, TestAgain, TestClose, TestHolds, TypeOK, LocalTypes,
                Side
  <2>2. CASE Alive(tws) /\ Show(tws, Pattern) /\ UNCHANGED netVars
    <3>1. end[tws] = tside
      BY <2>2 DEF SessionInv
    <3>2. CASE tws \in lost
      <4>1. UNCHANGED Output!vars
        BY <1>6, <2>2, <3>2
        DEF TestSend, TestAgain, TestClose, Show, Output!vars
      <4> QED
        BY <4>1
    <3>3. CASE tws \notin lost
      <4>1. screen' = [screen EXCEPT ![tside] = Pattern]
        BY <2>2, <3>1, <3>3 DEF Show
      <4>2. Tested = tside /\ Tested # Nil
        BY <2>1
      <4>3. UNCHANGED <<Allowed, cdu, Attached, Alive(ws), Tested>>
        BY <1>6, <2>2 DEF TestSend, TestAgain, TestClose
      <4>4. Output!ShowTest
        BY <4>1, <4>2, <4>3 DEF Output!ShowTest
      <4> QED
        BY <4>4 DEF Output!Next
    <3> QED
      BY <3>2, <3>3
  <2>3. CASE Disconnect(tws) /\ UNCHANGED screen
    <3>1. CASE ws = tws /\ Alive(ws)
      <4>1. Output!LinkDown
        BY <1>6, <2>3, <3>1
        DEF TestSend, TestAgain, TestClose, Disconnect, Output!LinkDown,
            Output!MayLapse, TypeOK, EngineTypes
      <4> QED
        BY <4>1 DEF Output!Next
    <3>2. CASE ~(ws = tws /\ Alive(ws))
      <4>1. UNCHANGED Output!vars
        BY <1>6, <2>3, <3>2
        DEF TestSend, TestAgain, TestClose, Disconnect, Output!vars, TypeOK,
            EngineTypes
      <4> QED
        BY <4>1
    <3> QED
      BY <3>1, <3>2
  <2> QED
    BY <1>6, <2>2, <2>3 DEF TestSend, TestAgain, TestClose
<1>7. CASE TestFinish
  <2>1. UNCHANGED Output!vars
    BY <1>7 DEF TestFinish, Output!vars
  <2> QED
    BY <2>1
<1>8. CASE TestClear
  <2>1. Output!EndTest
    BY <1>8 DEF TestClear, TestHolds, Output!EndTest, TypeOK, LocalTypes, Side
  <2> QED
    BY <2>1 DEF Output!Next
<1>9. CASE Readers
  <2> PICK c \in Conn : ReaderExit(c)
    BY <1>9 DEF Readers
  <2>1. CASE c = ws /\ Alive(ws)
    <3>1. Output!LinkDown
      BY <2>1 DEF ReaderExit, Disconnect, Output!LinkDown, Output!MayLapse
    <3> QED
      BY <3>1 DEF Output!Next
  <2>2. CASE ~(c = ws /\ Alive(ws))
    <3>1. UNCHANGED Output!vars
      BY <2>2 DEF ReaderExit, Disconnect, Output!vars, TypeOK, EngineTypes
    <3> QED
      BY <3>1
  <2> QED
    BY <2>1, <2>2
<1>10. CASE MFDown
  <2>1. Output!Blank
    BY <1>10 DEF MFDown, Output!Blank, Output!Side, Side
  <2> QED
    BY <2>1 DEF Output!Next
<1>11. CASE World /\ ~MFDown
  <2>1. UNCHANGED Output!vars
    BY <1>11 DEF World, SimStart, SimExit, AircraftLoad, AircraftUnload, Disturb,
                 Settle, MFUp, PeerDrop, Output!vars
  <2> QED
    BY <2>1
<1> QED
  BY <1>1, <1>2, <1>3, <1>4, <1>5, <1>6, <1>7, <1>8, <1>9, <1>10, <1>11
  DEF User, Test

-----------------------------------------------------------------------------
(* What the promise amounts to, in terms of the engine *)

LEMMA StepImplementsOutput ==
  EngineInv /\ SessionInv /\ [Next]_vars => [Output!Next]_Output!vars
<1> SUFFICES ASSUME EngineInv, SessionInv, [Next]_vars
             PROVE  [Output!Next]_Output!vars
  OBVIOUS
<1>1. CASE Loop
  BY <1>1, OutputLoop
<1>2. CASE User \/ Test \/ World \/ Readers
  BY <1>2, OutputOthers
<1>3. CASE UNCHANGED vars
  <2>1. UNCHANGED Output!vars
    BY <1>3 DEF vars, cmdVars, linkVars, locVars, loopVars, testVars, netVars,
                Output!vars, Allowed, Attached, Tested, Alive, StepMaySend
  <2> QED
    BY <2>1
<1> QED
  BY <1>1, <1>2, <1>3 DEF Next, Readers

THEOREM SessionInvariant == Spec => [](EngineInv /\ SessionInv)
<1>1. Init => SessionInv /\ EngineInv
  BY SessionInit, EngineInvInit
<1>2. EngineInv /\ SessionInv /\ [Next]_vars => EngineInv' /\ SessionInv'
  BY SessionNext, EngineInvNext
<1> QED
  BY <1>1, <1>2, PTL DEF Spec

\* The bridge engine implements OutputSession: live frames go to the CDU that
\* was selected when the session began and to no other, at most one of them
\* after a Stop, and nothing but live frames and the test pattern is ever shown.
THEOREM EngineImplementsOutput == Spec => ImplementsOutput
  BY OutputInit, StepImplementsOutput, SessionInvariant, PTL DEF Spec, ImplementsOutput, Output!Spec

\* A live frame comes to stand on the CDU s.
LiveFrameOn(s) == screen'[s] # screen[s] /\ screen'[s] \in Text

\* What OutputSession allows a step to show and to change.
LEMMA OutputStep ==
  ASSUME EngineInv, [Output!Next]_Output!vars
  PROVE  /\ \A s \in Side : LiveFrameOn(s) =>
              /\ Attached = s /\ Alive(ws) /\ Allowed # "shut"
              /\ Allowed = "last" => Allowed' = "shut"
         /\ Allowed = "shut" => Allowed' \in {"shut", "open"}
         /\ Attached # Nil => Attached' \in {Attached, Nil}
<1>1. /\ Pattern \notin Text /\ Nil \notin Text
      /\ screen \in [Side -> Text \cup {Nil, Pattern}]
  BY ConstantsAssumption DEF EngineInv, TypeOK, WorldTypes
<1>2. Output!Side = Side
  BY DEF Output!Side, Side
<1>3. ASSUME NEW t \in Text, Output!ShowLive(t), NEW s \in Side, LiveFrameOn(s)
      PROVE  /\ Attached = s /\ Alive(ws) /\ Allowed # "shut"
             /\ Allowed = "last" => Allowed' = "shut"
  BY <1>1, <1>3 DEF Output!ShowLive, LiveFrameOn
<1>4. ASSUME NEW s \in Side, LiveFrameOn(s), ~(\E t \in Text : Output!ShowLive(t))
      PROVE  FALSE
  <2>1. CASE Output!ShowTest
    BY <1>1, <1>4, <2>1 DEF Output!ShowTest, LiveFrameOn
  <2>2. CASE Output!Blank
    BY <1>1, <1>2, <1>4, <2>2 DEF Output!Blank, LiveFrameOn
  <2>3. screen' # screen
    BY <1>4 DEF LiveFrameOn
  <2> QED
    BY <1>4, <2>1, <2>2, <2>3
    DEF Output!Next, Output!Start, Output!Stop, Output!Lapse, Output!Choose, Output!Begin,
        Output!LinkUp, Output!LinkDown, Output!End, Output!StartTest, Output!EndTest, Output!vars
<1>5. /\ Allowed = "shut" => Allowed' \in {"shut", "open"}
      /\ Attached # Nil => Attached' \in {Attached, Nil}
  BY DEF Output!Next, Output!Start, Output!Stop, Output!Lapse, Output!Choose, Output!Begin,
        Output!LinkUp, Output!LinkDown, Output!End, Output!ShowLive, Output!StartTest,
        Output!ShowTest, Output!EndTest, Output!Blank, Output!vars, Output!MayLapse
<1> QED
  BY <1>3, <1>4, <1>5

\* A live frame reaches no other CDU than the one whose layout is being read, and
\* that one only over a connection to it (engine_windows.go:465-500, 553-564).
THEOREM LiveOnSelectedOnly ==
  Spec => [][\A s \in Side : LiveFrameOn(s) => handle # Nil /\ s = layout /\ Alive(ws)]_vars
<1>1. EngineInv /\ [Output!Next]_Output!vars =>
        \A s \in Side : LiveFrameOn(s) => handle # Nil /\ s = layout /\ Alive(ws)
  <2> SUFFICES ASSUME EngineInv, [Output!Next]_Output!vars, NEW s \in Side, LiveFrameOn(s)
               PROVE  handle # Nil /\ s = layout /\ Alive(ws)
    OBVIOUS
  <2>1. Attached = s /\ Alive(ws) /\ s # Nil
    BY OutputStep, ConstantsAssumption DEF Side
  <2> QED
    BY <2>1 DEF Attached
<1> QED
  BY <1>1, StepImplementsOutput, SessionInvariant, PTL DEF Spec

\* As long as the bridge stays attached it reads the layout, and writes to the CDU,
\* that were selected when it attached, whatever is selected, stopped and started in
\* the meantime (engine_windows.go:377-388, 550-564).
THEOREM SessionKeepsSide ==
  Spec => [][handle # Nil /\ handle' # Nil => layout' = layout]_vars
<1>1. EngineInv /\ EngineInv' /\ [Output!Next]_Output!vars =>
        (handle # Nil /\ handle' # Nil => layout' = layout)
  <2> SUFFICES ASSUME EngineInv, EngineInv', [Output!Next]_Output!vars,
                      handle # Nil, handle' # Nil
               PROVE  layout' = layout
    OBVIOUS
  <2>1. layout \in Side /\ layout' \in Side
    BY DEF EngineInv, TypeOK, EngineTypes
  <2>2. Attached = layout /\ Attached' = layout' /\ Nil \notin Side
    BY ConstantsAssumption DEF Attached
  <2> QED
    BY <2>1, <2>2, OutputStep
<1> QED
  BY <1>1, StepImplementsOutput, SessionInvariant, PTL DEF Spec

\* No step shows a live frame anywhere.
NoLiveFrame == \A s \in Side : ~LiveFrameOn(s)

\* The bridge is stopped and the step a Stop found under way is over.
Shut == Allowed = "shut"

\* Once the step that a Stop found under way is over, nothing more is sent for as
\* long as the bridge stays stopped, whatever the simulator, MobiFlight and the test
\* display do (engine_windows.go:186-195, 377-448).
THEOREM SilentOnceStopped ==
  Spec => [](Shut /\ []~requested => [][NoLiveFrame]_vars)
<1>1. EngineInv /\ [Output!Next]_Output!vars /\ Shut /\ (~requested)' =>
        NoLiveFrame /\ Shut'
  <2> SUFFICES ASSUME EngineInv, [Output!Next]_Output!vars, Allowed = "shut", ~requested'
               PROVE  NoLiveFrame /\ Allowed' = "shut"
    BY DEF Shut
  <2>1. Allowed' # "open"
    BY DEF Allowed
  <2> QED
    BY <2>1, OutputStep DEF NoLiveFrame
<1> QED
  BY <1>1, StepImplementsOutput, SessionInvariant, PTL DEF Spec

\* The one live frame that may follow a Stop is the last for as long as the bridge
\* stays stopped (engine_windows.go:377-388, 485-486).
THEOREM OneFrameThenSilent ==
  Spec => [][~requested /\ ~requested' /\ ~NoLiveFrame => Allowed' = "shut"]_vars
<1>1. EngineInv /\ [Output!Next]_Output!vars =>
        (~requested /\ ~requested' /\ ~NoLiveFrame => Allowed' = "shut")
  <2> SUFFICES ASSUME EngineInv, [Output!Next]_Output!vars, ~requested,
                      NEW s \in Side, LiveFrameOn(s)
               PROVE  Allowed' = "shut"
    BY DEF NoLiveFrame
  <2>1. Allowed = "last"
    BY OutputStep DEF Allowed
  <2> QED
    BY <2>1, OutputStep
<1> QED
  BY <1>1, StepImplementsOutput, SessionInvariant, PTL DEF Spec

LoopReturned == pc = "done"

\* What is left when the loop goroutine has returned: nothing of its own, and no
\* connection but that of a test display that is still running.
LoopGone ==
  /\ LoopReturned /\ opened = {} /\ handle = Nil /\ ws = Nil
  /\ \A c \in Conn : end[c] # Nil => c = tws

\* A loop that has returned has closed its handle and its connection, and nothing
\* opens one again (engine_windows.go:340-368): the half of QuitReleases that is
\* safety.
THEOREM QuitIsFinal == Spec => [](LoopReturned => []LoopGone)
<1>1. EngineInv /\ LoopReturned => LoopGone
  <2> SUFFICES ASSUME EngineInv, pc = "done" PROVE LoopGone
    BY DEF LoopReturned
  <2>1. handle = Nil /\ ws = Nil /\ dws = Nil /\ dh = Nil
    BY DEF EngineInv, Control, AttachedPcs, ClosingPcs
  <2>2. Nil \notin Conn
    BY ConstantsAssumption
  <2> QED
    BY <2>1, <2>2 DEF EngineInv, HandlesAccountedFor, SocketsAccountedFor, LoopGone, LoopReturned
<1>2. LoopReturned /\ [Next]_vars => LoopReturned'
  <2> SUFFICES ASSUME pc = "done", [Next]_vars PROVE pc' = "done"
    BY DEF LoopReturned
  <2>1. ~Loop
    BY DEF Loop, LoopStop, CloseTaken, Step, StepAttached, StepRelease, StepDetached, DetectSkip,
           Detect, StepError, Found, NoSim, AttachOpen, Adopt, Reject, ReadOk, ReadRetry,
           ReadFail, Publish, DialOk, DialFail, SendSkip, SendOk, SendFail
  <2>2. CASE User
    BY <2>2 DEF User, SetRequested, SetAutoStart, SetCDU, Quit, StartTest
  <2>3. CASE Test
    BY <2>3 DEF Test, TestDial, TestSend, TestAgain, TestFinish, TestClose, TestClear
  <2>4. CASE World
    BY <2>4 DEF World, SimStart, AircraftLoad, Settle, PeerDrop, SimExit, AircraftUnload,
                Disturb, MFUp, MFDown, ourVars
  <2>5. CASE \E c \in Conn : ReaderExit(c)
    BY <2>5 DEF ReaderExit
  <2>6. CASE UNCHANGED vars
    BY <2>6 DEF vars
  <2> QED
    BY <2>1, <2>2, <2>3, <2>4, <2>5, <2>6 DEF Next
<1> QED
  BY <1>1, <1>2, SessionInvariant, PTL DEF Spec
=============================================================================
