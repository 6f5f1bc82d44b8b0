------------------------ MODULE BridgeEngineProofs ------------------------
(***************************************************************************)
(* Theorems about BridgeEngine, for every value of its constants.          *)
(*                                                                         *)
(* EngineInv is inductive.  Its parts are proved one after the other: the  *)
(* types, what each point of the loop may assume (Control), what the test  *)
(* display goroutine holds, and then the safety properties, which need     *)
(* these.  The flags are proved with Zenon, the other types with SMT.      *)
(***************************************************************************)
EXTENDS BridgeEngine, TLAPS

Readers == \E c \in Conn : ReaderExit(c)

-----------------------------------------------------------------------------
(* Types *)

LEMMA TypeInit == Init => TypeOK
<1> SUFFICES ASSUME Init PROVE TypeOK
  OBVIOUS
<1>1. Booleans
  BY Zenon DEF Init, Booleans
<1>2. EngineTypes /\ LocalTypes /\ WorldTypes
  BY DEF Init, EngineTypes, LocalTypes, WorldTypes, Side, Pcs, TPcs
<1> QED
  BY <1>1, <1>2 DEF TypeOK

\* The flags, through the steps of the loop.
LEMMA BooleansLoop == Booleans /\ Loop => Booleans'
<1> SUFFICES ASSUME Booleans, Loop PROVE Booleans'
  OBVIOUS
<1> USE DEF Booleans, cmdVars, linkVars, locVars, loopVars, testVars, simVars,
            netVars, statVars
<1>1. CASE LoopStop \/ CloseTaken
  BY <1>1, Zenon DEF LoopStop, CloseTaken, TakeResources
<1>2. CASE StepAttached \/ StepRelease \/ StepDetached
  BY <1>2, Zenon DEF StepAttached, StepRelease, StepDetached, TakeResources
<1>3. CASE DetectSkip \/ Detect \/ StepError \/ NoSim
  BY <1>3, Zenon DEF DetectSkip, Detect, StepError, NoSim, EndStep
<1>4. CASE Found
  BY <1>4, Zenon DEF Found, AutoStarts, EndStep
<1>5. CASE AttachOpen \/ Adopt \/ Reject
  BY <1>5, Zenon DEF AttachOpen, Adopt, Reject, EndStep
<1>6. CASE ReadOk \/ ReadRetry \/ ReadFail
  BY <1>6, Zenon DEF ReadOk, ReadRetry, ReadFail, TakeResources
<1>7. CASE Publish
  BY <1>7, Zenon DEF Publish, EndStep
<1>8. CASE DialOk \/ DialFail
  BY <1>8, Zenon DEF DialOk, DialFail, EndStep
<1>9. CASE SendSkip \/ SendOk \/ SendFail
  BY <1>9, Zenon DEF SendSkip, SendOk, SendFail, EndStep
<1> QED
  BY <1>1, <1>2, <1>3, <1>4, <1>5, <1>6, <1>7, <1>8, <1>9 DEF Loop, Step

\* The flags, through the steps of everyone else.
LEMMA BooleansOthers == Booleans /\ (User \/ Test \/ World \/ Readers) => Booleans'
<1> SUFFICES ASSUME Booleans, User \/ Test \/ World \/ Readers PROVE Booleans'
  OBVIOUS
<1> USE DEF Booleans, cmdVars, linkVars, locVars, loopVars, testVars, simVars,
            netVars, statVars
<1>1. CASE User
  BY <1>1, Zenon DEF User, SetRequested, SetAutoStart, SetCDU, Quit, StartTest
<1>2. CASE TestDial \/ TestSend \/ TestAgain
  BY <1>2, Zenon DEF TestDial, TestSend, TestAgain
<1>3. CASE TestFinish \/ TestClose \/ TestClear
  BY <1>3, Zenon DEF TestFinish, TestClose, TestClear
<1>4. CASE World
  <2>1. CASE \E p \in Pid : SimStart(p)
    BY <2>1, Zenon DEF SimStart, ourVars
  <2>2. CASE \E g \in Gen : AircraftLoad(g)
    BY <2>2, Zenon DEF AircraftLoad, ourVars
  <2>3. CASE \E t \in Text : Settle(t)
    BY <2>3, Zenon DEF Settle, ourVars
  <2>4. CASE \E c \in Conn : PeerDrop(c)
    BY <2>4, Zenon DEF PeerDrop, ourVars
  <2>5. CASE SimExit \/ AircraftUnload \/ Disturb
    BY <2>5, Zenon DEF SimExit, AircraftUnload, Disturb, ourVars
  <2>6. CASE MFUp \/ MFDown
    BY <2>6, Zenon DEF MFUp, MFDown, ourVars
  <2> QED
    BY <1>4, <2>1, <2>2, <2>3, <2>4, <2>5, <2>6 DEF World
<1>5. CASE Readers
  BY <1>5, Zenon DEF Readers, ReaderExit
<1> QED
  BY <1>1, <1>2, <1>3, <1>4, <1>5 DEF Test

ValueTypes == EngineTypes /\ LocalTypes /\ WorldTypes

\* The other types, through the steps of the loop; opening a handle needs that
\* there is a process to attach to.
LEMMA ValuesLoop == ValueTypes /\ Control /\ Loop => ValueTypes'
<1> SUFFICES ASSUME ValueTypes, Control, Loop PROVE ValueTypes'
  OBVIOUS
<1> USE DEF ValueTypes, EngineTypes, LocalTypes, WorldTypes, Pcs, cmdVars,
            linkVars, locVars, loopVars, testVars, simVars, netVars, statVars
<1>1. CASE LoopStop
  BY <1>1 DEF LoopStop, TakeResources
<1>2. CASE CloseTaken
  BY <1>2 DEF CloseTaken, Disconnect
<1>3. CASE StepAttached \/ StepDetached
  BY <1>3 DEF StepAttached, StepDetached
<1>4. CASE StepRelease
  BY <1>4 DEF StepRelease, TakeResources
<1>5. CASE DetectSkip \/ Detect
  BY <1>5 DEF DetectSkip, Detect, EndStep
<1>6. CASE StepError \/ NoSim
  BY <1>6 DEF StepError, NoSim, EndStep
<1>7. CASE Found
  BY <1>7 DEF Found, EndStep
<1>8. CASE AttachOpen
  BY <1>8 DEF AttachOpen, Control
<1>9. CASE Adopt \/ Reject
  BY <1>9 DEF Adopt, Reject, EndStep
<1>10. CASE ReadOk \/ ReadRetry
  BY <1>10 DEF ReadOk, ReadRetry, Readable
<1>11. CASE ReadFail
  BY <1>11 DEF ReadFail, TakeResources
<1>12. CASE Publish
  BY <1>12 DEF Publish, EndStep
<1>13. CASE DialOk
  BY <1>13 DEF DialOk, Connect
<1>14. CASE DialFail \/ SendSkip
  BY <1>14 DEF DialFail, SendSkip, EndStep
<1>15. CASE SendOk
  BY <1>15 DEF SendOk, Show, Alive, EndStep
<1>16. CASE SendFail
  BY <1>16 DEF SendFail, Disconnect, EndStep
<1> QED
  BY <1>1, <1>2, <1>3, <1>4, <1>5, <1>6, <1>7, <1>8, <1>9, <1>10, <1>11,
     <1>12, <1>13, <1>14, <1>15, <1>16 DEF Loop, Step

\* The other types, through the steps of everyone else.
LEMMA ValuesOthers ==
  ValueTypes /\ (User \/ Test \/ World \/ Readers) => ValueTypes'
<1> SUFFICES ASSUME ValueTypes, User \/ Test \/ World \/ Readers
             PROVE  ValueTypes'
  OBVIOUS
<1> USE DEF ValueTypes, EngineTypes, LocalTypes, WorldTypes, TPcs, cmdVars,
            linkVars, locVars, loopVars, testVars, simVars, netVars, statVars
<1>1. CASE User
  <2>1. CASE \E v \in BOOLEAN : SetRequested(v) \/ SetAutoStart(v)
    BY <2>1 DEF SetRequested, SetAutoStart
  <2>2. CASE (\E s \in Side : SetCDU(s)) \/ Quit \/ StartTest
    BY <2>2 DEF SetCDU, Quit, StartTest
  <2> QED
    BY <1>1, <2>1, <2>2 DEF User
<1>2. CASE TestDial
  BY <1>2 DEF TestDial, Connect
<1>3. CASE TestSend
  BY <1>3 DEF TestSend, Show, Alive, Disconnect
<1>4. CASE TestAgain
  BY <1>4 DEF TestAgain, Show, Alive, Disconnect
<1>5. CASE TestFinish \/ TestClear
  BY <1>5 DEF TestFinish, TestClear, Side
<1>6. CASE TestClose
  BY <1>6 DEF TestClose, Disconnect
<1>7. CASE World
  <2>1. CASE \E p \in Pid : SimStart(p)
    BY <2>1 DEF SimStart, ourVars
  <2>2. CASE \E g \in Gen : AircraftLoad(g)
    BY <2>2 DEF AircraftLoad, ourVars
  <2>3. CASE \E t \in Text : Settle(t)
    BY <2>3 DEF Settle, ourVars
  <2>4. CASE \E c \in Conn : PeerDrop(c)
    BY <2>4 DEF PeerDrop, ourVars
  <2>5. CASE SimExit \/ AircraftUnload \/ Disturb
    BY <2>5 DEF SimExit, AircraftUnload, Disturb, ourVars
  <2>6. CASE MFUp \/ MFDown
    BY <2>6 DEF MFUp, MFDown, ourVars
  <2> QED
    BY <1>7, <2>1, <2>2, <2>3, <2>4, <2>5, <2>6 DEF World
<1>8. CASE Readers
  BY <1>8 DEF Readers, ReaderExit, Disconnect
<1> QED
  BY <1>1, <1>2, <1>3, <1>4, <1>5, <1>6, <1>7, <1>8 DEF Test

LEMMA TypeNext == TypeOK /\ Control /\ Next => TypeOK'
  BY BooleansLoop, BooleansOthers, ValuesLoop, ValuesOthers
  DEF TypeOK, ValueTypes, Next, Readers

-----------------------------------------------------------------------------
(* What the two goroutines hold *)

LEMMA ControlNext == TypeOK /\ Control /\ Next => Control'
<1> SUFFICES ASSUME TypeOK, Control, Next PROVE Control'
  OBVIOUS
<1>t. ws \in Conn \cup {Nil} /\ end \in [Conn -> Side \cup {Nil}]
  BY DEF TypeOK, EngineTypes, WorldTypes
<1> USE DEF Control, AttachedPcs, ClosingPcs, Alive, cmdVars, linkVars, locVars,
            loopVars, testVars, simVars, netVars, statVars
<1>1. CASE LoopStop \/ StepRelease
  BY <1>1 DEF LoopStop, StepRelease, TakeResources
<1>2. CASE CloseTaken
  BY <1>2 DEF CloseTaken
<1>3. CASE StepAttached \/ StepDetached
  BY <1>3 DEF StepAttached, StepDetached
<1>4. CASE DetectSkip \/ Detect \/ StepError \/ NoSim
  BY <1>4 DEF DetectSkip, Detect, StepError, NoSim, EndStep
<1>5. CASE Found
  BY <1>5 DEF Found, EndStep
<1>6. CASE AttachOpen \/ Adopt \/ Reject
  BY <1>6 DEF AttachOpen, Adopt, Reject, EndStep
<1>7. CASE ReadOk \/ ReadRetry \/ ReadFail
  BY <1>7 DEF ReadOk, ReadRetry, ReadFail, TakeResources
<1>8. CASE Publish
  BY <1>8 DEF Publish, EndStep
<1>9. CASE DialOk \/ DialFail
  BY <1>9 DEF DialOk, DialFail, EndStep
<1>10. CASE SendSkip \/ SendOk \/ SendFail
  BY <1>10 DEF SendSkip, SendOk, SendFail, EndStep
<1>11. CASE User
  BY <1>11 DEF User, SetRequested, SetAutoStart, SetCDU, Quit, StartTest
<1>12. CASE TestDial
  BY <1>12, <1>t DEF TestDial, Connect, Fresh
<1>13. CASE TestSend \/ TestAgain \/ TestClose
  BY <1>13, <1>t DEF TestSend, TestAgain, TestClose, Disconnect
<1>14. CASE TestFinish \/ TestClear
  BY <1>14 DEF TestFinish, TestClear
<1>15. CASE World
  BY <1>15 DEF World, SimStart, AircraftLoad, Settle, PeerDrop, SimExit,
               AircraftUnload, Disturb, MFUp, MFDown, ourVars
<1>16. CASE Readers
  BY <1>16, <1>t DEF Readers, ReaderExit, Disconnect
<1> QED
  BY <1>1, <1>2, <1>3, <1>4, <1>5, <1>6, <1>7, <1>8, <1>9, <1>10, <1>11,
     <1>12, <1>13, <1>14, <1>15, <1>16 DEF Next, Loop, Step, Test, Readers

LEMMA TestHoldsNext == TypeOK /\ TestHolds /\ Next => TestHolds'
<1> SUFFICES ASSUME TypeOK, TestHolds, Next PROVE TestHolds'
  OBVIOUS
<1> USE DEF TestHolds, cmdVars, linkVars, locVars, loopVars, testVars, simVars,
            netVars, statVars
<1>1. CASE LoopStop \/ CloseTaken \/ StepAttached \/ StepRelease \/ StepDetached
  BY <1>1 DEF LoopStop, CloseTaken, StepAttached, StepRelease, StepDetached
<1>2. CASE DetectSkip \/ Detect \/ StepError \/ NoSim \/ Found
  BY <1>2 DEF DetectSkip, Detect, StepError, NoSim, Found
<1>3. CASE AttachOpen \/ Adopt \/ Reject \/ ReadOk \/ ReadRetry \/ ReadFail
  BY <1>3 DEF AttachOpen, Adopt, Reject, ReadOk, ReadRetry, ReadFail
<1>4. CASE Publish \/ DialOk \/ DialFail \/ SendSkip \/ SendOk \/ SendFail
  BY <1>4 DEF Publish, DialOk, DialFail, SendSkip, SendOk, SendFail
<1>5. CASE User
  BY <1>5 DEF User, SetRequested, SetAutoStart, SetCDU, Quit, StartTest
<1>6. CASE TestDial \/ TestSend \/ TestAgain
  BY <1>6 DEF TestDial, TestSend, TestAgain
<1>7. CASE TestFinish \/ TestClose \/ TestClear
  BY <1>7 DEF TestFinish, TestClose, TestClear
<1>8. CASE World
  BY <1>8 DEF World, SimStart, AircraftLoad, Settle, PeerDrop, SimExit,
              AircraftUnload, Disturb, MFUp, MFDown, ourVars
<1>9. CASE Readers
  BY <1>9 DEF Readers, ReaderExit
<1> QED
  BY <1>1, <1>2, <1>3, <1>4, <1>5, <1>6, <1>7, <1>8, <1>9
  DEF Next, Loop, Step, Test, Readers

-----------------------------------------------------------------------------
(* Late frames *)

LEMMA LateNext == TypeOK /\ LateEndsStep /\ Next => LateEndsStep'
<1> SUFFICES ASSUME TypeOK, LateEndsStep, Next PROVE LateEndsStep'
  OBVIOUS
<1> USE DEF LateEndsStep, AttachedPcs, cmdVars, linkVars, locVars, loopVars,
            testVars, simVars, netVars, statVars
<1>1. CASE LoopStop \/ CloseTaken
  BY <1>1 DEF LoopStop, CloseTaken, TakeResources
<1>2. CASE StepAttached \/ StepRelease \/ StepDetached
  BY <1>2 DEF StepAttached, StepRelease, StepDetached, TakeResources
<1>3. CASE DetectSkip \/ Detect \/ StepError \/ NoSim
  BY <1>3 DEF DetectSkip, Detect, StepError, NoSim, EndStep
<1>4. CASE Found
  BY <1>4 DEF Found, EndStep, AutoStarts
<1>5. CASE AttachOpen \/ Adopt \/ Reject
  BY <1>5 DEF AttachOpen, Adopt, Reject, EndStep
<1>6. CASE ReadOk \/ ReadRetry \/ ReadFail
  BY <1>6 DEF ReadOk, ReadRetry, ReadFail, TakeResources
<1>7. CASE Publish \/ DialOk \/ DialFail
  BY <1>7 DEF Publish, DialOk, DialFail, EndStep
<1>8. CASE SendSkip \/ SendOk \/ SendFail
  BY <1>8 DEF SendSkip, SendOk, SendFail, EndStep, TypeOK, LocalTypes
<1>9. CASE User
  BY <1>9 DEF User, SetRequested, SetAutoStart, SetCDU, Quit, StartTest
<1>10. CASE Test
  BY <1>10 DEF Test, TestDial, TestSend, TestAgain, TestFinish, TestClose,
               TestClear
<1>11. CASE World
  BY <1>11 DEF World, SimStart, AircraftLoad, Settle, PeerDrop, SimExit,
               AircraftUnload, Disturb, MFUp, MFDown, ourVars
<1>12. CASE Readers
  BY <1>12 DEF Readers, ReaderExit
<1> QED
  BY <1>1, <1>2, <1>3, <1>4, <1>5, <1>6, <1>7, <1>8, <1>9, <1>10, <1>11, <1>12
  DEF Next, Loop, Step, Readers

-----------------------------------------------------------------------------
(* Handles and connections *)

LEMMA HandlesNext ==
  TypeOK /\ Control /\ HandlesAccountedFor /\ Next => HandlesAccountedFor'
<1> SUFFICES ASSUME TypeOK, Control, HandlesAccountedFor, Next
             PROVE  HandlesAccountedFor'
  OBVIOUS
<1> USE DEF HandlesAccountedFor, Control, AttachedPcs, ClosingPcs, cmdVars,
            linkVars, locVars, loopVars, testVars, simVars, netVars, statVars
<1>1. CASE LoopStop \/ StepRelease
  BY <1>1 DEF LoopStop, StepRelease, TakeResources
<1>2. CASE CloseTaken
  BY <1>2 DEF CloseTaken
<1>3. CASE StepAttached \/ StepDetached
  BY <1>3 DEF StepAttached, StepDetached
<1>4. CASE DetectSkip \/ Detect \/ StepError \/ NoSim
  BY <1>4 DEF DetectSkip, Detect, StepError, NoSim, EndStep
<1>5. CASE Found
  BY <1>5 DEF Found, EndStep
<1>6. CASE AttachOpen
  BY <1>6 DEF AttachOpen
<1>7. CASE Adopt
  BY <1>7 DEF Adopt
<1>8. CASE Reject
  BY <1>8 DEF Reject, EndStep
<1>9. CASE ReadOk \/ ReadRetry
  BY <1>9 DEF ReadOk, ReadRetry
<1>10. CASE ReadFail
  BY <1>10 DEF ReadFail, TakeResources
<1>11. CASE Publish \/ DialOk \/ DialFail
  BY <1>11 DEF Publish, DialOk, DialFail, EndStep
<1>12. CASE SendSkip \/ SendOk \/ SendFail
  BY <1>12 DEF SendSkip, SendOk, SendFail, EndStep
<1>13. CASE User
  BY <1>13 DEF User, SetRequested, SetAutoStart, SetCDU, Quit, StartTest
<1>14. CASE Test
  BY <1>14 DEF Test, TestDial, TestSend, TestAgain, TestFinish, TestClose,
               TestClear
<1>15. CASE World
  BY <1>15 DEF World, SimStart, AircraftLoad, Settle, PeerDrop, SimExit,
               AircraftUnload, Disturb, MFUp, MFDown, ourVars
<1>16. CASE Readers
  BY <1>16 DEF Readers, ReaderExit
<1> QED
  BY <1>1, <1>2, <1>3, <1>4, <1>5, <1>6, <1>7, <1>8, <1>9, <1>10, <1>11,
     <1>12, <1>13, <1>14, <1>15, <1>16 DEF Next, Loop, Step, Readers

LEMMA SocketsNext ==
  TypeOK /\ Control /\ TestHolds /\ SocketsAccountedFor /\ Next
    => SocketsAccountedFor'
<1> SUFFICES ASSUME TypeOK, Control, TestHolds, SocketsAccountedFor, Next,
                    NEW c \in Conn, end'[c] # Nil
             PROVE  c \in {ws', dws', tws'}
  BY DEF SocketsAccountedFor
<1>t. ws \in Conn \cup {Nil} /\ end \in [Conn -> Side \cup {Nil}]
  BY DEF TypeOK, EngineTypes, WorldTypes
<1>s. end[c] # Nil => c \in {ws, dws, tws}
  BY DEF SocketsAccountedFor
<1> USE <1>s DEF Control, ClosingPcs, cmdVars, linkVars, locVars, loopVars,
            testVars, simVars, netVars, statVars
<1>1. CASE LoopStop \/ StepRelease \/ ReadFail
  BY <1>1 DEF LoopStop, StepRelease, ReadFail, TakeResources
<1>2. CASE CloseTaken
  BY <1>2, <1>t DEF CloseTaken, Disconnect
<1>3. CASE StepAttached \/ StepDetached \/ DetectSkip \/ Detect \/ StepError
  BY <1>3 DEF StepAttached, StepDetached, DetectSkip, Detect, StepError
<1>4. CASE Found \/ NoSim \/ AttachOpen \/ Adopt \/ Reject
  BY <1>4 DEF Found, NoSim, AttachOpen, Adopt, Reject
<1>5. CASE ReadOk \/ ReadRetry \/ Publish \/ DialFail \/ SendSkip \/ SendOk
  BY <1>5 DEF ReadOk, ReadRetry, Publish, DialFail, SendSkip, SendOk
<1>6. CASE DialOk
  BY <1>6, <1>t DEF DialOk, Connect, Alive
<1>7. CASE SendFail
  BY <1>7, <1>t DEF SendFail, Disconnect
<1>8. CASE User
  BY <1>8 DEF User, SetRequested, SetAutoStart, SetCDU, Quit, StartTest
<1>9. CASE TestDial
  BY <1>9, <1>t, ConstantsAssumption DEF TestDial, Connect, TestHolds
<1>10. CASE TestSend \/ TestAgain
  BY <1>10, <1>t DEF TestSend, TestAgain, Disconnect
<1>11. CASE TestClose
  BY <1>11, <1>t DEF TestClose, Disconnect
<1>12. CASE TestFinish \/ TestClear
  BY <1>12 DEF TestFinish, TestClear
<1>13. CASE World
  BY <1>13 DEF World, SimStart, AircraftLoad, Settle, PeerDrop, SimExit,
               AircraftUnload, Disturb, MFUp, MFDown, ourVars
<1>14. CASE Readers
  BY <1>14, <1>t DEF Readers, ReaderExit, Disconnect
<1> QED
  BY <1>1, <1>2, <1>3, <1>4, <1>5, <1>6, <1>7, <1>8, <1>9, <1>10, <1>11,
     <1>12, <1>13, <1>14 DEF Next, Loop, Step, Test, Readers

-----------------------------------------------------------------------------
(* The link *)

LEMMA LinkNext ==
  TypeOK /\ Control /\ LinkMatchesLayout /\ Next => LinkMatchesLayout'
<1> SUFFICES ASSUME TypeOK, Control, LinkMatchesLayout, Next
             PROVE  Alive(ws)' => end'[ws'] = layout'
  BY ControlNext DEF LinkMatchesLayout, Control
<1>t. ws \in Conn \cup {Nil} /\ end \in [Conn -> Side \cup {Nil}]
  BY DEF TypeOK, EngineTypes, WorldTypes
<1>l. Alive(ws) => end[ws] = layout
  BY DEF LinkMatchesLayout
<1> USE <1>l DEF Alive, cmdVars, linkVars, locVars, loopVars, testVars, simVars,
            netVars, statVars
<1>1. CASE LoopStop \/ StepRelease \/ ReadFail
  BY <1>1 DEF LoopStop, StepRelease, ReadFail, TakeResources
<1>2. CASE CloseTaken
  BY <1>2, <1>t DEF CloseTaken, Disconnect
<1>3. CASE StepAttached \/ StepDetached \/ DetectSkip \/ Detect \/ StepError
  BY <1>3 DEF StepAttached, StepDetached, DetectSkip, Detect, StepError
<1>4. CASE Found \/ NoSim \/ AttachOpen \/ Reject
  BY <1>4 DEF Found, NoSim, AttachOpen, Reject
<1>5. CASE Adopt
  BY <1>5 DEF Adopt, Control, AttachedPcs
<1>6. CASE ReadOk \/ ReadRetry \/ Publish \/ DialFail \/ SendSkip \/ SendOk
  BY <1>6 DEF ReadOk, ReadRetry, Publish, DialFail, SendSkip, SendOk
<1>7. CASE DialOk
  BY <1>7, <1>t DEF DialOk, Connect
<1>8. CASE SendFail
  BY <1>8 DEF SendFail
<1>9. CASE User
  BY <1>9 DEF User, SetRequested, SetAutoStart, SetCDU, Quit, StartTest
<1>10. CASE TestDial
  BY <1>10, <1>t DEF TestDial, Connect, Fresh
<1>11. CASE TestSend \/ TestAgain \/ TestClose
  BY <1>11, <1>t DEF TestSend, TestAgain, TestClose, Disconnect
<1>12. CASE TestFinish \/ TestClear
  BY <1>12 DEF TestFinish, TestClear
<1>13. CASE World
  BY <1>13 DEF World, SimStart, AircraftLoad, Settle, PeerDrop, SimExit,
               AircraftUnload, Disturb, MFUp, MFDown, ourVars
<1>14. CASE Readers
  BY <1>14, <1>t DEF Readers, ReaderExit, Disconnect
<1> QED
  BY <1>1, <1>2, <1>3, <1>4, <1>5, <1>6, <1>7, <1>8, <1>9, <1>10, <1>11,
     <1>12, <1>13, <1>14 DEF Next, Loop, Step, Test, Readers

\* What the CDU shows: only a frame sent on the link, the test pattern, or a
\* restart of MobiFlight (which cuts every connection) changes it.
LEMMA SuppressionNext ==
  TypeOK /\ Control /\ LinkMatchesLayout /\ SuppressionIsSound /\ Next
    => SuppressionIsSound'
<1> SUFFICES ASSUME TypeOK, Control, LinkMatchesLayout, SuppressionIsSound, Next,
                    lastJSON' # Nil, Alive(ws)', ws' \notin lost'
             PROVE  screen'[layout'] \in {lastJSON', Pattern}
  BY DEF SuppressionIsSound
<1>t. /\ ws \in Conn \cup {Nil} /\ tws \in Conn \cup {Nil} /\ layout \in Side
      /\ end \in [Conn -> Side \cup {Nil}]
      /\ screen \in [Side -> Text \cup {Nil, Pattern}]
  BY DEF TypeOK, EngineTypes, LocalTypes, WorldTypes
<1>l. Alive(ws) => end[ws] = layout
  BY DEF LinkMatchesLayout
<1>s. lastJSON # Nil /\ Alive(ws) /\ ws \notin lost
        => screen[layout] \in {lastJSON, Pattern}
  BY DEF SuppressionIsSound
<1> USE <1>s DEF Alive, cmdVars, linkVars, locVars, loopVars, testVars, simVars,
            netVars, statVars
<1>1. CASE LoopStop \/ StepRelease \/ ReadFail
  BY <1>1 DEF LoopStop, StepRelease, ReadFail, TakeResources
<1>2. CASE CloseTaken
  BY <1>2, <1>t DEF CloseTaken, Disconnect
<1>3. CASE StepAttached \/ StepDetached \/ DetectSkip \/ Detect \/ StepError
  BY <1>3 DEF StepAttached, StepDetached, DetectSkip, Detect, StepError
<1>4. CASE Found \/ NoSim \/ AttachOpen \/ Reject
  BY <1>4 DEF Found, NoSim, AttachOpen, Reject
<1>5. CASE Adopt
  BY <1>5 DEF Adopt, Control, AttachedPcs
<1>6. CASE ReadOk \/ ReadRetry \/ Publish \/ DialFail \/ SendSkip
  BY <1>6 DEF ReadOk, ReadRetry, Publish, DialFail, SendSkip
<1>7. CASE DialOk \/ SendFail
  BY <1>7 DEF DialOk, SendFail
<1>8. CASE SendOk
  BY <1>8, <1>t, <1>l DEF SendOk, Show
<1>9. CASE User
  BY <1>9 DEF User, SetRequested, SetAutoStart, SetCDU, Quit, StartTest
<1>10. CASE TestDial
  BY <1>10, <1>t DEF TestDial, Connect, Fresh
<1>11. CASE TestSend
  BY <1>11, <1>t DEF TestSend, Show, Disconnect
<1>12. CASE TestAgain
  BY <1>12, <1>t DEF TestAgain, Show, Disconnect
<1>13. CASE TestClose
  BY <1>13, <1>t DEF TestClose, Disconnect
<1>14. CASE TestFinish \/ TestClear
  BY <1>14 DEF TestFinish, TestClear
<1>15. CASE World
  BY <1>15, <1>t DEF World, SimStart, AircraftLoad, Settle, PeerDrop, SimExit,
               AircraftUnload, Disturb, MFUp, MFDown, ourVars
<1>16. CASE Readers
  BY <1>16, <1>t DEF Readers, ReaderExit, Disconnect
<1> QED
  BY <1>1, <1>2, <1>3, <1>4, <1>5, <1>6, <1>7, <1>8, <1>9, <1>10, <1>11,
     <1>12, <1>13, <1>14, <1>15, <1>16 DEF Next, Loop, Step, Test, Readers

-----------------------------------------------------------------------------
(* The inductive invariant and what follows from it *)

LEMMA EngineInvInit == Init => EngineInv
<1> SUFFICES ASSUME Init PROVE EngineInv
  OBVIOUS
<1>1. TypeOK
  BY TypeInit
<1>2. Control /\ TestHolds /\ LateEndsStep
  BY DEF Init, Control, TestHolds, LateEndsStep, AttachedPcs, ClosingPcs
<1>3. HandlesAccountedFor /\ SocketsAccountedFor
  BY DEF Init, HandlesAccountedFor, SocketsAccountedFor
<1>4. LinkMatchesLayout /\ SuppressionIsSound
  BY DEF Init, LinkMatchesLayout, SuppressionIsSound, Alive
<1> QED
  BY <1>1, <1>2, <1>3, <1>4 DEF EngineInv

LEMMA EngineInvNext == EngineInv /\ [Next]_vars => EngineInv'
<1>1. EngineInv /\ Next => EngineInv'
  BY TypeNext, ControlNext, TestHoldsNext, LateNext, HandlesNext, SocketsNext,
     LinkNext, SuppressionNext DEF EngineInv
<1>2. EngineInv /\ UNCHANGED vars => EngineInv'
  <2> SUFFICES ASSUME EngineInv, UNCHANGED vars PROVE EngineInv'
    OBVIOUS
  <2> USE DEF vars, cmdVars, linkVars, locVars, loopVars, testVars, simVars,
              netVars, statVars
  <2>1. TypeOK'
    BY DEF EngineInv, TypeOK, Booleans, EngineTypes, LocalTypes, WorldTypes
  <2>2. (Control /\ TestHolds /\ LateEndsStep)'
    BY DEF EngineInv, Control, TestHolds, LateEndsStep, Alive
  <2>3. (HandlesAccountedFor /\ SocketsAccountedFor)'
    BY DEF EngineInv, HandlesAccountedFor, SocketsAccountedFor
  <2>4. (LinkMatchesLayout /\ SuppressionIsSound)'
    BY DEF EngineInv, LinkMatchesLayout, SuppressionIsSound, Alive
  <2> QED
    BY <2>1, <2>2, <2>3, <2>4 DEF EngineInv
<1> QED
  BY <1>1, <1>2

\* The inductive invariant holds in every reachable state of the engine.
THEOREM EngineInvariant == Spec => []EngineInv
  BY EngineInvInit, EngineInvNext, PTL DEF Spec

\* Every variable of the engine, its goroutines and the world keeps its type.
THEOREM TypeCorrect == Spec => []TypeOK
<1>1. EngineInv => TypeOK
  BY DEF EngineInv
<1> QED
  BY <1>1, EngineInvariant, PTL

\* attach and closeResources leak no process handle on any path.
THEOREM NoHandleLeak == Spec => []HandlesAccountedFor
<1>1. EngineInv => HandlesAccountedFor
  BY DEF EngineInv
<1> QED
  BY <1>1, EngineInvariant, PTL

\* The loop and the test display leave no connection open that nobody holds,
\* and a test display that is over has closed its own.
THEOREM NoSocketLeak == Spec => [](SocketsAccountedFor /\ TestOverMeansClosed)
<1>1. EngineInv => SocketsAccountedFor /\ TestOverMeansClosed
  BY ConstantsAssumption
  DEF EngineInv, SocketsAccountedFor, TestOverMeansClosed, TestHolds
<1> QED
  BY <1>1, EngineInvariant, PTL

\* Once no test display runs, its connection is closed.
THEOREM TestLeavesNothing == Spec => []TestOverMeansClosed
  BY NoSocketLeak, PTL

\* Frames never go to the endpoint of a CDU other than the one they are read for.
THEOREM LinkCorrect == Spec => []LinkMatchesLayout
<1>1. EngineInv => LinkMatchesLayout
  BY DEF EngineInv
<1> QED
  BY <1>1, EngineInvariant, PTL

\* A frame the engine does not send again is one the CDU still shows.
THEOREM SuppressionCorrect == Spec => []SuppressionIsSound
<1>1. EngineInv => SuppressionIsSound
  BY DEF EngineInv
<1> QED
  BY <1>1, EngineInvariant, PTL

\* At most one live frame follows a Stop, however the threads interleave.
THEOREM OneLateFrame == Spec => []AtMostOneLateFrame
<1>1. EngineInv => AtMostOneLateFrame
  BY DEF EngineInv, LateEndsStep, AtMostOneLateFrame, TypeOK, LocalTypes
<1> QED
  BY <1>1, EngineInvariant, PTL
=============================================================================
