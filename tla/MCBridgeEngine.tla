-------------------------- MODULE MCBridgeEngine --------------------------
(***************************************************************************)
(* Instances of BridgeEngine for TLC.  The operators of the second group   *)
(* are action constraints: an instance leaves out some of the events of    *)
(* the user or of the outside world, never a step of the engine, to keep   *)
(* the number of states small enough for the question it asks.             *)
(***************************************************************************)
EXTENDS BridgeSession, TLC

\* Model values of one kind are interchangeable.
Symmetry == Permutations(Pid) \cup Permutations(Gen) \cup Permutations(Conn)
              \cup Permutations(Text)

\* The status texts are written and never read by the engine: a safety run
\* that does not mention them need not tell them apart.
NoStatus == <<cmdVars, linkVars, loopVars, pc, testVars, testRunning,
              simVars, opened, mf, netVars, screen, late>>

NoTest    == testRunning' = FALSE
NoQuit    == stop' = FALSE
NoAuto    == autoStart' = autoStart
FixedCDU  == cdu' = cdu
CalmOnly  == calm' = TRUE
DropsWithMF == lost' \subseteq lost \/ (mf /\ ~mf')
LoadsOnce == runtime # Nil /\ sim' # Nil => runtime' = runtime

\* Recovery of the link, whatever the simulator and MobiFlight do.
RecoveryEvents == NoTest /\ NoQuit /\ NoAuto /\ FixedCDU

\* Live frames, test displays, Stop and the closing of the window, on the
\* captain's side: an aircraft stays as long as the simulator, the simulator may
\* end and does not come back, connections are lost with MobiFlight, and there is
\* no auto-start.
CaptainByHand == cdu = "captain" /\ ~autoStart
SimEndsOnce == sim = Nil => sim' = Nil
ReleaseEvents ==
  FixedCDU /\ NoAuto /\ CalmOnly /\ LoadsOnce /\ SimEndsOnce /\ DropsWithMF
=============================================================================
