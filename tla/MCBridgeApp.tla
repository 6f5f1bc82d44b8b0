--------------------------- MODULE MCBridgeApp ---------------------------
(***************************************************************************)
(* Instances of BridgeApp for TLC; the action constraints leave out events *)
(* of the outside world that the question of a run does not need.          *)
(***************************************************************************)
EXTENDS BridgeApp, TLC

\* The controls: no aircraft is loaded and nothing listens for MobiFlight, so
\* that test displays fail, but the simulator comes and goes (auto-start).
ControlEvents == runtime' = Nil /\ calm' = TRUE /\ mf' = FALSE
NoMobiFlight  == mf = FALSE

\* The user's commands while one aircraft stays loaded.
FlightEvents ==
  /\ stop' = FALSE /\ calm' = TRUE /\ mf' = mf /\ sim' = sim
  /\ runtime # Nil => runtime' = runtime

\* The same without the Start button: only auto-start requests the bridge.
AutoOnly == requested' => (requested \/ (pc = "found" /\ pc' # pc))
AutoOnlySpec == AppInit /\ [][AppNext /\ FlightEvents /\ AutoOnly]_appVars
=============================================================================
