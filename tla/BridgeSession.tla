--------------------------- MODULE BridgeSession ---------------------------
(***************************************************************************)
(* The bridge engine implements OutputSession: the refinement mapping, and *)
(* the facts about the engine it rests on.                                 *)
(***************************************************************************)
EXTENDS BridgeEngine

\* The points of a step from which a frame can still be sent although the
\* bridge is not requested any more.
StepMaySend ==
  \/ pc \in AttachedPcs \cup {"attach", "probe"}
  \/ pc \in {"detect", "found"} /\ req

Allowed  == IF requested THEN "open" ELSE IF StepMaySend THEN "last" ELSE "shut"
Attached == IF handle = Nil THEN Nil ELSE layout
Tested   == IF testRunning THEN tside ELSE Nil

Output == INSTANCE OutputSession WITH
  allow <- Allowed, selected <- cdu, session <- Attached, link <- Alive(ws),
  test <- Tested, screen <- screen

\* The engine keeps what OutputSession promises to the two endpoints, through
\* every interleaving of its loop, the test display, the user's commands and
\* the outside world (engine_windows.go:159-195, 267-334, 340-503, 524-623).
ImplementsOutput == Output!Spec

\* What the mapping needs beside EngineInv: the connection of the test display
\* leads to the CDU the test was started for, a frame is at hand where one is
\* sent, and a step that releases goes on as one of a stopped bridge.
SessionInv ==
  /\ tws # Nil /\ end[tws] # Nil => end[tws] = tside
  /\ pc \in {"publish", "dial", "send"} => frame \in Text
  /\ pc = "closeDetect" => ~req
=============================================================================
