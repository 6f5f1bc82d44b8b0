----------------------------- MODULE Connection -----------------------------
(***************************************************************************)
(* What the bridge loop and the test display take a connection for, with   *)
(* nothing of mutexes, goroutines, deadlines and peers:                    *)
(*                                                                         *)
(*   - SendText is one step: its frame goes out whole, on a connection     *)
(*     that is alive at that moment, and never into the middle of a pong;  *)
(*   - or it fails, and then the connection is dead;                       *)
(*   - a connection can die at any moment, and stays dead;                 *)
(*   - a pong is begun only while the connection is alive.                 *)
(***************************************************************************)
VARIABLES
  alive,      \* what Alive says
  result,     \* outcome of the last SendText: "none", "ok" or "error"
  ponging     \* a pong is being written

vars == <<alive, result, ponging>>

Init == alive = TRUE /\ result = "none" /\ ponging = FALSE

Deliver ==
  /\ alive /\ ~ponging
  /\ result' = "ok"
  /\ UNCHANGED <<alive, ponging>>

Fail ==
  /\ result' = "error" /\ alive' = FALSE
  /\ ponging' = ponging

Die ==
  /\ alive' = FALSE
  /\ UNCHANGED <<result, ponging>>

BeginPong ==
  /\ alive /\ ~ponging /\ ponging' = TRUE
  /\ UNCHANGED <<alive, result>>

EndPong ==
  /\ ponging /\ ponging' = FALSE
  /\ UNCHANGED <<alive, result>>

Next == Deliver \/ Fail \/ Die \/ BeginPong \/ EndPong

Spec == Init /\ [][Next]_vars
=============================================================================
