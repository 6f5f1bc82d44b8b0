--------------------------- MODULE OutputSession ---------------------------
(***************************************************************************)
(* What the bridge promises to the two CDU endpoints, with nothing of how  *)
(* it keeps the promise: no loop, no connections, no locks, no simulator.  *)
(*                                                                         *)
(*   - Live frames appear on one endpoint at a time, the one of the CDU    *)
(*     that was selected when the session with the aircraft began, from    *)
(*     its beginning to its end, and only while a link to it is up.        *)
(*   - After a Stop at most one more live frame appears; a session that    *)
(*     has not begun by then can begin only to show that one frame.        *)
(*   - The CDU is chosen and a test display started only while the bridge  *)
(*     is stopped; the test pattern appears on the CDU selected then.      *)
(*   - Nothing else ever writes on a CDU; it goes blank by itself when     *)
(*     MobiFlight ends.                                                    *)
(***************************************************************************)
CONSTANTS
  Text,           \* what a live frame can show
  Pattern,        \* the test pattern
  Nil             \* no session, no test display, a blank screen

Side == {"captain", "copilot"}

VARIABLES
  allow,          \* live frames: "open" (any), "last" (one), "shut" (none)
  selected,       \* the selected CDU
  session,        \* the CDU of the session with the aircraft, or Nil
  link,           \* there is a link to the endpoint of the session
  test,           \* the CDU of the running test display, or Nil
  screen          \* what each CDU shows

vars == <<allow, selected, session, link, test, screen>>

Init ==
  /\ allow \in {"open", "shut"} /\ selected \in Side
  /\ session = Nil /\ link = FALSE /\ test = Nil
  /\ screen = [s \in Side |-> Nil]

\* The work under way at a Stop ends, and with it the right to one more frame.
MayLapse == allow' = allow \/ (allow = "last" /\ allow' = "shut")

Start ==
  /\ allow' = "open"
  /\ UNCHANGED <<selected, session, link, test, screen>>

Stop ==
  /\ allow = "open" /\ allow' \in {"last", "shut"}
  /\ UNCHANGED <<selected, session, link, test, screen>>

Lapse ==
  /\ MayLapse
  /\ UNCHANGED <<selected, session, link, test, screen>>

Choose(s) ==
  /\ allow # "open"
  /\ selected' = s
  /\ UNCHANGED <<allow, session, link, test, screen>>

Begin ==
  /\ session = Nil /\ allow # "shut"
  /\ session' = selected
  /\ UNCHANGED <<allow, selected, link, test, screen>>

LinkUp ==
  /\ session # Nil /\ ~link /\ allow # "shut"
  /\ link' = TRUE
  /\ UNCHANGED <<allow, selected, session, test, screen>>

LinkDown ==
  /\ link /\ link' = FALSE
  /\ MayLapse
  /\ UNCHANGED <<selected, session, test, screen>>

End ==
  /\ session # Nil
  /\ session' = Nil /\ link' = FALSE
  /\ MayLapse
  /\ UNCHANGED <<selected, test, screen>>

ShowLive(t) ==
  /\ link /\ allow # "shut"
  /\ screen' = [screen EXCEPT ![session] = t]
  /\ allow' = IF allow = "last" THEN "shut" ELSE allow
  /\ UNCHANGED <<selected, session, link, test>>

StartTest ==
  /\ test = Nil /\ allow # "open"
  /\ test' = selected
  /\ UNCHANGED <<allow, selected, session, link, screen>>

ShowTest ==
  /\ test # Nil
  /\ screen' = [screen EXCEPT ![test] = Pattern]
  /\ UNCHANGED <<allow, selected, session, link, test>>

EndTest ==
  /\ test # Nil /\ test' = Nil
  /\ UNCHANGED <<allow, selected, session, link, screen>>

Blank ==
  /\ screen' = [s \in Side |-> Nil]
  /\ UNCHANGED <<allow, selected, session, link, test>>

Next ==
  \/ Start \/ Stop \/ Lapse
  \/ \E s \in Side : Choose(s)
  \/ Begin \/ LinkUp \/ LinkDown \/ End
  \/ \E t \in Text : ShowLive(t)
  \/ StartTest \/ ShowTest \/ EndTest \/ Blank

Spec == Init /\ [][Next]_vars
=============================================================================
