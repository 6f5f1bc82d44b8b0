----------------------------- MODULE MCStartup ------------------------------
(***************************************************************************)
(* Two processes, an older program with good, odd and no settings, and     *)
(* lists of releases in and out of order, for TLC.                         *)
(***************************************************************************)
EXTENDS Startup

OldGood == [cdu |-> "copilot", auto |-> FALSE, show |-> TRUE]
OldOdd  == [cdu |-> "other", auto |-> FALSE, show |-> FALSE]
MCOldFiles == {Absent, Torn, OldGood, OldOdd}

\* Suffixes and stages in the order of strings.
Alphabetical == <<"none", "alpha", "alpha1", "beta", "beta9", "dev10", "dev7",
                  "rc", "rc-4", "rc.2", "rc3", "rc4">>
MCSuffix == {Alphabetical[i] : i \in 1..Len(Alphabetical)} \ {"alpha", "beta"}
MCAlphabet == [k \in MCSuffix \cup Stages |->
                 CHOOSE i \in 1..Len(Alphabetical) : Alphabetical[i] = k]
MCOpening == [s \in MCSuffix |->
                CASE s = "alpha1" -> "alpha" [] s = "beta9" -> "beta"
                  [] s \in {"none", "dev7", "dev10"} -> "none" [] OTHER -> "rc"]
MCRest == [s \in MCSuffix |->
             CASE s = "alpha1" -> 1 [] s = "beta9" -> 9 [] s = "rc-4" -> -4
               [] s = "rc3" -> 3 [] s = "rc4" -> 4 [] OTHER -> NoNumber]

V(minor, patch, suffix) ==
  [major |-> 1, minor |-> minor, patch |-> patch, suffix |-> suffix]
Rel(tag, page) == [tag |-> tag, draft |-> FALSE, url |-> page]

MCBuilds == {Garbled, V(0, 0, "rc3")}
MCLists == {
  <<>>,
  <<Rel(V(0, 0, "beta9"), "beta9"), Rel(V(0, 0, "rc4"), "rc4"), Rel(V(0, 0, "rc3"), "rc3")>>,
  <<Rel(V(0, 1, "dev10"), "dev10"), Rel(V(0, 1, "dev7"), "dev7")>>,
  <<Rel(V(0, 1, "dev7"), "dev7"), Rel(V(0, 1, "alpha1"), "alpha1"), Rel(V(0, 1, "dev10"), "dev10")>>,
  <<Rel(Garbled, "other"), Rel(V(0, 0, "none"), "final"),
    [Rel(V(1, 0, "none"), "draft") EXCEPT !.draft = TRUE]>>,
  <<Rel(V(0, 1, "rc-4"), "rc-4"), Rel(V(0, 1, "rc"), "rc"), Rel(V(0, 1, "rc.2"), "rc.2"),
    Rel(V(1, 0, "none"), NoUrl)>>}
=============================================================================
