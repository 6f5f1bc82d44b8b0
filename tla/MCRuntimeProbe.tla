--------------------------- MODULE MCRuntimeProbe ---------------------------
(***************************************************************************)
(* An instance of RuntimeProbe for TLC: two modules, one linear memory, a  *)
(* text block for each side, a selector and a message that it can name.    *)
(***************************************************************************)
EXTENDS RuntimeProbe

CONSTANTS gauge, other, memory0

\* Texts with and without blanks around them.
MCText == {"", "F70", " F70", "A2", "wasm", "new", "_mem", "_cap", "m_0.dll"}
MCTrim == [t \in MCText |-> IF t = " F70" THEN "F70" ELSE t]

OneLayout(b, s) == [blocks |-> <<b>>, selector |-> s, url |-> "new"]
Both(c, f) == [s \in Side |-> IF s = "captain" THEN c ELSE f]

F70 == [id |-> "F70", adapter |-> "wasm", name |-> "F70", maker |-> "",
        required |-> {"_mem", "_cap"}, linear |-> "_mem", hints |-> {"m_0.dll"},
        messages |-> {[word |-> "named", block |-> 4]},
        layout |-> Both(OneLayout(1, 3), OneLayout(2, 0))]

\* An entry that replaces the built-in profile, with other offsets; one that is
\* added, with the defaults of the adapter; one for another adapter; one that
\* lacks a block.
Moved   == [F70 EXCEPT !.id = " F70", !.layout = Both(OneLayout(2, 0), OneLayout(3, 0))]
Second  == [F70 EXCEPT !.id = "A2", !.adapter = "", !.name = "", !.maker = "A2",
                       !.required = {}, !.linear = "", !.hints = {},
                       !.layout = Both(OneLayout(3, 0), OneLayout(3, 0))]
Foreign == [F70 EXCEPT !.adapter = "new"]
Lacking == [Second EXCEPT !.layout = Both(OneLayout(3, 0), OneLayout(0, 0))]

MCBuiltIn == <<F70>>
MCFiles == {Absent, <<Second, Moved, Second>>, <<Foreign, Second>>, <<Moved, Lacking>>}

MCHinted == [m \in {gauge, other} |-> IF m = gauge THEN "new" ELSE "m_0.dll"]
MCEnding == [n \in {"g_mem", "h_mem", "g_cap"} |->
               IF n = "g_cap" THEN {"_cap"} ELSE {"_mem"}]

Good      == [exports |-> [n \in {"g_mem", "g_cap"} |->
                             IF n = "g_mem" THEN "cell" ELSE "other"], hidden |-> {}]
Partly    == [Good EXCEPT !.hidden = {"g_cap"}]
Ambiguous == [exports |-> [n \in {"g_mem", "h_mem", "g_cap"} |->
                             IF n = "g_mem" THEN "cell" ELSE "other"], hidden |-> {}]
Plain     == [exports |-> [n \in {} |-> "other"], hidden |-> {}]
MCImages  == {Good, Partly, Ambiguous, Plain}

MCContents == {<<"text", "text", "text", "text">>, <<"text", "junk", "text", "text">>,
               <<"gone", "text", "junk", "text">>, <<"text", "text", "named", "gone">>}

\* The hints of the F70 turn the order of the snapshot round.
MCPlace == [m \in {gauge, other} |-> IF m = gauge THEN 1 ELSE 2]

\* The module other stays what it was at first: one of another kind, or a
\* candidate with a pointer that is plausible or not.  gauge changes as it likes.
\* Without a file the profiles are the same as with one that is rejected, and
\* other is of another kind.
OtherIsSimple ==
  /\ image[other] \in {Good, Plain} /\ cell[other] # Nil /\ image[gauge] # Plain
  /\ file = Absent => image[other] = Plain /\ cell[other] = Low
OtherStays == image'[other] = image[other] /\ cell'[other] = cell[other]
=============================================================================
