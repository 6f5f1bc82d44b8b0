---------------------------- MODULE MCFrameRead -----------------------------
(***************************************************************************)
(* A page of three columns and one pair of rows for TLC.  The contents of  *)
(* the blocks are chosen to overlap, to begin and end with blanks of both  *)
(* kinds, to hold the square, and to end before the block does.            *)
(***************************************************************************)
EXTENDS FrameRead

\* Code points and what becomes of them; 8195 is a blank that is no ASCII.
Codes   == {0, 9, 32, 160, 65, 66, 126, 8195}
MCGlyph == [cp \in Codes |-> CASE cp \in {0, 32, 160} -> " "
                               [] cp = 9    -> "tab"
                               [] cp = 126  -> "square"
                               [] cp = 8195 -> "wide"
                               [] cp = 65   -> "A"
                               [] cp = 66   -> "B"]

MCBlocks == {"titleLarge", "titleSmall", "labels", "large", "small", "scratchpad",
             "selector", "message", "zero"}

MCChoices == [b \in MCBlocks |->
  CASE b = "titleLarge" -> {<<65, 66, 9>>, <<126, 0, 65>>}
    [] b = "titleSmall" -> {<<160, 65, 32>>}
    [] b = "labels"     -> {<<65, 66, 0, 8195, 66, 32>>, <<65, 9, 66, 9, 65, 9>>}
    [] b = "large"      -> {<<65, 126, 65, 32, 66, 32>>, <<0, 65, 65, 66, 32, 126>>,
                            <<65, 66, 65, 66, 126, 66>>}
    [] b = "small"      -> {<<32, 66, 8195, 32, 32, 32>>, <<65, 32, 0, 65, 66, 8195>>,
                            <<32, 126, 0, 0, 0, 0>>}
    [] b = "scratchpad" -> {<<66, 126, 65>>}
    [] b = "selector"   -> {<<0>>, <<1>>, <<7>>}
    [] b = "message"    -> {<<32, 65, 0>>, <<32, 8195, 0>>}
    [] b = "zero"       -> {<<65, 65, 0>>}]

MCMessages == [s \in {0, 1} |-> IF s = 0 THEN "zero" ELSE "message"]
=============================================================================
