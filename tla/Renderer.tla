------------------------------ MODULE Renderer ------------------------------
(***************************************************************************)
(* The rebuilding of a CDU page from the text blocks of the aircraft       *)
(* (renderer.go): a title, Pairs pairs of a label row and a data row, and  *)
(* the scratchpad, each Width cells wide (24 and 6 in the program).        *)
(*                                                                         *)
(* A block is a sequence of code points, a text one of glyphs, a row a     *)
(* function from columns to cells.                                         *)
(***************************************************************************)
EXTENDS Naturals, Sequences

CONSTANTS
  Width,      \* columns
  Pairs,      \* pairs of a label row and a data row
  Glyph,      \* Glyph[cp]: what mapCodePoint makes of a code point
  End,        \* the code point 0
  Space,      \* the blank
  Square,     \* the square that marks a field
  Trailing,   \* the glyphs that TrimRight removes: blank, tab, line ends
  White       \* the glyphs that TrimSpace removes

Glyphs == {Glyph[cp] : cp \in DOMAIN Glyph}
Texts  == {t \in Seq(Glyphs) : Len(t) <= Width}
Cells  == [ch : Glyphs, size : {0, 1}]

ASSUME RendererAssumption ==
  /\ Width \in Nat \ {0} /\ Pairs \in Nat \ {0}
  /\ End \in DOMAIN Glyph /\ {Space, Square} \subseteq Glyphs
  /\ Space \in Trailing /\ Trailing \subseteq White
  /\ Square \notin White

-----------------------------------------------------------------------------
\* The last place of t that holds a glyph outside blanks, or 0; and the first.
LastIn(t, blanks) ==
  CHOOSE n \in 0..Len(t) : /\ n # 0 => t[n] \notin blanks
                           /\ \A i \in n+1..Len(t) : t[i] \in blanks

FirstIn(t, blanks) ==
  CHOOSE n \in 1..Len(t)+1 : /\ n <= Len(t) => t[n] \notin blanks
                             /\ \A i \in 1..n-1 : t[i] \in blanks

\* decodeWasmString: the glyphs before the first End
Decode(b) == LET n == FirstIn(b, DOMAIN Glyph \ {End}) - 1
             IN [i \in 1..n |-> Glyph[b[i]]]

\* decodeWasmLayer: a layer is a block of 2 * Pairs rows.
DecodeLayer(b) ==
  [i \in 1..2 * Pairs |-> Decode(SubSeq(b, (i - 1) * Width + 1, i * Width))]

IsBlank(t) == \A i \in 1..Len(t) : t[i] \in White

\* The glyphs of a text that overlay looks at
Trimmed(t, right) ==
  IF right THEN SubSeq(t, FirstIn(t, White), LastIn(t, White))
           ELSE SubSeq(t, 1, LastIn(t, Trailing))

\* The square always has the small font.
SizeOf(g, size) == IF g = Square THEN 1 ELSE size

BlankRow == [c \in 1..Width |-> [ch |-> Space, size |-> 0]]

\* overlay: the text on the left or on the right of a row; blanks let through
\* what is there.
Overlay(row, text, size, right) ==
  LET t     == Trimmed(text, right)
      start == IF right THEN Width - Len(t) ELSE 0
  IN [c \in 1..Width |->
        IF c > start /\ c <= start + Len(t) /\ t[c - start] # Space
        THEN [ch |-> t[c - start], size |-> SizeOf(t[c - start], size)]
        ELSE row[c]]

TitleRow(large, small) == Overlay(Overlay(BlankRow, large, 1, FALSE), small, 1, FALSE)

LabelRow(left, right) == Overlay(Overlay(BlankRow, left, 1, FALSE), right, 1, TRUE)

\* MUTANT: the large texts are laid over the small ones.
DataRowLargeLast(left, right, smallLeft, smallRight) ==
  Overlay(Overlay(Overlay(Overlay(BlankRow, smallLeft, 1, FALSE), smallRight, 1, TRUE),
                  left, 0, FALSE), right, 0, TRUE)

DataRow(left, right, smallLeft, smallRight) ==
  Overlay(Overlay(Overlay(Overlay(BlankRow, left, 0, FALSE), right, 0, TRUE),
                  smallLeft, 1, FALSE), smallRight, 1, TRUE)

ScratchRow(text) == Overlay(BlankRow, text, 0, FALSE)

\* buildDisplay: row 0 is the title, row 2 * Pairs + 1 the scratchpad.
BuildDisplay(titleLarge, titleSmall, labels, large, small, scratch) ==
  [r \in 0..2 * Pairs + 1 |->
     IF r = 0 THEN TitleRow(titleLarge, titleSmall)
     ELSE IF r = 2 * Pairs + 1 THEN ScratchRow(scratch)
     ELSE IF r % 2 = 1
          THEN LabelRow(labels[(r + 1) \div 2], labels[(r + 1) \div 2 + Pairs])
          ELSE DataRow(large[r \div 2], large[r \div 2 + Pairs],
                       small[r \div 2], small[r \div 2 + Pairs])]

-----------------------------------------------------------------------------
(* What a page shows, said without the order in which it is painted. *)

\* The glyph i of a text is neither a blank nor cut off at an end.
Visible(t, i, right) ==
  /\ t[i] # Space
  /\ IF right THEN /\ \E j \in i..Len(t) : t[j] \notin White
                   /\ \E j \in 1..i : t[j] \notin White
              ELSE \E j \in i..Len(t) : t[j] \notin Trailing

\* The places of a text that stand in column c: on the left a glyph stays where
\* it is, on the right the last that is not white stands in the last column.
Standing(text, right, c) ==
  LET shift == IF right THEN Width - LastIn(text, White) ELSE 0
  IN {i \in 1..Len(text) : i + shift = c /\ Visible(text, i, right)}

Layer(text, size, right) == [text |-> text, size |-> size, right |-> right]

OnLayer(l, c) == Standing(l.text, l.right, c)

\* Of several layers the uppermost one with a glyph in the column counts.
Topmost(layers, c) ==
  LET used == {k \in 1..Len(layers) : OnLayer(layers[k], c) # {}}
  IN IF used = {} THEN [ch |-> Space, size |-> 0]
     ELSE LET top == layers[CHOOSE k \in used : \A j \in used : j <= k]
              g   == top.text[CHOOSE i \in OnLayer(top, c) : TRUE]
          IN [ch |-> g, size |-> SizeOf(g, top.size)]

Shows(row, layers) == row = [c \in 1..Width |-> Topmost(layers, c)]
=============================================================================
