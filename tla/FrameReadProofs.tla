-------------------------- MODULE FrameReadProofs ---------------------------
(***************************************************************************)
(* The rows that the renderer paints are those of the page in memory, for  *)
(* every size of the page, every map of code points to glyphs and every    *)
(* content of the blocks.                                                  *)
(*                                                                         *)
(* The first part is about the operators of Renderer: what trimming and    *)
(* overlay leave in a column, and that a row painted layer by layer shows  *)
(* in every column the topmost of its layers.  The second is the invariant *)
(* of the reading: what has been read is what is in memory, as long as     *)
(* nothing has been written.                                               *)
(***************************************************************************)
EXTENDS FrameRead, SequenceTheorems, WellFoundedInduction, TLAPS

-----------------------------------------------------------------------------
(* The largest member of a bounded set, and the ends of a text *)

LEMMA MaxExists ==
  ASSUME NEW n \in Nat, NEW S, S \subseteq 0..n, S # {}
  PROVE  \E k \in S : \A j \in S : j <= k
<1> DEFINE T == {m \in Nat : \E k \in S : m = n - k}
<1>1. \A k \in S : k \in 0..n
  OBVIOUS
<1>2. \A k \in 0..n : n - k \in Nat
  BY SMT
<1>3. T \subseteq Nat /\ T # {}
  BY <1>1, <1>2
<1>4. PICK m \in T : \A y \in T : ~(<<y, m>> \in OpToRel(<, Nat))
  BY <1>3, NatLessThanWellFounded, WFMin
<1>5. PICK k \in S : m = n - k
  BY <1>4
<1>6. ASSUME NEW j \in S PROVE j <= k
  <2>1. n - j \in T
    BY <1>1, <1>2
  <2>2. ~(n - j < m)
    BY <1>3, <1>4, <2>1 DEF OpToRel
  <2> QED
    BY <1>1, <1>5, <2>2
<1> QED
  BY <1>6

LEMMA LastInExists ==
  ASSUME NEW t, NEW blanks, Len(t) \in Nat
  PROVE  LET n == LastIn(t, blanks)
         IN  /\ n \in 0..Len(t)
             /\ n # 0 => t[n] \notin blanks
             /\ \A i \in n+1..Len(t) : t[i] \in blanks
<1> DEFINE L == Len(t)
           S == {i \in 1..L : t[i] \notin blanks}
           Fits(n) == /\ n # 0 => t[n] \notin blanks
                      /\ \A i \in n+1..L : t[i] \in blanks
<1>1. \E n \in 0..L : Fits(n)
  <2>1. CASE S = {}
    <3>1. \A i \in 1..L : t[i] \in blanks
      BY <2>1
    <3>2. \A i \in 0+1..L : i \in 1..L
      BY SMT
    <3>3. Fits(0) /\ 0 \in 0..L
      BY <3>1, <3>2
    <3> QED
      BY <3>3
  <2>2. CASE S # {}
    <3>1. S \subseteq 0..L
      BY SMT
    <3>2. PICK k \in S : \A j \in S : j <= k
      BY <2>2, <3>1, MaxExists
    <3>3. \A i \in k+1..L : i \in 1..L /\ ~(i <= k)
      BY <3>1, <3>2, SMT
    <3>4. Fits(k) /\ k \in 0..L
      BY <3>1, <3>2, <3>3
    <3> QED
      BY <3>4
  <2> QED
    BY <2>1, <2>2
<1>2. LastIn(t, blanks) = CHOOSE n \in 0..L : Fits(n)
  BY DEF LastIn
<1> HIDE DEF Fits, L
<1>3. LastIn(t, blanks) \in 0..L /\ Fits(LastIn(t, blanks))
  BY <1>1, <1>2
<1> QED
  BY <1>3 DEF Fits, L

LEMMA FirstInExists ==
  ASSUME NEW t, NEW blanks, Len(t) \in Nat
  PROVE  LET n == FirstIn(t, blanks)
         IN  /\ n \in 1..Len(t) + 1
             /\ n <= Len(t) => t[n] \notin blanks
             /\ \A i \in 1..n-1 : t[i] \in blanks
<1> DEFINE L == Len(t)
           S == {m \in 0..L : \E i \in 1..L : m = L - i /\ t[i] \notin blanks}
           Fits(n) == /\ n <= L => t[n] \notin blanks
                      /\ \A i \in 1..n-1 : t[i] \in blanks
<1>1. \A i \in 1..L : L - i \in 0..L
  BY SMT
<1>2. \E n \in 1..L+1 : Fits(n)
  <2>1. CASE S = {}
    <3>1. \A i \in 1..L : t[i] \in blanks
      BY <1>1, <2>1
    <3>2. /\ \A i \in 1..L+1-1 : i \in 1..L
          /\ ~(L + 1 <= L) /\ L + 1 \in 1..L+1
      BY SMT
    <3>3. Fits(L + 1)
      BY <3>1, <3>2
    <3> QED
      BY <3>2, <3>3
  <2>2. CASE S # {}
    <3>1. S \subseteq 0..L
      OBVIOUS
    <3>2. PICK k \in S : \A j \in S : j <= k
      BY <2>2, <3>1, MaxExists
    <3>3. PICK n \in 1..L : k = L - n /\ t[n] \notin blanks
      BY <3>2
    <3>4. ASSUME NEW i \in 1..n-1 PROVE t[i] \in blanks
      <4>1. i \in 1..L /\ ~(L - i <= k)
        BY <3>3, SMT
      <4> QED
        BY <1>1, <3>2, <4>1
    <3>5. n \in 1..L+1
      BY SMT
    <3> QED
      BY <3>3, <3>4, <3>5
  <2> QED
    BY <2>1, <2>2
<1>3. FirstIn(t, blanks) = CHOOSE n \in 1..L+1 : Fits(n)
  BY DEF FirstIn
<1> HIDE DEF Fits, L
<1>4. FirstIn(t, blanks) \in 1..L+1 /\ Fits(FirstIn(t, blanks))
  BY <1>2, <1>3
<1> QED
  BY <1>4 DEF Fits, L

-----------------------------------------------------------------------------
(* Texts *)

\* What is decoded is a text of known glyphs.
LEMMA DecodeType ==
  ASSUME NEW b, Len(b) \in Nat PROVE Decode(b) \in Seq(Glyphs)
<1> DEFINE f == FirstIn(b, DOMAIN Glyph \ {End})
           n == f - 1
<1>1. n \in Nat /\ \A i \in 1..n : b[i] \in DOMAIN Glyph
  <2>1. f \in 1..Len(b) + 1 /\ \A i \in 1..f-1 : b[i] \in DOMAIN Glyph \ {End}
    BY FirstInExists
  <2> HIDE DEF f
  <2>2. f - 1 \in Nat
    BY <2>1, SMT
  <2> QED
    BY <2>1, <2>2
<1>2. Decode(b) = [i \in 1..n |-> Glyph[b[i]]]
  BY DEF Decode
<1> HIDE DEF n
<1>3. \A i \in 1..n : Glyph[b[i]] \in Glyphs
  BY <1>1 DEF Glyphs
<1> QED
  BY <1>1, <1>2, <1>3

LEMMA LayerRows ==
  ASSUME NEW b, NEW i \in 1..2 * Pairs
  PROVE  DecodeLayer(b)[i] \in Seq(Glyphs)
<1> DEFINE m == (i - 1) * Width + 1
           n == i * Width
           V == {b[j] : j \in m..n}
<1>1. Width \in Nat \ {0} /\ Pairs \in Nat \ {0} /\ i \in Int
  BY RendererAssumption
<1>2. m \in Int /\ n \in Int
  BY <1>1
<1>3. \A j \in m..n : b[j] \in V
  OBVIOUS
<1>4. DecodeLayer(b)[i] = Decode(SubSeq(b, m, n))
  BY DEF DecodeLayer
<1> HIDE DEF m, n, V
<1>5. SubSeq(b, m, n) \in Seq(V)
  BY <1>2, <1>3, SubSeqProperties
<1>6. Len(SubSeq(b, m, n)) \in Nat
  BY <1>5
<1> QED
  BY <1>4, <1>6, DecodeType

-----------------------------------------------------------------------------
(* Overlay *)

\* The cell that layer l puts into column c.
CellOf(l, c) ==
  LET g == l.text[CHOOSE i \in OnLayer(l, c) : TRUE]
  IN  [ch |-> g, size |-> SizeOf(g, l.size)]

\* The visible glyphs of a text on the left stand in the columns of their places.
LEMMA StandingLeft ==
  ASSUME NEW t \in Seq(Glyphs), NEW c \in 1..Width
  PROVE  Standing(t, FALSE, c) =
           IF c <= LastIn(t, Trailing) /\ t[c] # Space THEN {c} ELSE {}
<1> DEFINE L == LastIn(t, Trailing)
<1>0. c \in Nat /\ c >= 1 /\ Len(t) \in Nat
  BY RendererAssumption
<1>1. /\ L \in 0..Len(t)
      /\ L # 0 => t[L] \notin Trailing
      /\ \A i \in L+1..Len(t) : t[i] \in Trailing
  BY <1>0, LastInExists
<1>2. Standing(t, FALSE, c) =
        {i \in 1..Len(t) : /\ i + 0 = c /\ t[i] # Space
                           /\ \E j \in i..Len(t) : t[j] \notin Trailing}
  BY DEF Standing, Visible
<1> HIDE DEF L
<1>3. \A i \in 1..Len(t) : i + 0 = c <=> i = c
  BY <1>0, SMT
<1>4. CASE c <= L
  <2>1. c \in 1..Len(t) /\ L \in c..Len(t) /\ L # 0
    BY <1>0, <1>1, <1>4, SMT
  <2>2. \E j \in c..Len(t) : t[j] \notin Trailing
    BY <1>1, <2>1
  <2> QED
    BY <1>2, <1>3, <1>4, <2>1, <2>2 DEF L
<1>5. CASE ~(c <= L)
  <2>1. \A j \in c..Len(t) : j \in L+1..Len(t)
    BY <1>0, <1>1, <1>5, SMT
  <2>2. \A j \in c..Len(t) : t[j] \in Trailing
    BY <1>1, <2>1
  <2>3. Standing(t, FALSE, c) = {}
    BY <1>2, <1>3, <2>2
  <2> QED
    BY <1>5, <2>3 DEF L
<1> QED
  BY <1>4, <1>5

\* On the right they stand so far to the right that the last one that is not white
\* is in the last column.
LEMMA StandingRight ==
  ASSUME NEW t \in Seq(Glyphs), NEW c \in 1..Width
  PROVE  LET i == c - Width + LastIn(t, White)
         IN  Standing(t, TRUE, c) =
               IF FirstIn(t, White) <= i /\ i <= LastIn(t, White) /\ t[i] # Space
               THEN {i} ELSE {}
<1> DEFINE L == LastIn(t, White)
           F == FirstIn(t, White)
           p == c - Width + L
<1>0. c \in Nat /\ c >= 1 /\ Len(t) \in Nat /\ Width \in Nat
  BY RendererAssumption
<1>1. /\ L \in 0..Len(t)
      /\ L # 0 => t[L] \notin White
      /\ \A i \in L+1..Len(t) : t[i] \in White
  BY <1>0, LastInExists
<1>2. /\ F \in 1..Len(t)+1
      /\ F <= Len(t) => t[F] \notin White
      /\ \A i \in 1..F-1 : t[i] \in White
  BY <1>0, FirstInExists
<1>3. Standing(t, TRUE, c) =
        {i \in 1..Len(t) : /\ i + (Width - L) = c /\ t[i] # Space
                           /\ \E j \in i..Len(t) : t[j] \notin White
                           /\ \E j \in 1..i : t[j] \notin White}
  BY DEF Standing, Visible
<1> HIDE DEF L, F
<1>4. p \in Int /\ \A i \in 1..Len(t) : i + (Width - L) = c <=> i = p
  BY <1>0, <1>1, SMT
<1>5. CASE F <= p /\ p <= L
  <2>1. p \in 1..Len(t) /\ L \in p..Len(t) /\ L # 0 /\ F \in 1..p /\ F <= Len(t)
    BY <1>1, <1>2, <1>4, <1>5, SMT
  <2>2. /\ \E j \in p..Len(t) : t[j] \notin White
        /\ \E j \in 1..p : t[j] \notin White
    BY <1>1, <1>2, <2>1
  <2> HIDE DEF p
  <2>3. Standing(t, TRUE, c) = IF t[p] # Space THEN {p} ELSE {}
    BY <1>3, <1>4, <2>1, <2>2
  <2> QED
    BY <1>5, <2>3 DEF p, L, F
<1>6. CASE ~(p <= L)
  <2>1. \A j \in p..Len(t) : j \in L+1..Len(t)
    BY <1>1, <1>4, <1>6, SMT
  <2>2. \A j \in p..Len(t) : t[j] \in White
    BY <1>1, <2>1
  <2> HIDE DEF p
  <2>3. Standing(t, TRUE, c) = {}
    BY <1>3, <1>4, <2>2
  <2> QED
    BY <1>6, <2>3 DEF p, L, F
<1>7. CASE ~(F <= p)
  <2>1. \A j \in 1..p : j \in 1..F-1
    BY <1>2, <1>4, <1>7, SMT
  <2>2. \A j \in 1..p : t[j] \in White
    BY <1>2, <2>1
  <2> HIDE DEF p
  <2>3. Standing(t, TRUE, c) = {}
    BY <1>3, <1>4, <2>2
  <2> QED
    BY <1>7, <2>3 DEF p, L, F
<1> QED
  BY <1>5, <1>6, <1>7

\* Overlay puts the glyph of the layer that stands in a column there, and leaves the
\* column alone where none stands.
LEMMA OverlayCell ==
  ASSUME NEW row, NEW t \in Seq(Glyphs), NEW size, NEW right \in BOOLEAN, NEW c \in 1..Width
  PROVE  Overlay(row, t, size, right)[c] =
           IF OnLayer(Layer(t, size, right), c) # {}
           THEN CellOf(Layer(t, size, right), c) ELSE row[c]
<1> DEFINE T     == Trimmed(t, right)
           start == IF right THEN Width - Len(T) ELSE 0
           seen  == c > start /\ c <= start + Len(T) /\ T[c - start] # Space
           l     == Layer(t, size, right)
<1>0. c \in Nat /\ c >= 1 /\ c <= Width /\ Len(t) \in Nat /\ Width \in Nat
  BY RendererAssumption
<1>1. Overlay(row, t, size, right)[c] =
        IF seen THEN [ch |-> T[c - start], size |-> SizeOf(T[c - start], size)] ELSE row[c]
  BY DEF Overlay
<1>2. OnLayer(l, c) = Standing(t, right, c) /\ l.text = t /\ l.size = size
  BY DEF OnLayer, Layer
<1> HIDE DEF l
\* It is enough to know which glyph the two sides mean.
<1>3. ASSUME NEW i, Standing(t, right, c) = (IF seen THEN {i} ELSE {}),
             seen => T[c - start] = t[i]
      PROVE  Overlay(row, t, size, right)[c] =
               IF OnLayer(l, c) # {} THEN CellOf(l, c) ELSE row[c]
  <2> HIDE DEF seen, T, start
  <2>1. CASE seen
    <3>1. OnLayer(l, c) = {i}
      BY <1>2, <1>3, <2>1
    <3>2. (CHOOSE j \in OnLayer(l, c) : TRUE) = i
      BY <3>1
    <3> QED
      BY <1>1, <1>2, <1>3, <2>1, <3>1, <3>2 DEF CellOf
  <2>2. CASE ~seen
    BY <1>1, <1>2, <1>3, <2>2
  <2> QED
    BY <2>1, <2>2
<1>4. CASE ~right
  <2> DEFINE L == LastIn(t, Trailing)
  <2>1. L \in 0..Len(t)
    BY <1>0, LastInExists
  <2>2. T = SubSeq(t, 1, L) /\ start = 0
    BY <1>4 DEF Trimmed
  <2> HIDE DEF L
  <2>3. Len(T) = L /\ \A k \in 1..L : T[k] = t[k]
    <3>1. \A k \in 1..L : t[k] \in Glyphs
      BY <2>1
    <3>2. 1 \in Int /\ L \in Int /\ (IF 1 <= L THEN L - 1 + 1 ELSE 0) = L /\ L - 1 + 1 = L
          /\ \A k \in 1..L : 1 + k - 1 = k
      BY <2>1, SMT
    <3>3. /\ Len(SubSeq(t, 1, L)) = IF 1 <= L THEN L - 1 + 1 ELSE 0
          /\ \A k \in 1..L - 1 + 1 : SubSeq(t, 1, L)[k] = t[1 + k - 1]
      BY <3>1, <3>2, SubSeqProperties
    <3> QED
      BY <2>2, <3>2, <3>3
  <2>4. /\ c > 0 /\ c - 0 = c /\ 0 + Len(T) = L
        /\ c <= L <=> c \in 1..L
    BY <1>0, <2>1, <2>3, SMT
  <2>5. seen <=> c <= L /\ t[c] # Space
    BY <2>2, <2>3, <2>4
  <2>6. seen => T[c - start] = t[c]
    BY <2>2, <2>3, <2>4
  <2>7. Standing(t, right, c) = IF seen THEN {c} ELSE {}
    BY <1>4, <2>5, StandingLeft DEF L
  <2> HIDE DEF T, start, seen
  <2> QED
    BY <1>3, <2>6, <2>7 DEF l
<1>5. CASE right
  <2> DEFINE L == LastIn(t, White)
             F == FirstIn(t, White)
             p == c - Width + L
  <2>1. L \in 0..Len(t) /\ F \in 1..Len(t) + 1
    BY <1>0, LastInExists, FirstInExists
  <2>2. T = SubSeq(t, F, L) /\ start = Width - Len(T)
    BY <1>5 DEF Trimmed
  <2>3. Standing(t, right, c) =
          IF F <= p /\ p <= L /\ t[p] # Space THEN {p} ELSE {}
    BY <1>5, StandingRight
  <2> HIDE DEF L, F
  <2>4. Len(T) = (IF F <= L THEN L - F + 1 ELSE 0) /\ \A k \in 1..L-F+1 : T[k] = t[F + k - 1]
    <3>1. F \in Int /\ L \in Int /\ \A k \in F..L : k \in 1..Len(t)
      BY <2>1, SMT
    <3>2. \A k \in F..L : t[k] \in Glyphs
      BY <3>1
    <3> QED
      BY <2>2, <3>1, <3>2, SubSeqProperties
  <2>5. CASE F <= p /\ p <= L
    <3>1. Len(T) = L - F + 1
      <4>1. F <= L
        BY <1>0, <2>1, <2>5, SMT
      <4> QED
        BY <2>4, <4>1
    <3>2. /\ c > Width - Len(T) /\ c <= Width - Len(T) + Len(T)
          /\ c - (Width - Len(T)) \in 1..L-F+1 /\ F + (c - (Width - Len(T))) - 1 = p
      BY <1>0, <2>1, <2>5, <3>1, SMT
    <3>3. T[c - start] = t[p]
      BY <2>2, <2>4, <3>2
    <3>4. seen <=> t[p] # Space
      BY <2>2, <3>2, <3>3
    <3> HIDE DEF T, start, seen, p
    <3>5. Standing(t, right, c) = IF seen THEN {p} ELSE {}
      BY <2>3, <2>5, <3>4
    <3> QED
      BY <1>3, <3>3, <3>5 DEF l
  <2>6. CASE ~(F <= p /\ p <= L)
    <3>1. ~(c > Width - Len(T) /\ c <= Width - Len(T) + Len(T))
      <4>1. CASE F <= L
        <5>1. Len(T) = L - F + 1
          BY <2>4, <4>1
        <5> QED
          BY <1>0, <2>1, <2>6, <5>1, SMT
      <4>2. CASE ~(F <= L)
        <5>1. Len(T) = 0
          BY <2>4, <4>2
        <5> QED
          BY <1>0, <5>1, SMT
      <4> QED
        BY <4>1, <4>2
    <3>2. ~seen
      BY <2>2, <3>1
    <3> HIDE DEF T, start, seen, p
    <3>3. Standing(t, right, c) = IF seen THEN {p} ELSE {}
      BY <2>3, <2>6, <3>2
    <3> QED
      BY <1>3, <3>2, <3>3 DEF l
  <2> QED
    BY <2>5, <2>6
<1> QED
  BY <1>4, <1>5

-----------------------------------------------------------------------------
(* Layers *)

IsOneMore(all, ls, l) ==
  /\ Len(ls) \in Nat /\ Len(all) = Len(ls) + 1 /\ all = Append(ls, l)
  /\ \A k \in 1..Len(ls) : all[k] = ls[k]
  /\ all[Len(ls) + 1] = l

\* A layer on top of others counts where it has a glyph, and nowhere else.
LEMMA TopmostAppend ==
  ASSUME NEW ls, NEW l, NEW c, NEW n \in Nat, Len(ls) = n, Len(Append(ls, l)) = n + 1,
         \A k \in 1..n : Append(ls, l)[k] = ls[k], Append(ls, l)[n + 1] = l
  PROVE  Topmost(Append(ls, l), c) =
           IF OnLayer(l, c) # {} THEN CellOf(l, c) ELSE Topmost(ls, c)
<1> DEFINE all     == Append(ls, l)
           used    == {k \in 1..n : OnLayer(ls[k], c) # {}}
           usedAll == {k \in 1..n + 1 : OnLayer(all[k], c) # {}}
           Top(S)  == CHOOSE k \in S : \A j \in S : j <= k
           Seen(layers, S) ==
             IF S = {} THEN [ch |-> Space, size |-> 0]
             ELSE LET top == layers[Top(S)]
                      g   == top.text[CHOOSE i \in OnLayer(top, c) : TRUE]
                  IN [ch |-> g, size |-> SizeOf(g, top.size)]
<1>1. Topmost(all, c) = Seen(all, usedAll) /\ Topmost(ls, c) = Seen(ls, used)
  BY DEF Topmost
<1>2. \A k : k \in 1..n + 1 <=> k \in 1..n \/ k = n + 1
  BY SMT
<1>3. \A k \in 1..n : k <= n + 1 /\ k # n + 1 /\ ~(n + 1 <= k)
  BY SMT
<1>4. n + 1 <= n + 1
  BY SMT
<1>5. CASE OnLayer(l, c) # {}
  <2>1. n + 1 \in usedAll /\ \A j \in usedAll : j <= n + 1
    BY <1>2, <1>3, <1>4, <1>5
  <2>2. Top(usedAll) = n + 1
    <3>1. \A k \in usedAll : (\A j \in usedAll : j <= k) => k = n + 1
      BY <1>2, <1>3, <2>1
    <3> HIDE DEF usedAll
    <3> QED
      BY <2>1, <3>1
  <2>3. usedAll # {} /\ all[Top(usedAll)] = l
    BY <2>1, <2>2
  <2> HIDE DEF usedAll, Top, all
  <2> QED
    BY <1>1, <1>5, <2>3 DEF CellOf, all
<1>6. CASE OnLayer(l, c) = {}
  <2>1. usedAll = used
    BY <1>2, <1>3, <1>6
  <2>2. CASE used = {}
    BY <1>1, <1>6, <2>1, <2>2, Zenon
  <2>3. CASE used # {}
    <3>1. used \subseteq 0..n
      BY SMT
    <3>2. \E k \in used : \A j \in used : j <= k
      BY <2>3, <3>1, MaxExists
    <3>3. Top(used) \in used
      <4> HIDE DEF used
      <4> QED
        BY <3>2
    <3>4. all[Top(used)] = ls[Top(used)]
      BY <3>3
    <3> HIDE DEF used, usedAll, Top, all
    <3>5. Seen(all, usedAll) = Seen(ls, used)
      BY <2>1, <3>4
    <3> QED
      BY <1>1, <1>6, <3>5 DEF all
  <2> QED
    BY <2>2, <2>3
<1> QED
  BY <1>5, <1>6

LEMMA TopmostNone == ASSUME NEW c PROVE Topmost(<<>>, c) = [ch |-> Space, size |-> 0]
<1>1. {k \in 1..Len(<<>>) : OnLayer(<<>>[k], c) # {}} = {}
  BY SMT
<1> QED
  BY <1>1 DEF Topmost

\* The rows of a page have one, two or four layers.
LEMMA LayersMore ==
  ASSUME NEW ls, NEW l, NEW all, NEW c, IsOneMore(all, ls, l)
  PROVE  Topmost(all, c) = IF OnLayer(l, c) # {} THEN CellOf(l, c) ELSE Topmost(ls, c)
  BY TopmostAppend DEF IsOneMore

LEMMA LayersOne ==
  ASSUME NEW a, NEW c
  PROVE  Topmost(<<a>>, c) = IF OnLayer(a, c) # {} THEN CellOf(a, c)
                             ELSE [ch |-> Space, size |-> 0]
<1> DEFINE ls  == <<>>
           all == <<a>>
<1>1. IsOneMore(all, ls, a)
  BY SMT DEF IsOneMore
<1> HIDE DEF ls, all
<1>2. Topmost(all, c) = IF OnLayer(a, c) # {} THEN CellOf(a, c) ELSE Topmost(ls, c)
  BY <1>1, LayersMore
<1> QED
  BY <1>2, TopmostNone DEF ls, all

LEMMA LayersTwo ==
  ASSUME NEW a, NEW b, NEW c
  PROVE  Topmost(<<a, b>>, c) = IF OnLayer(b, c) # {} THEN CellOf(b, c) ELSE Topmost(<<a>>, c)
<1> DEFINE ls  == <<a>>
           all == <<a, b>>
<1>1. IsOneMore(all, ls, b)
  BY SMT DEF IsOneMore
<1> HIDE DEF ls, all
<1>2. Topmost(all, c) = IF OnLayer(b, c) # {} THEN CellOf(b, c) ELSE Topmost(ls, c)
  BY <1>1, LayersMore
<1> QED
  BY <1>2 DEF ls, all

LEMMA LayersThree ==
  ASSUME NEW w, NEW x, NEW y, NEW c
  PROVE  Topmost(<<w, x, y>>, c) =
           IF OnLayer(y, c) # {} THEN CellOf(y, c) ELSE Topmost(<<w, x>>, c)
<1> DEFINE ls  == <<w, x>>
           all == <<w, x, y>>
<1>1. IsOneMore(all, ls, y)
  BY SMT DEF IsOneMore
<1> HIDE DEF ls, all
<1>2. Topmost(all, c) = IF OnLayer(y, c) # {} THEN CellOf(y, c) ELSE Topmost(ls, c)
  BY <1>1, LayersMore
<1> QED
  BY <1>2 DEF ls, all

LEMMA LayersFour ==
  ASSUME NEW w, NEW x, NEW y, NEW z, NEW c
  PROVE  Topmost(<<w, x, y, z>>, c) =
           IF OnLayer(z, c) # {} THEN CellOf(z, c) ELSE Topmost(<<w, x, y>>, c)
<1> DEFINE ls  == <<w, x, y>>
           all == <<w, x, y, z>>
<1>1. IsOneMore(all, ls, z)
  BY SMT DEF IsOneMore
<1> HIDE DEF ls, all
<1>2. Topmost(all, c) = IF OnLayer(z, c) # {} THEN CellOf(z, c) ELSE Topmost(ls, c)
  BY <1>1, LayersMore
<1> QED
  BY <1>2 DEF ls, all

-----------------------------------------------------------------------------
(* Rows *)

LEMMA OverlayLeft ==
  ASSUME NEW row, NEW t \in Seq(Glyphs), NEW size, NEW c \in 1..Width
  PROVE  Overlay(row, t, size, FALSE)[c] =
           IF OnLayer(Layer(t, size, FALSE), c) # {}
           THEN CellOf(Layer(t, size, FALSE), c) ELSE row[c]
  BY OverlayCell, Zenon

LEMMA OverlayRight ==
  ASSUME NEW row, NEW t \in Seq(Glyphs), NEW size, NEW c \in 1..Width
  PROVE  Overlay(row, t, size, TRUE)[c] =
           IF OnLayer(Layer(t, size, TRUE), c) # {}
           THEN CellOf(Layer(t, size, TRUE), c) ELSE row[c]
  BY OverlayCell, Zenon

LEMMA OneLayerRow ==
  ASSUME NEW t \in Seq(Glyphs), NEW size
  PROVE  Shows(Overlay(BlankRow, t, size, FALSE), <<Layer(t, size, FALSE)>>)
<1> DEFINE l   == Layer(t, size, FALSE)
           row == Overlay(BlankRow, t, size, FALSE)
<1>1. ASSUME NEW c \in 1..Width PROVE row[c] = Topmost(<<l>>, c)
  <2>1. row[c] = IF OnLayer(l, c) # {} THEN CellOf(l, c) ELSE BlankRow[c]
    BY OverlayCell, Zenon
  <2>2. BlankRow[c] = [ch |-> Space, size |-> 0]
    BY DEF BlankRow
  <2> HIDE DEF l, row
  <2> QED
    BY <2>1, <2>2, LayersOne
<1>2. row = [c \in 1..Width |-> row[c]]
  BY DEF Overlay
<1> HIDE DEF l, row
<1>3. row = [c \in 1..Width |-> Topmost(<<l>>, c)]
  BY <1>1, <1>2
<1> QED
  BY <1>3 DEF Shows, l, row

LEMMA TwoLayerLeft ==
  ASSUME NEW t \in Seq(Glyphs), NEW u \in Seq(Glyphs), NEW tsize, NEW usize
  PROVE  Shows(Overlay(Overlay(BlankRow, t, tsize, FALSE), u, usize, FALSE),
               <<Layer(t, tsize, FALSE), Layer(u, usize, FALSE)>>)
<1> DEFINE below == Overlay(BlankRow, t, tsize, FALSE)
           a     == Layer(t, tsize, FALSE)
           b     == Layer(u, usize, FALSE)
           row   == Overlay(below, u, usize, FALSE)
<1>1. Shows(below, <<a>>)
  BY OneLayerRow
<1>2. row = [c \in 1..Width |-> row[c]]
  BY DEF Overlay
<1>3. \A c \in 1..Width : row[c] = IF OnLayer(b, c) # {} THEN CellOf(b, c) ELSE below[c]
  BY OverlayLeft, Zenon
<1> HIDE DEF below, a, row, b
<1>4. ASSUME NEW c \in 1..Width PROVE row[c] = Topmost(<<a, b>>, c)
  <2>1. below[c] = Topmost(<<a>>, c)
    BY <1>1 DEF Shows
  <2> QED
    BY <1>3, <2>1, LayersTwo
<1>5. row = [c \in 1..Width |-> Topmost(<<a, b>>, c)]
  BY <1>2, <1>4
<1> QED
  BY <1>5 DEF Shows, below, a, b, row

LEMMA TwoLayerRight ==
  ASSUME NEW t \in Seq(Glyphs), NEW u \in Seq(Glyphs), NEW tsize, NEW usize
  PROVE  Shows(Overlay(Overlay(BlankRow, t, tsize, FALSE), u, usize, TRUE),
               <<Layer(t, tsize, FALSE), Layer(u, usize, TRUE)>>)
<1> DEFINE below == Overlay(BlankRow, t, tsize, FALSE)
           a     == Layer(t, tsize, FALSE)
           b     == Layer(u, usize, TRUE)
           row   == Overlay(below, u, usize, TRUE)
<1>1. Shows(below, <<a>>)
  BY OneLayerRow
<1>2. row = [c \in 1..Width |-> row[c]]
  BY DEF Overlay
<1>3. \A c \in 1..Width : row[c] = IF OnLayer(b, c) # {} THEN CellOf(b, c) ELSE below[c]
  BY OverlayRight, Zenon
<1> HIDE DEF below, a, row, b
<1>4. ASSUME NEW c \in 1..Width PROVE row[c] = Topmost(<<a, b>>, c)
  <2>1. below[c] = Topmost(<<a>>, c)
    BY <1>1 DEF Shows
  <2> QED
    BY <1>3, <2>1, LayersTwo
<1>5. row = [c \in 1..Width |-> Topmost(<<a, b>>, c)]
  BY <1>2, <1>4
<1> QED
  BY <1>5 DEF Shows, below, a, b, row

LEMMA FourLayerRow ==
  ASSUME NEW t1 \in Seq(Glyphs), NEW t2 \in Seq(Glyphs),
         NEW t3 \in Seq(Glyphs), NEW t4 \in Seq(Glyphs)
  PROVE  Shows(DataRow(t1, t2, t3, t4),
               <<Layer(t1, 0, FALSE), Layer(t2, 0, TRUE),
                 Layer(t3, 1, FALSE), Layer(t4, 1, TRUE)>>)
<1> DEFINE w  == Layer(t1, 0, FALSE)
           x  == Layer(t2, 0, TRUE)
           y  == Layer(t3, 1, FALSE)
           z  == Layer(t4, 1, TRUE)
           r2 == Overlay(Overlay(BlankRow, t1, 0, FALSE), t2, 0, TRUE)
           r3 == Overlay(r2, t3, 1, FALSE)
           r4 == Overlay(r3, t4, 1, TRUE)
<1>1. Shows(r2, <<w, x>>)
  BY TwoLayerRight, Zenon
<1>2. \A c \in 1..Width : r3[c] = IF OnLayer(y, c) # {} THEN CellOf(y, c) ELSE r2[c]
  BY OverlayLeft, Zenon
<1>3. \A c \in 1..Width : r4[c] = IF OnLayer(z, c) # {} THEN CellOf(z, c) ELSE r3[c]
  BY OverlayRight, Zenon
<1>4. r4 = [c \in 1..Width |-> r4[c]]
  BY DEF Overlay
<1> HIDE DEF r2, r3, r4, w, x, y, z
<1>5. ASSUME NEW c \in 1..Width PROVE r4[c] = Topmost(<<w, x, y, z>>, c)
  <2>1. r2[c] = Topmost(<<w, x>>, c)
    BY <1>1 DEF Shows
  <2>2. Topmost(<<w, x, y>>, c) =
          IF OnLayer(y, c) # {} THEN CellOf(y, c) ELSE Topmost(<<w, x>>, c)
    BY LayersThree
  <2>3. r3[c] = Topmost(<<w, x, y>>, c)
    BY <1>2, <2>1, <2>2
  <2> QED
    BY <1>3, <2>3, LayersFour
<1>6. r4 = [c \in 1..Width |-> Topmost(<<w, x, y, z>>, c)]
  BY <1>4, <1>5
<1>7. DataRow(t1, t2, t3, t4) = r4
  BY DEF DataRow, r4, r3, r2
<1> QED
  BY <1>6, <1>7 DEF Shows, w, x, y, z

-----------------------------------------------------------------------------
(* The display of a page *)

PageBlocks == {"titleLarge", "titleSmall", "labels", "large", "small", "scratchpad"}

LEMMA OrderFacts ==
  /\ Len(Order) = 7
  /\ Order[1] = "titleLarge" /\ Order[2] = "titleSmall" /\ Order[3] = "labels"
  /\ Order[4] = "large" /\ Order[5] = "small" /\ Order[6] = "scratchpad"
  /\ Order[7] = "selector"
  BY DEF Order

LEMMA OrderInBlocks ==
  /\ \A i \in 1..Len(Order) : Order[i] \in Blocks
  /\ PageBlocks \subseteq Blocks /\ "selector" \in Blocks
<1>1. \A i \in 1..Len(Order) : Order[i] \in Blocks
  BY FrameAssumption
<1>2. 1 \in 1..7 /\ 2 \in 1..7 /\ 3 \in 1..7 /\ 4 \in 1..7 /\ 5 \in 1..7 /\ 6 \in 1..7 /\ 7 \in 1..7
  BY SMT
<1> QED
  BY <1>1, <1>2, OrderFacts DEF PageBlocks

LEMMA RowsOfDisplay ==
  ASSUME NEW tl, NEW ts, NEW labels, NEW large, NEW small, NEW scratch
  PROVE  LET d == BuildDisplay(tl, ts, labels, large, small, scratch)
         IN  /\ d[0] = TitleRow(tl, ts)
             /\ d[2 * Pairs + 1] = ScratchRow(scratch)
             /\ \A i \in 1..Pairs :
                  /\ d[2 * i - 1] = LabelRow(labels[i], labels[i + Pairs])
                  /\ d[2 * i] = DataRow(large[i], large[i + Pairs], small[i], small[i + Pairs])
<1> DEFINE d == BuildDisplay(tl, ts, labels, large, small, scratch)
<1>1. Pairs \in Nat \ {0}
  BY RendererAssumption
<1>2. 0 \in 0..2 * Pairs + 1 /\ 2 * Pairs + 1 \in 0..2 * Pairs + 1 /\ 2 * Pairs + 1 # 0
  BY <1>1, SMT
<1>3. ASSUME NEW i \in 1..Pairs
      PROVE  /\ 2 * i - 1 \in 0..2 * Pairs + 1 /\ 2 * i - 1 # 0 /\ 2 * i - 1 # 2 * Pairs + 1
             /\ (2 * i - 1) % 2 = 1 /\ (2 * i - 1 + 1) \div 2 = i
             /\ 2 * i \in 0..2 * Pairs + 1 /\ 2 * i # 0 /\ 2 * i # 2 * Pairs + 1
             /\ (2 * i) % 2 # 1 /\ (2 * i) \div 2 = i
  BY <1>1, SMT
<1>4. d[0] = TitleRow(tl, ts) /\ d[2 * Pairs + 1] = ScratchRow(scratch)
  BY <1>2 DEF BuildDisplay
<1>5. ASSUME NEW i \in 1..Pairs
      PROVE  d[2 * i - 1] = LabelRow(labels[i], labels[i + Pairs])
  BY <1>3 DEF BuildDisplay
<1>6. ASSUME NEW i \in 1..Pairs
      PROVE  d[2 * i] = DataRow(large[i], large[i + Pairs], small[i], small[i + Pairs])
  BY <1>3 DEF BuildDisplay
<1> QED
  BY <1>4, <1>5, <1>6

\* A frame that was read from memory in full shows the page in memory.
LEMMA DisplayShowsPage ==
  ASSUME \A b \in PageBlocks : frame[b] = memory[b] /\ Len(memory[b]) \in Nat
  PROVE  ShowsPage
<1> DEFINE tl     == Decode(memory["titleLarge"])
           ts     == Decode(memory["titleSmall"])
           labels == DecodeLayer(memory["labels"])
           large  == DecodeLayer(memory["large"])
           small  == DecodeLayer(memory["small"])
           last   == LastLine
<1>1. Display = BuildDisplay(tl, ts, labels, large, small, last)
  BY DEF Display, PageBlocks
<1>2. tl \in Seq(Glyphs) /\ ts \in Seq(Glyphs)
  BY DecodeType DEF PageBlocks
<1>3. \A i \in 1..Pairs : i \in 1..2 * Pairs /\ i + Pairs \in 1..2 * Pairs
  <2>1. Pairs \in Nat
    BY RendererAssumption
  <2> QED
    BY <2>1, SMT
<1>4. \A i \in 1..2 * Pairs : /\ labels[i] \in Seq(Glyphs) /\ large[i] \in Seq(Glyphs)
                              /\ small[i] \in Seq(Glyphs)
  BY LayerRows
<1>5. /\ Display[0] = TitleRow(tl, ts)
      /\ \A i \in 1..Pairs :
           /\ Display[2 * i - 1] = LabelRow(labels[i], labels[i + Pairs])
           /\ Display[2 * i] = DataRow(large[i], large[i + Pairs], small[i], small[i + Pairs])
  <2> HIDE DEF tl, ts, labels, large, small, last
  <2> QED
    BY <1>1, RowsOfDisplay
<1>6. Shows(TitleRow(tl, ts), <<Layer(tl, 1, FALSE), Layer(ts, 1, FALSE)>>)
  <2> HIDE DEF tl, ts
  <2> QED
    BY <1>2, TwoLayerLeft DEF TitleRow
<1>7. ASSUME NEW i \in 1..Pairs
      PROVE  Shows(LabelRow(labels[i], labels[i + Pairs]),
                   <<Layer(labels[i], 1, FALSE), Layer(labels[i + Pairs], 1, TRUE)>>)
  <2>1. labels[i] \in Seq(Glyphs) /\ labels[i + Pairs] \in Seq(Glyphs)
    BY <1>3, <1>4
  <2> HIDE DEF labels
  <2> QED
    BY <2>1, TwoLayerRight DEF LabelRow
<1>8. ASSUME NEW i \in 1..Pairs
      PROVE  Shows(DataRow(large[i], large[i + Pairs], small[i], small[i + Pairs]),
                   <<Layer(large[i], 0, FALSE), Layer(large[i + Pairs], 0, TRUE),
                     Layer(small[i], 1, FALSE), Layer(small[i + Pairs], 1, TRUE)>>)
  <2>1. /\ large[i] \in Seq(Glyphs) /\ large[i + Pairs] \in Seq(Glyphs)
        /\ small[i] \in Seq(Glyphs) /\ small[i + Pairs] \in Seq(Glyphs)
    BY <1>3, <1>4
  <2> HIDE DEF large, small
  <2> QED
    BY <2>1, FourLayerRow
<1> HIDE DEF last
<1> QED
  BY <1>5, <1>6, <1>7, <1>8 DEF ShowsPage

-----------------------------------------------------------------------------
(* The invariant of the reading *)

MessageBlocks == {Messages[s] : s \in DOMAIN Messages}

\* The block that the selector in f names, if any
Named(f) ==
  {Messages[s] : s \in {x \in DOMAIN Messages : HasMessage(x) /\ x = f["selector"][1]}}

Same(f) == \A b \in DOMAIN f : f[b] = memory[b]

\* What a frame holds that has been read in full
Complete(f) ==
  /\ PageBlocks \subseteq DOMAIN f
  /\ LastRead = Len(Order) => "selector" \in DOMAIN f
  /\ DOMAIN f \cap MessageBlocks = Named(f)

Reading ==
  /\ at \in 1..LastRead + 1
  /\ \A i \in 1..at-1 : Order[i] \in DOMAIN got
  /\ DOMAIN got \cap MessageBlocks \subseteq IF at = LastRead + 1 THEN Named(got) ELSE {}
  /\ ~changed => Same(got)

ReadInv ==
  /\ \A b \in Blocks : memory[b] \in Seq(Nat)
  /\ memory = [b \in Blocks |-> memory[b]]
  /\ pc \in {"idle", "read", "detached"}
  /\ pc # "idle" => frame = None
  /\ pc = "read" => Reading
  /\ frame # None => Complete(frame) /\ (~changed => Same(frame))

LEMMA LastReadFacts ==
  /\ LastRead = IF DOMAIN Messages = {} THEN 6 ELSE 7
  /\ LastRead \in Nat /\ LastRead <= Len(Order)
  /\ LastRead = Len(Order) <=> DOMAIN Messages # {}
<1>1. Len(Order) = 7
  BY OrderFacts
<1> QED
  BY <1>1, SMT DEF LastRead

LEMMA PageIsNoMessage ==
  \A b \in MessageBlocks : b \notin PageBlocks /\ b # "selector"
                           /\ \A i \in 1..Len(Order) : b # Order[i]
<1>1. \A b \in MessageBlocks : \A i \in 1..Len(Order) : b # Order[i]
  BY FrameAssumption DEF MessageBlocks
<1>2. 1 \in 1..7 /\ 2 \in 1..7 /\ 3 \in 1..7 /\ 4 \in 1..7 /\ 5 \in 1..7 /\ 6 \in 1..7 /\ 7 \in 1..7
  BY SMT
<1> QED
  BY <1>1, <1>2, OrderFacts DEF PageBlocks

\* The last line of a complete frame is the text of the message or the scratchpad.
LEMMA DisplayShowsLastLine ==
  ASSUME Complete(frame), Same(frame), \A b \in Blocks : Len(memory[b]) \in Nat
  PROVE  ShowsLastLine
<1> DEFINE named  == {Messages[s] : s \in {memory["selector"][1]} \cap (DOMAIN Messages \ {0})}
           shown  == {b \in named : ~IsBlank(Decode(memory[b]))}
           source == IF shown = {} THEN "scratchpad" ELSE CHOOSE b \in shown : TRUE
<1>1. named = Named(frame)
  <2>1. CASE DOMAIN Messages = {}
    BY <2>1 DEF Named
  <2>2. CASE DOMAIN Messages # {}
    <3>1. "selector" \in DOMAIN frame
      BY <2>2, LastReadFacts DEF Complete
    <3>2. frame["selector"][1] = memory["selector"][1]
      BY <3>1 DEF Same
    <3> QED
      BY <3>2 DEF Named, HasMessage
  <2> QED
    BY <2>1, <2>2
<1>2. named \subseteq DOMAIN frame /\ named \subseteq MessageBlocks
  BY <1>1 DEF Complete
<1>3. MessageRead = {Decode(memory[b]) : b \in named}
  <2>1. MessageRead = {Decode(frame[b]) : b \in MessageBlocks \cap DOMAIN frame}
    BY DEF MessageRead, MessageBlocks
  <2>2. MessageBlocks \cap DOMAIN frame = named
    BY <1>1 DEF Complete
  <2>3. \A b \in named : frame[b] = memory[b]
    BY <1>2 DEF Same
  <2> HIDE DEF named
  <2> QED
    BY <2>1, <2>2, <2>3
<1>4. \A a, b \in named : a = b
  OBVIOUS
<1>5. frame["scratchpad"] = memory["scratchpad"]
  BY DEF Complete, Same, PageBlocks
<1> HIDE DEF named
<1>6. LastLine = Decode(memory[source]) /\ source \in Blocks
  <2>1. CASE shown = {}
    <3>1. ~\E t \in MessageRead : ~IsBlank(t)
      BY <1>3, <2>1
    <3> QED
      BY <1>5, <2>1, <3>1, OrderInBlocks DEF LastLine, PageBlocks
  <2>2. CASE shown # {}
    <3>1. PICK m \in named : ~IsBlank(Decode(memory[m]))
      BY <2>2
    <3>2. shown = {m} /\ source = m
      BY <1>4, <2>2, <3>1
    <3>3. MessageRead = {Decode(memory[m])}
      BY <1>3, <1>4
    <3>4. LastLine = Decode(memory[m])
      BY <3>1, <3>3 DEF LastLine
    <3>5. m \in Blocks
      BY <1>2, FrameAssumption DEF MessageBlocks
    <3> QED
      BY <3>2, <3>4, <3>5
  <2> QED
    BY <2>1, <2>2
<1> DEFINE text == Decode(memory[source])
<1>7. text \in Seq(Glyphs)
  <2> HIDE DEF source
  <2> QED
    BY <1>6, DecodeType
<1> HIDE DEF source
<1>8. Display[2 * Pairs + 1] = ScratchRow(text)
  <2>1. Display[2 * Pairs + 1] = ScratchRow(LastLine)
    BY RowsOfDisplay DEF Display
  <2> QED
    BY <1>6, <2>1
<1> HIDE DEF text
<1>9. Shows(Display[2 * Pairs + 1], <<Layer(text, 0, FALSE)>>)
  BY <1>7, <1>8, OneLayerRow DEF ScratchRow
<1> QED
  BY <1>9 DEF ShowsLastLine, text, source, named

LEMMA ReadStarts == ASSUME Init PROVE ReadInv
<1>1. \A b \in Blocks : memory[b] \in Choices[b]
  BY FrameAssumption DEF Init
<1>2. \A b \in Blocks : memory[b] \in Seq(Nat)
  BY <1>1, FrameAssumption
<1> QED
  BY <1>2 DEF Init, ReadInv

\* An attempt begins with nothing read.
LEMMA FreshReads ==
  ASSUME Fresh PROVE Reading'
<1>1. at' = 1 /\ DOMAIN got' = {}
  BY DEF Fresh
<1>2. LastRead' = LastRead
  BY DEF LastRead
<1>3. 1 \in 1..LastRead + 1 /\ \A i : i \notin 1..1-1
  BY LastReadFacts, SMT
<1>4. \A f : DOMAIN f = {} => Same(f)'
  BY DEF Same
<1> QED
  BY <1>1, <1>2, <1>3, <1>4 DEF Reading, Same

LEMMA WriteKeeps == ASSUME ReadInv, Write PROVE ReadInv'
<1>1. /\ changed' /\ UNCHANGED <<pc, at, got, frame>>
  BY DEF Write
<1>2. PICK b \in Blocks : \E v \in Choices[b] : memory' = [memory EXCEPT ![b] = v]
  BY DEF Write
<1>v. PICK v \in Choices[b] : memory' = [memory EXCEPT ![b] = v]
  BY <1>2
<1>3. v \in Seq(Nat)
  BY <1>v, FrameAssumption
<1>4. /\ \A x \in Blocks : memory'[x] \in Seq(Nat)
      /\ memory' = [x \in Blocks |-> memory'[x]]
  BY <1>v, <1>3 DEF ReadInv
<1>5. pc = "read" => Reading'
  BY <1>1 DEF ReadInv, Reading, Named, LastRead, HasMessage
<1>6. frame # None => Complete(frame)'
  BY <1>1 DEF ReadInv, Complete, Named, LastRead, HasMessage
<1> QED
  BY <1>1, <1>4, <1>5, <1>6 DEF ReadInv

LEMMA IdleKeeps ==
  ASSUME ReadInv, Settle \/ UNCHANGED vars PROVE ReadInv'
<1>1. UNCHANGED <<memory, pc, at, got, frame, changed>>
  BY DEF Settle, vars
<1> QED
  BY <1>1 DEF ReadInv, Reading, Complete, Same, Named, LastRead, HasMessage

LEMMA ReadBlockKeeps == ASSUME ReadInv, ReadBlock PROVE ReadInv'
<1>1. /\ pc = "read" /\ pc' = "read" /\ at <= LastRead /\ at' = at + 1
      /\ memory' = memory /\ frame' = frame /\ changed' = changed /\ Reading
  BY DEF ReadInv, ReadBlock
<1> DEFINE b == Order[at]
<1>2. got' = [x \in DOMAIN got \cup {b} |-> IF x = b THEN memory[b] ELSE got[x]]
  BY DEF ReadBlock, Take
<1>3. /\ at \in 1..Len(Order) /\ at' \in 1..LastRead + 1 /\ at # LastRead + 1
      /\ \A i \in 1..at'-1 : i \in 1..at-1 \/ i = at
  <2>1. at \in 1..LastRead + 1
    BY <1>1 DEF Reading
  <2> QED
    BY <1>1, <2>1, LastReadFacts, SMT
<1>4. b \notin MessageBlocks
  BY <1>3, PageIsNoMessage
<1>5. DOMAIN got' = DOMAIN got \cup {b}
  BY <1>2
<1>6. DOMAIN got' \cap MessageBlocks = {}
  BY <1>1, <1>3, <1>4, <1>5 DEF Reading
<1>7. \A i \in 1..at'-1 : Order[i] \in DOMAIN got'
  BY <1>1, <1>3, <1>5 DEF Reading
<1>8. ~changed' => Same(got)'
  BY <1>1, <1>2 DEF Reading, Same
<1>9. LastRead' = LastRead /\ MessageBlocks' = MessageBlocks
  BY DEF LastRead, MessageBlocks
<1> HIDE DEF b
<1>10. Reading'
  BY <1>3, <1>6, <1>7, <1>8, <1>9 DEF Reading
<1>11. frame = None
  BY <1>1 DEF ReadInv
<1> QED
  BY <1>1, <1>10, <1>11 DEF ReadInv

LEMMA ReadMessageKeeps == ASSUME ReadInv, ReadMessage PROVE ReadInv'
<1>1. /\ pc = "read" /\ pc' = "read" /\ at = LastRead + 1 /\ at' = at
      /\ memory' = memory /\ frame' = frame /\ changed' = changed /\ Reading /\ Selected
  BY DEF ReadInv, ReadMessage
<1> DEFINE m == Messages[SelectorRead]
<1>2. got' = [x \in DOMAIN got \cup {m} |-> IF x = m THEN memory[m] ELSE got[x]]
  BY DEF ReadMessage, Take
<1>3. SelectorRead \in DOMAIN Messages /\ HasMessage(SelectorRead)
  BY <1>1 DEF Selected, HasMessage
<1>4. m \in MessageBlocks /\ m # "selector"
  BY <1>3, PageIsNoMessage DEF MessageBlocks
<1>5. "selector" \in DOMAIN got
  <2>1. LastRead = 7 /\ 7 \in 1..at-1
    BY <1>1, OrderFacts, SMT DEF Selected
  <2> QED
    BY <1>1, <2>1, OrderFacts DEF Reading
<1>6. got'["selector"] = got["selector"] /\ DOMAIN got' = DOMAIN got \cup {m}
  BY <1>2, <1>4, <1>5
<1>7. m \in Named(got)
  BY <1>3 DEF Named, SelectorRead
<1>8. Named(got') = Named(got)
  BY <1>6 DEF Named
<1>9. DOMAIN got' \cap MessageBlocks \subseteq Named(got')
  BY <1>1, <1>6, <1>7, <1>8 DEF Reading
<1>10. \A i \in 1..at'-1 : Order[i] \in DOMAIN got'
  BY <1>1, <1>6 DEF Reading
<1>11. ~changed' => Same(got)'
  BY <1>1, <1>2 DEF Reading, Same
<1>12. /\ LastRead' = LastRead /\ MessageBlocks' = MessageBlocks /\ Named(got)' = Named(got')
  BY DEF LastRead, MessageBlocks, Named, HasMessage
<1> HIDE DEF m
<1>13. Reading'
  BY <1>1, <1>9, <1>10, <1>11, <1>12 DEF Reading
<1>14. frame = None
  BY <1>1 DEF ReadInv
<1> QED
  BY <1>1, <1>13, <1>14 DEF ReadInv

LEMMA BuildKeeps == ASSUME ReadInv, Build PROVE ReadInv'
<1>1. /\ pc = "read" /\ pc' = "idle" /\ at = LastRead + 1 /\ frame' = got
      /\ memory' = memory /\ changed' = changed /\ Reading
      /\ Selected => Messages[SelectorRead] \in DOMAIN got
  BY DEF ReadInv, Build
<1>2. /\ \A i \in 1..6 : i \in 1..at-1
      /\ LastRead = Len(Order) => 7 \in 1..at-1
  BY <1>1, LastReadFacts, OrderFacts, SMT
<1>3. PageBlocks \subseteq DOMAIN got
  <2>1. \A i \in 1..6 : Order[i] \in DOMAIN got
    BY <1>1, <1>2 DEF Reading
  <2>2. 1 \in 1..6 /\ 2 \in 1..6 /\ 3 \in 1..6 /\ 4 \in 1..6 /\ 5 \in 1..6 /\ 6 \in 1..6
    BY SMT
  <2> QED
    BY <2>1, <2>2, OrderFacts DEF PageBlocks
<1>4. LastRead = Len(Order) => "selector" \in DOMAIN got
  BY <1>1, <1>2, OrderFacts DEF Reading
<1>5. DOMAIN got \cap MessageBlocks \subseteq Named(got)
  BY <1>1 DEF Reading
<1>6. ASSUME NEW m \in Named(got) PROVE m \in DOMAIN got \cap MessageBlocks
  <2>1. PICK s \in DOMAIN Messages : HasMessage(s) /\ s = got["selector"][1] /\ m = Messages[s]
    BY DEF Named
  <2>2. Selected /\ SelectorRead = s
    BY <2>1, LastReadFacts DEF Selected, SelectorRead
  <2> QED
    BY <1>1, <2>1, <2>2 DEF MessageBlocks
<1>7. Complete(got)
  BY <1>3, <1>4, <1>5, <1>6 DEF Complete
<1>8. Complete(frame)'
  BY <1>1, <1>7 DEF Complete, LastRead, MessageBlocks, Named, HasMessage
<1>9. ~changed' => Same(frame)'
  BY <1>1 DEF Reading, Same
<1> QED
  BY <1>1, <1>8, <1>9 DEF ReadInv

LEMMA RestartKeeps ==
  ASSUME ReadInv, StartRead \/ ReadFails PROVE ReadInv'
<1>1. pc' = "read" /\ memory' = memory /\ frame' = None /\ Fresh
  BY DEF StartRead, ReadFails, ReadInv
<1>2. Reading'
  BY <1>1, FreshReads
<1> QED
  BY <1>1, <1>2 DEF ReadInv

LEMMA DetachKeeps ==
  ASSUME ReadInv, ReadFailsAgain \/ Attach PROVE ReadInv'
<1>1. pc' \in {"idle", "detached"} /\ memory' = memory /\ frame' = None
  BY DEF ReadFailsAgain, Attach, ReadInv
<1> QED
  BY <1>1 DEF ReadInv

-----------------------------------------------------------------------------
(* The theorems *)

\* The aircraft writes no more, and what is being read was written before.
Finished == steady /\ ~changed

\* The inductive invariant of the reading holds in every reachable state.
THEOREM ReadInvariant == Spec => []ReadInv
<1>1. Init => ReadInv
  BY ReadStarts
<1>2. ReadInv /\ [Next]_vars => ReadInv'
  BY WriteKeeps, IdleKeeps, ReadBlockKeeps, ReadMessageKeeps, BuildKeeps, RestartKeeps,
     DetachKeeps DEF Next, Read
<1> QED
  BY <1>1, <1>2, PTL DEF Spec

\* A page that did not change while it was read is shown as it is, cell by cell, for
\* every width, number of rows and map of glyphs (engine_windows.go:636-694,
\* renderer.go:59-160).
THEOREM PageShown == Spec => []PageIsShown
<1>1. ReadInv => PageIsShown
  <2> SUFFICES ASSUME ReadInv, frame # None, ~changed PROVE ShowsPage
    BY DEF PageIsShown
  <2>1. Complete(frame) /\ Same(frame) /\ \A b \in Blocks : memory[b] \in Seq(Nat)
    BY DEF ReadInv
  <2>2. \A b \in PageBlocks : frame[b] = memory[b] /\ memory[b] \in Seq(Nat)
    BY <2>1, OrderInBlocks DEF Complete, Same
  <2>3. \A b \in PageBlocks : frame[b] = memory[b] /\ Len(memory[b]) \in Nat
    BY <2>2
  <2> QED
    BY <2>3, DisplayShowsPage
<1> QED
  BY <1>1, ReadInvariant, PTL

\* So is the message that the selector names, or the scratchpad
\* (fms_messages_windows.go:10-34).
THEOREM MessageShown == Spec => []MessageIsShown
<1>1. ReadInv => MessageIsShown
  <2> SUFFICES ASSUME ReadInv, frame # None, ~changed PROVE ShowsLastLine
    BY DEF MessageIsShown
  <2>1. Complete(frame) /\ Same(frame) /\ \A b \in Blocks : memory[b] \in Seq(Nat)
    BY DEF ReadInv
  <2>2. \A b \in Blocks : Len(memory[b]) \in Nat
    BY <2>1
  <2> QED
    BY <2>1, <2>2, DisplayShowsLastLine
<1> QED
  BY <1>1, ReadInvariant, PTL

\* A page that the aircraft has finished, and that an attempt began to read after
\* that, is on the display whenever there is a frame, for good
\* (engine_windows.go:360-374, 442-503): the half of TornFrameRepaired that is safety.
THEOREM PageStays ==
  Spec => [](Finished => [](Finished /\ (frame # None => ShowsPage /\ ShowsLastLine)))
<1>1. Finished /\ [Next]_vars => Finished'
  <2> SUFFICES ASSUME steady, ~changed, [Next]_vars PROVE steady' /\ ~changed'
    BY Zenon DEF Finished
  <2>1. ~Write /\ ~Settle
    BY Zenon DEF Write, Settle
  <2>2. CASE UNCHANGED vars
    BY <2>2, Zenon DEF vars
  <2>3. CASE ReadBlock \/ ReadMessage \/ Build \/ Attach
    <3>1. UNCHANGED <<steady, changed>>
      BY <2>3 DEF ReadBlock, ReadMessage, Build, Attach
    <3> QED
      BY <3>1, Zenon
  <2>4. CASE StartRead \/ ReadFails \/ ReadFailsAgain
    BY <2>4, Zenon DEF StartRead, ReadFails, ReadFailsAgain, Fresh
  <2> QED
    BY <2>1, <2>2, <2>3, <2>4, Zenon DEF Next, Read
<1>2. Finished /\ PageIsShown /\ MessageIsShown =>
        (frame # None => ShowsPage /\ ShowsLastLine)
  BY Zenon DEF Finished, PageIsShown, MessageIsShown
<1> QED
  BY <1>1, <1>2, PageShown, MessageShown, PTL DEF Spec

-----------------------------------------------------------------------------
(* Types *)

\* A layer of known glyphs, painted on a row of cells, leaves a row of cells.
LEMMA PaintedType ==
  ASSUME NEW row \in Row, NEW t \in Seq(Glyphs), NEW size \in {0, 1}, NEW l, NEW painted,
         l.text = t /\ l.size = size,
         \A c : OnLayer(l, c) \subseteq 1..Len(t),
         painted = [c \in 1..Width |-> painted[c]],
         \A c \in 1..Width :
           painted[c] = IF OnLayer(l, c) # {} THEN CellOf(l, c) ELSE row[c]
  PROVE  painted \in Row
<1>1. ASSUME NEW c \in 1..Width PROVE painted[c] \in Cells
  <2>1. CASE OnLayer(l, c) # {}
    <3> DEFINE g == t[CHOOSE i \in OnLayer(l, c) : TRUE]
    <3>1. g \in Glyphs
      BY <2>1
    <3>2. CellOf(l, c) = [ch |-> g, size |-> SizeOf(g, size)]
      BY DEF CellOf
    <3> HIDE DEF g
    <3> QED
      BY <2>1, <3>1, <3>2 DEF SizeOf, Cells
  <2>2. CASE OnLayer(l, c) = {}
    BY <2>2 DEF Row
  <2> QED
    BY <2>1, <2>2
<1> QED
  BY <1>1 DEF Row

LEMMA OverlayType ==
  ASSUME NEW row \in Row, NEW t \in Seq(Glyphs), NEW size \in {0, 1}
  PROVE  Overlay(row, t, size, FALSE) \in Row /\ Overlay(row, t, size, TRUE) \in Row
<1>1. \A right, c : /\ OnLayer(Layer(t, size, right), c) \subseteq 1..Len(t)
                   /\ Layer(t, size, right).text = t /\ Layer(t, size, right).size = size
  BY DEF Layer, OnLayer, Standing
<1>2. \A right : Overlay(row, t, size, right) =
                  [c \in 1..Width |-> Overlay(row, t, size, right)[c]]
  BY DEF Overlay
<1>3. \A c \in 1..Width : Overlay(row, t, size, FALSE)[c] =
        IF OnLayer(Layer(t, size, FALSE), c) # {}
        THEN CellOf(Layer(t, size, FALSE), c) ELSE row[c]
  BY OverlayLeft, Zenon
<1>4. \A c \in 1..Width : Overlay(row, t, size, TRUE)[c] =
        IF OnLayer(Layer(t, size, TRUE), c) # {}
        THEN CellOf(Layer(t, size, TRUE), c) ELSE row[c]
  BY OverlayRight, Zenon
<1>5. Overlay(row, t, size, FALSE) \in Row
  <2> DEFINE l       == Layer(t, size, FALSE)
             painted == Overlay(row, t, size, FALSE)
  <2>1. /\ l.text = t /\ l.size = size /\ \A c : OnLayer(l, c) \subseteq 1..Len(t)
        /\ painted = [c \in 1..Width |-> painted[c]]
    BY <1>1, <1>2
  <2>2. \A c \in 1..Width :
          painted[c] = IF OnLayer(l, c) # {} THEN CellOf(l, c) ELSE row[c]
    BY <1>3
  <2> HIDE DEF l, painted
  <2>3. painted \in Row
    BY <2>1, <2>2, PaintedType
  <2> QED
    BY <2>3 DEF painted
<1>6. Overlay(row, t, size, TRUE) \in Row
  <2> DEFINE l       == Layer(t, size, TRUE)
             painted == Overlay(row, t, size, TRUE)
  <2>1. /\ l.text = t /\ l.size = size /\ \A c : OnLayer(l, c) \subseteq 1..Len(t)
        /\ painted = [c \in 1..Width |-> painted[c]]
    BY <1>1, <1>2
  <2>2. \A c \in 1..Width :
          painted[c] = IF OnLayer(l, c) # {} THEN CellOf(l, c) ELSE row[c]
    BY <1>4
  <2> HIDE DEF l, painted
  <2>3. painted \in Row
    BY <2>1, <2>2, PaintedType
  <2> QED
    BY <2>3 DEF painted
<1> QED
  BY <1>5, <1>6

LEMMA RowTypes ==
  ASSUME NEW t \in Seq(Glyphs), NEW u \in Seq(Glyphs),
         NEW v \in Seq(Glyphs), NEW w \in Seq(Glyphs)
  PROVE  /\ TitleRow(t, u) \in Row /\ LabelRow(t, u) \in Row
         /\ DataRow(t, u, v, w) \in Row /\ ScratchRow(t) \in Row
<1>1. BlankRow \in Row
  BY RendererAssumption DEF BlankRow, Row, Cells
<1>2. \A row \in Row, x \in Seq(Glyphs), size \in {0, 1} :
        Overlay(row, x, size, FALSE) \in Row /\ Overlay(row, x, size, TRUE) \in Row
  BY OverlayType
<1>3. 0 \in {0, 1} /\ 1 \in {0, 1}
  OBVIOUS
<1>4. TitleRow(t, u) \in Row
  BY <1>1, <1>2, <1>3, Zenon DEF TitleRow
<1>5. LabelRow(t, u) \in Row
  BY <1>1, <1>2, <1>3, Zenon DEF LabelRow
<1>6. Overlay(Overlay(BlankRow, t, 0, FALSE), u, 0, TRUE) \in Row
  BY <1>1, <1>2, <1>3, Zenon
<1>7. DataRow(t, u, v, w) \in Row
  BY <1>2, <1>3, <1>6, Zenon DEF DataRow
<1>8. ScratchRow(t) \in Row
  BY <1>1, <1>2, <1>3, Zenon DEF ScratchRow
<1> QED
  BY <1>4, <1>5, <1>7, <1>8

ReadTypes ==
  /\ \A b \in Blocks : memory[b] \in Choices[b]
  /\ memory = [b \in Blocks |-> memory[b]]
  /\ at \in 1..Len(Order) + 1 /\ (pc # "read" => at = 1)
  /\ steady \in BOOLEAN /\ second \in BOOLEAN /\ changed \in BOOLEAN
  /\ \A b \in DOMAIN got : b \in Blocks /\ got[b] \in Choices[b]
  /\ frame # None => \A b \in DOMAIN frame : b \in Blocks /\ frame[b] \in Choices[b]

\* Reading one more block keeps what is read a part of what the blocks can hold.
LEMMA TakeTypes ==
  ASSUME NEW b \in Blocks, Take(b), ReadTypes
  PROVE  \A x \in DOMAIN got' : x \in Blocks /\ got'[x] \in Choices[x]
<1>1. got' = [x \in DOMAIN got \cup {b} |-> IF x = b THEN memory[b] ELSE got[x]]
  BY DEF Take
<1>2. /\ memory[b] \in Choices[b]
      /\ \A x \in DOMAIN got : x \in Blocks /\ got[x] \in Choices[x]
  BY DEF ReadTypes
<1> QED
  BY <1>1, <1>2

LEMMA ReadTypesNext == ASSUME ReadInv, ReadTypes, [Next]_vars PROVE ReadTypes'
<1>1. /\ LastRead <= Len(Order) /\ LastRead \in Nat /\ Len(Order) = 7
      /\ pc = "read" => at \in 1..LastRead + 1
  BY LastReadFacts, OrderFacts DEF ReadInv, Reading
<1>0. 1 \in 1..Len(Order) + 1
  BY <1>1, SMT
<1>2. CASE Write
  <2>1. PICK b \in Blocks : \E v \in Choices[b] : memory' = [memory EXCEPT ![b] = v]
    BY <1>2 DEF Write
  <2>2. /\ \A x \in Blocks : memory'[x] \in Choices[x]
        /\ memory' = [x \in Blocks |-> memory'[x]]
    BY <2>1 DEF ReadTypes
  <2> QED
    BY <1>2, <2>2 DEF Write, ReadTypes
<1>3. CASE Settle
  BY <1>3 DEF Settle, ReadTypes
<1>4. CASE StartRead \/ ReadFails \/ ReadFailsAgain
  <2>1. /\ memory' = memory /\ steady' = steady /\ at' = 1 /\ DOMAIN got' = {}
        /\ changed' = FALSE /\ second' \in BOOLEAN /\ frame' \in {None, frame}
    BY <1>4 DEF StartRead, ReadFails, ReadFailsAgain, Fresh
  <2> QED
    BY <1>0, <2>1, Zenon DEF ReadTypes
<1>5. CASE ReadBlock
  <2>1. at \in 1..Len(Order) /\ at + 1 \in 1..Len(Order) + 1
    BY <1>1, <1>5, SMT DEF ReadBlock
  <2>2. Order[at] \in Blocks
    BY <2>1, OrderInBlocks
  <2>3. \A x \in DOMAIN got' : x \in Blocks /\ got'[x] \in Choices[x]
    BY <1>5, <2>2, TakeTypes DEF ReadBlock
  <2> QED
    BY <1>5, <2>1, <2>3 DEF ReadBlock, ReadTypes
<1>6. CASE ReadMessage
  <2>1. Messages[SelectorRead] \in Blocks
    BY <1>6, FrameAssumption DEF ReadMessage, Selected, HasMessage
  <2>2. \A x \in DOMAIN got' : x \in Blocks /\ got'[x] \in Choices[x]
    BY <1>6, <2>1, TakeTypes DEF ReadMessage
  <2> QED
    BY <1>6, <2>2 DEF ReadMessage, ReadTypes
<1>7. CASE Build
  <2>1. /\ memory' = memory /\ steady' = steady /\ at' = 1 /\ DOMAIN got' = {}
        /\ changed' = changed /\ second' = FALSE /\ frame' = got
    BY <1>7 DEF Build
  <2> QED
    BY <1>0, <2>1, Zenon DEF ReadTypes
<1>8. CASE Attach
  BY <1>8 DEF Attach, ReadTypes
<1>9. CASE UNCHANGED vars
  BY <1>9 DEF vars, ReadTypes
<1> QED
  BY <1>2, <1>3, <1>4, <1>5, <1>6, <1>7, <1>8, <1>9 DEF Next, Read

\* Whatever has been read, torn or not, makes a display of full rows of known glyphs.
LEMMA DisplayType ==
  ASSUME ReadInv, ReadTypes, frame # None
  PROVE  Display \in [0..2 * Pairs + 1 -> Row]
<1>1. Complete(frame) /\ \A b \in DOMAIN frame : b \in Blocks /\ frame[b] \in Choices[b]
  BY DEF ReadInv, ReadTypes
<1>2. \A b \in DOMAIN frame : Len(frame[b]) \in Nat
  <2>1. \A b \in DOMAIN frame : frame[b] \in Seq(Nat)
    BY <1>1, FrameAssumption
  <2> QED
    BY <2>1
<1>3. \A b \in DOMAIN frame : Decode(frame[b]) \in Seq(Glyphs)
  BY <1>2, DecodeType
<1>4. PageBlocks \subseteq DOMAIN frame
  BY <1>1 DEF Complete
<1>5. LastLine \in Seq(Glyphs)
  <2>1. MessageRead \subseteq Seq(Glyphs)
    BY <1>3 DEF MessageRead
  <2>2. Decode(frame["scratchpad"]) \in Seq(Glyphs)
    BY <1>3, <1>4 DEF PageBlocks
  <2> QED
    BY <2>1, <2>2 DEF LastLine
<1> DEFINE tl     == Decode(frame["titleLarge"])
           ts     == Decode(frame["titleSmall"])
           labels == DecodeLayer(frame["labels"])
           large  == DecodeLayer(frame["large"])
           small  == DecodeLayer(frame["small"])
           last   == LastLine
           d      == BuildDisplay(tl, ts, labels, large, small, last)
<1>6. tl \in Seq(Glyphs) /\ ts \in Seq(Glyphs) /\ last \in Seq(Glyphs)
  BY <1>3, <1>4, <1>5 DEF PageBlocks
<1>7. \A i \in 1..2 * Pairs : /\ labels[i] \in Seq(Glyphs) /\ large[i] \in Seq(Glyphs)
                              /\ small[i] \in Seq(Glyphs)
  BY LayerRows
<1>8. Display = d
  BY DEF Display
<1>9. /\ d[0] = TitleRow(tl, ts) /\ d[2 * Pairs + 1] = ScratchRow(last)
      /\ \A i \in 1..Pairs :
           /\ d[2 * i - 1] = LabelRow(labels[i], labels[i + Pairs])
           /\ d[2 * i] = DataRow(large[i], large[i + Pairs], small[i], small[i + Pairs])
  <2> HIDE DEF tl, ts, labels, large, small, last
  <2> QED
    BY RowsOfDisplay
<1>10. d = [r \in 0..2 * Pairs + 1 |-> d[r]]
  BY DEF BuildDisplay
<1> HIDE DEF tl, ts, labels, large, small, last, d
<1>11. ASSUME NEW r \in 0..2 * Pairs + 1 PROVE d[r] \in Row
  <2>1. Pairs \in Nat
    BY RendererAssumption
  <2>2. CASE r = 0 \/ r = 2 * Pairs + 1
    BY <1>6, <1>9, <2>2, RowTypes
  <2>3. CASE r # 0 /\ r # 2 * Pairs + 1
    <3>1. \E i \in 1..Pairs : r = 2 * i - 1 \/ r = 2 * i
      <4>1. (r + 1) \div 2 \in 1..Pairs
            /\ (r = 2 * ((r + 1) \div 2) - 1 \/ r = 2 * ((r + 1) \div 2))
        BY <2>1, <2>3, SMT
      <4> QED
        BY <4>1
    <3>2. PICK i \in 1..Pairs : r = 2 * i - 1 \/ r = 2 * i
      BY <3>1
    <3>3. i \in 1..2 * Pairs /\ i + Pairs \in 1..2 * Pairs
      BY <2>1, SMT
    <3>4. /\ labels[i] \in Seq(Glyphs) /\ labels[i + Pairs] \in Seq(Glyphs)
          /\ large[i] \in Seq(Glyphs) /\ large[i + Pairs] \in Seq(Glyphs)
          /\ small[i] \in Seq(Glyphs) /\ small[i + Pairs] \in Seq(Glyphs)
      BY <1>7, <3>3
    <3>5. /\ LabelRow(labels[i], labels[i + Pairs]) \in Row
          /\ DataRow(large[i], large[i + Pairs], small[i], small[i + Pairs]) \in Row
      BY <3>4, RowTypes
    <3> QED
      BY <1>9, <3>2, <3>5
  <2> QED
    BY <2>2, <2>3
<1> QED
  BY <1>8, <1>10, <1>11

\* Every reachable state is of its type; in particular every frame, mixed of two
\* pages or not, is a full display of cells that the CDU knows (renderer.go:59-160).
THEOREM FrameTypes == Spec => []TypeOK
<1>1. Init => ReadTypes
  <2> SUFFICES ASSUME Init PROVE ReadTypes
    OBVIOUS
  <2>1. \A b \in Blocks : memory[b] \in Choices[b]
    BY FrameAssumption DEF Init
  <2>2. 1 \in 1..Len(Order) + 1
    BY OrderFacts, SMT
  <2>3. /\ memory = [b \in Blocks |-> memory[b]] /\ at = 1 /\ DOMAIN got = {} /\ frame = None
    BY DEF Init
  <2>4. steady \in BOOLEAN /\ second \in BOOLEAN /\ changed \in BOOLEAN
    BY Zenon DEF Init
  <2> QED
    BY <2>1, <2>2, <2>3, <2>4, Zenon DEF ReadTypes
<1>2. ReadInv /\ ReadTypes /\ [Next]_vars => ReadTypes'
  BY ReadTypesNext
<1>3. ReadInv /\ ReadTypes => TypeOK
  BY DisplayType DEF TypeOK, ReadInv, ReadTypes
<1> QED
  BY <1>1, <1>2, <1>3, ReadInvariant, PTL DEF Spec
=============================================================================
