------------------------------ MODULE WsFrame ------------------------------
(***************************************************************************)
(* Lengths in WebSocket frame headers (src/websocket.go): the header       *)
(* writeFrameLocked writes, and what readLoop makes of the header of a     *)
(* frame the peer sent.  A frame is its length; of its header only the     *)
(* bytes that carry the length are kept, and of its payload the one value  *)
(* Fill that a reader sees if it goes on reading header bytes.  Fill is    *)
(* not 0: a reader that takes zeros for a length goes on from within the   *)
(* payload, and what it makes of that is not modelled.                     *)
(***************************************************************************)
EXTENDS Integers, Sequences

CONSTANTS
  Lengths,     \* lengths of the frames the peer sends
  Fill         \* the bytes of a payload

TooLong  == 16777216   \* 2^24; lengths are below it, three bytes carry them
MaxFrame == 1048576    \* 1<<20

ASSUME LengthsAssumption ==
  /\ Lengths \subseteq {n \in Nat : n < TooLong}
  /\ Fill \in 1..255

-----------------------------------------------------------------------------
Low(n)    == n % 256
Middle(n) == (n \div 256) % 256
High(n)   == n \div 65536
Long(n)   == <<127, 0, 0, 0, 0, 0, High(n), Middle(n), Low(n)>>

\* The bytes h with the payload after them, and numbers read from byte i on.
Byte(h, i) == IF i <= Len(h) THEN h[i] ELSE Fill
U16(h, i)  == Byte(h, i) * 256 + Byte(h, i + 1)
U64(h, i)  == IF \E j \in i..(i + 4) : Byte(h, j) # 0 THEN TooLong
              ELSE Byte(h, i + 5) * 65536 + U16(h, i + 6)

(* The protocol, as the peer implements it *)

PeerHeader(n) == IF n < 126 THEN <<n>>
                 ELSE IF n < 65536 THEN <<126, Middle(n), Low(n)>> ELSE Long(n)

PeerLength(h) == IF h[1] = 126 THEN U16(h, 2)
                 ELSE IF h[1] = 127 THEN U64(h, 2) ELSE h[1]

(* writeFrameLocked *)

\* Mutant: 126 is written as a short length.
HeaderOffByOne(n) == IF n <= 126 THEN <<n>>
                     ELSE IF n <= 65535 THEN <<126, Middle(n), Low(n)>> ELSE Long(n)

Header(n) == IF n <= 125 THEN <<n>>
             ELSE IF n <= 65535 THEN <<126, Middle(n), Low(n)>> ELSE Long(n)

(* readLoop *)

\* Mutant: the two bytes are taken in the other order.
Extend16Swapped(r, h) ==
  IF r.plen # 126 THEN r
  ELSE [plen |-> Byte(h, r.took + 2) * 256 + Byte(h, r.took + 1), took |-> r.took + 2]

Extend16(r, h) ==
  IF r.plen # 126 THEN r ELSE [plen |-> U16(h, r.took + 1), took |-> r.took + 2]

\* The test is made on whatever plen is by now.
Extend64(r, h) ==
  IF r.plen # 127 THEN r ELSE [plen |-> U64(h, r.took + 1), took |-> r.took + 8]

ReadHeader(h) == Extend64(Extend16([plen |-> Byte(h, 1), took |-> 1], h), h)

\* Mutant: there is no limit.
AcceptsAll(plen) == TRUE

\* Mutant: the limit itself is refused.
AcceptsLess(plen) == plen < MaxFrame

Accepts(plen) == plen <= MaxFrame
=============================================================================
