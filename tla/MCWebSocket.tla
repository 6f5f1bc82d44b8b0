---------------------------- MODULE MCWebSocket ----------------------------
(* Lengths on both sides of every boundary of the encoding, for TLC. *)
EXTENDS WebSocket

Boundaries == {0, 125, 126, 128, 255, 256, 65535, 65536, 2^20, 2^20 + 1}

\* With the length that the reader is known to misread.
With127 == Boundaries \cup {127}
=============================================================================
