--------------------------- MODULE WebSocketProofs -------------------------
(***************************************************************************)
(* What the checks of WebSocket show for ten lengths, for every set of     *)
(* lengths below 2^24: the two goroutines exclude each other, the writer's *)
(* headers are read back, and the reader stays in step with its peer as    *)
(* long as no frame is 127 bytes long; one of 127 bytes it takes for too   *)
(* long, so that no length is ever accepted that is not the true one.      *)
(***************************************************************************)
EXTENDS WebSocket, TLAPS

Length == {n \in Nat : n < TooLong}

LEMMA Bytes ==
  ASSUME NEW n \in Length
  PROVE  /\ Low(n) \in 0..255 /\ Middle(n) \in 0..255 /\ High(n) \in 0..255
         /\ n = High(n) * 65536 + Middle(n) * 256 + Low(n)
         /\ n < 65536 => High(n) = 0
         /\ n >= 65536 => High(n) # 0
<1>n. n \in Nat /\ n <= 16777215 BY SMT DEF Length, TooLong
<1>1. PICK q \in Int : q = n \div 256 BY <1>n, SMT
<1>2. PICK h \in Int : h = n \div 65536 BY <1>n, SMT
<1>3. n % 256 = n - 256 * q BY <1>1, <1>n, SMT
<1>4. n % 256 \in 0..255 BY <1>n, SMT
<1>5. 65536 * h <= n BY <1>2, <1>n, SMT
<1>6. n <= 65536 * h + 65535 BY <1>2, <1>n, SMT
<1>7. 256 * h <= q /\ q <= 256 * h + 255 BY <1>3, <1>4, <1>5, <1>6, <1>n, SMT
<1>8. q % 256 = q - 256 * h BY <1>7, SMT
<1>9. Low(n) = n - 256 * q /\ Middle(n) = q - 256 * h /\ High(n) = h
  BY <1>1, <1>2, <1>3, <1>8, SMT DEF Low, Middle, High
<1> QED BY <1>9, <1>3, <1>4, <1>5, <1>6, <1>7, <1>n, SMT

\* The header of writeFrameLocked is the protocol's, for every length.
LEMMA WriterFollowsProtocol ==
  ASSUME NEW n \in Length
  PROVE  Header(n) = PeerHeader(n)
BY SMT DEF Header, PeerHeader, Length

LEMMA LongReads ==
  ASSUME NEW n \in Length
  PROVE  U64(Long(n), 2) = n
<1> DEFINE h == Long(n)
<1>1. h = <<127, 0, 0, 0, 0, 0, High(n), Middle(n), Low(n)>> BY DEF Long
<1>2. Byte(h, 2) = 0 /\ Byte(h, 3) = 0 /\ Byte(h, 4) = 0 /\ Byte(h, 5) = 0 /\ Byte(h, 6) = 0
  BY <1>1, SMT DEF Byte
<1>3. Byte(h, 7) = High(n) /\ Byte(h, 8) = Middle(n) /\ Byte(h, 9) = Low(n)
  BY <1>1, SMT DEF Byte
<1>4. \A j \in 2..6 : Byte(h, j) = 0 BY <1>2, SMT
<1>5. U64(h, 2) = Byte(h, 7) * 65536 + U16(h, 8) BY <1>4, SMT DEF U64
<1>6. U16(h, 8) = Middle(n) * 256 + Low(n) BY <1>3, SMT DEF U16
<1>7. /\ n \in Nat /\ Low(n) \in Nat /\ Middle(n) \in Nat /\ High(n) \in Nat
      /\ n = High(n) * 65536 + Middle(n) * 256 + Low(n)
  BY Bytes, SMT DEF Length
<1>8. U64(h, 2) = High(n) * 65536 + (Middle(n) * 256 + Low(n))
  BY <1>3, <1>5, <1>6, SMT
<1> QED BY <1>7, <1>8, SMT

LEMMA ReadBack ==
  ASSUME NEW n \in Length
  PROVE  PeerLength(PeerHeader(n)) = n
<1>n. n \in Nat BY SMT DEF Length
<1>1. CASE n < 126
  <2>1. PeerHeader(n) = <<n>> BY <1>1, SMT DEF PeerHeader
  <2> QED BY <1>1, <1>n, <2>1, SMT DEF PeerLength
<1>2. CASE n >= 126 /\ n < 65536
  <2>1. PeerHeader(n) = <<126, Middle(n), Low(n)>>
    BY <1>2, <1>n, SMT DEF PeerHeader
  <2>2. PeerLength(PeerHeader(n)) = Middle(n) * 256 + Low(n)
    BY <2>1, SMT DEF PeerLength, U16, Byte
  <2>3. n = 0 * 65536 + Middle(n) * 256 + Low(n) BY <1>2, Bytes, SMT
  <2> QED BY <1>n, <2>2, <2>3, Bytes, SMT
<1>3. CASE n >= 65536
  <2>1. PeerHeader(n) = Long(n)
    BY <1>3, <1>n, SMT DEF PeerHeader
  <2>2. PeerLength(Long(n)) = U64(Long(n), 2)
    BY SMT DEF PeerLength, Long
  <2> QED BY <2>1, <2>2, LongReads
<1> QED BY <1>n, <1>1, <1>2, <1>3, SMT

LEMMA ReaderReads ==
  ASSUME NEW n \in Length, n # 127
  PROVE  ReadHeader(PeerHeader(n)) = [plen |-> n, took |-> Len(PeerHeader(n))]
<1> DEFINE h == PeerHeader(n)
           r == [plen |-> Byte(h, 1), took |-> 1]
<1>n. n \in Nat BY SMT DEF Length
<1>1. CASE n < 126
  <2>1. h = <<n>> BY <1>1, SMT DEF PeerHeader
  <2>2. Byte(h, 1) = n /\ Len(h) = 1 BY <2>1, SMT DEF Byte
  <2>3. Extend16(r, h) = r BY <1>1, <1>n, <2>2, SMT DEF Extend16
  <2>4. Extend64(r, h) = r BY <1>1, <1>n, <2>2, SMT DEF Extend64
  <2> QED BY <2>2, <2>3, <2>4 DEF ReadHeader
<1>2. CASE n >= 126 /\ n < 65536
  <2> DEFINE s == [plen |-> n, took |-> 3]
  <2>1. h = <<126, Middle(n), Low(n)>> BY <1>2, <1>n, SMT DEF PeerHeader
  <2>2. Byte(h, 1) = 126 /\ Len(h) = 3 BY <2>1, SMT DEF Byte
  <2>3. U16(h, 2) = Middle(n) * 256 + Low(n) BY <2>1, SMT DEF U16, Byte
  <2>4. n = 0 * 65536 + Middle(n) * 256 + Low(n) BY <1>2, Bytes, SMT
  <2>5. U16(h, 2) = n BY <1>n, <2>3, <2>4, Bytes, SMT
  <2>6. Extend16(r, h) = s BY <2>2, <2>5, SMT DEF Extend16
  <2>7. Extend64(s, h) = s BY SMT DEF Extend64
  <2> QED BY <2>2, <2>6, <2>7 DEF ReadHeader
<1>3. CASE n >= 65536
  <2>1. h = Long(n) BY <1>3, <1>n, SMT DEF PeerHeader
  <2>2. Byte(h, 1) = 127 /\ Len(h) = 9 BY <2>1, SMT DEF Byte, Long
  <2>3. U64(h, 2) = n BY <2>1, LongReads
  <2>4. Extend16(r, h) = r BY <2>2, SMT DEF Extend16
  <2>5. Extend64(r, h) = [plen |-> n, took |-> 9] BY <2>2, <2>3, SMT DEF Extend64
  <2> QED BY <2>2, <2>4, <2>5 DEF ReadHeader
<1> QED BY <1>n, <1>1, <1>2, <1>3, SMT

\* A frame of 127 bytes is taken for one that is too long.
LEMMA Misread == ReadHeader(PeerHeader(127)).plen = TooLong
<1> DEFINE h == PeerHeader(127)
           r == [plen |-> Byte(h, 1), took |-> 1]
           s == [plen |-> 127, took |-> 3]
<1>1. 127 \in Length BY SMT DEF Length, TooLong
<1>2. h = <<126, Middle(127), Low(127)>> BY SMT DEF PeerHeader
<1>3. Byte(h, 1) = 126 /\ Byte(h, 4) = Fill BY <1>2, SMT DEF Byte
<1>4. U16(h, 2) = Middle(127) * 256 + Low(127) BY <1>2, SMT DEF U16, Byte
<1>5. 127 = 0 * 65536 + Middle(127) * 256 + Low(127) BY <1>1, Bytes, SMT
<1>6. U16(h, 2) = 127 BY <1>1, <1>4, <1>5, Bytes, SMT
<1>7. Extend16(r, h) = s BY <1>3, <1>6, SMT DEF Extend16
<1>8. U64(h, 4) = TooLong
  <2>1. Fill # 0 BY LengthsAssumption, SMT
  <2>2. \E j \in 4..(4 + 4) : Byte(h, j) # 0 BY <1>3, <2>1, SMT
  <2> QED BY <2>2 DEF U64
<1>9. Extend64(s, h) = [plen |-> TooLong, took |-> 11] BY <1>8, SMT DEF Extend64
<1> QED BY <1>7, <1>9 DEF ReadHeader

\* The reader accepts no length but the true one.
LEMMA AcceptedIsTrue ==
  ASSUME NEW n \in Length, Accepts(LengthRead(n))
  PROVE  LengthRead(n) = n /\ n \in Nat /\ n <= MaxFrame
<1>1. CASE n = 127
  <2>1. ~(TooLong <= MaxFrame) BY SMT DEF TooLong, MaxFrame
  <2> QED BY <1>1, <2>1, Misread DEF LengthRead, Accepts
<1>2. CASE n # 127
  <2>1. LengthRead(n) = n BY <1>2, ReaderReads DEF LengthRead
  <2>2. Accepts(n) BY <2>1
  <2>3. n \in Nat BY SMT DEF Length
  <2>4. n <= MaxFrame BY <2>2, Zenon DEF Accepts
  <2> QED BY <2>1, <2>3, <2>4
<1> QED BY <1>1, <1>2

-----------------------------------------------------------------------------
(* The connection *)

\* The inductive invariant: types, who is where while holding the mutex, what a
\* failed SendText leaves, and that the payload echoed has the length of the ping.
WsInv ==
  /\ TypeOK
  /\ opc = "write" <=> mu = "owner"
  /\ rpc \in {"write", "unlock"} <=> mu = "reader"
  /\ ErrorMeansDead
  /\ pong = asked

LEMMA VerdictType ==
  ASSUME NEW kind, NEW plen
  PROVE  /\ Verdict(kind, plen) \in {"exit", "lock", "read"}
         /\ Verdict(kind, plen) = "lock" => Accepts(plen)
BY Zenon DEF Verdict

LEMMA InboxLength ==
  ASSUME TypeOK
  PROVE  /\ inbox.len \in Length
         /\ 127 \notin Lengths => inbox.len # 127
<1>1. 0 \in Length BY SMT DEF Length, TooLong
<1>2. \A n \in Lengths : n \in Length BY LengthsAssumption, SMT DEF Length
<1>3. inbox = Empty \/ inbox \in Frames BY DEF TypeOK
<1>4. CASE inbox = Empty BY <1>1, <1>4, SMT DEF Empty
<1>5. CASE inbox \in Frames
  <2>1. inbox.len \in Lengths BY <1>5, SMT DEF Frames
  <2> QED BY <2>1, <1>2, Zenon
<1> QED BY <1>3, <1>4, <1>5

LEMMA InitInv == Init => WsInv
<1> SUFFICES ASSUME Init PROVE WsInv OBVIOUS
<1>0. 0 \in Nat /\ 0 <= MaxFrame BY SMT DEF MaxFrame
<1>1. TypeOK BY <1>0, Zenon DEF Init, TypeOK
<1>2. ErrorMeansDead BY SMT DEF Init, ErrorMeansDead
<1> QED BY <1>1, <1>2, SMT DEF Init, WsInv

LEMMA StepInv == WsInv /\ [Next]_vars => WsInv'
<1> SUFFICES ASSUME WsInv, [Next]_vars PROVE WsInv' OBVIOUS
<1>0. 0 \in Nat /\ 0 <= MaxFrame BY SMT DEF MaxFrame
<1> USE DEF WsInv, TypeOK, ErrorMeansDead, wsVars, ownVars, rdVars, netVars
<1>1. CASE SendStart BY <1>1, SMT DEF SendStart, Alive
<1>2. CASE SendLock BY <1>2, SMT DEF SendLock, Alive
<1>3. CASE SendOk BY <1>3, SMT DEF SendOk
<1>4. CASE SendError BY <1>4, SMT DEF SendError, CloseBoth
<1>5. CASE Close BY <1>5, SMT DEF Close, CloseBoth
<1>6. CASE ReadFrame
  <2>1. inbox \in Frames /\ inbox.len \in Lengths /\ rpc = "read"
    BY <1>6, SMT DEF ReadFrame, Frames
  <2>2. rpc' \in {"exit", "lock", "read"} BY <1>6, VerdictType, SMT DEF ReadFrame
  <2>3. asked' \in Lengths \cup {0} BY <1>6, <2>1, SMT DEF ReadFrame
  <2>4. pong' \in Nat /\ pong' <= MaxFrame /\ pong' = asked'
    <3>1. CASE rpc' = "lock"
      <4>1. Accepts(LengthRead(inbox.len)) BY <1>6, <3>1, VerdictType DEF ReadFrame
      <4> QED BY <1>6, <3>1, <4>1, InboxLength, AcceptedIsTrue DEF ReadFrame
    <3>2. CASE rpc' # "lock" BY <1>0, <1>6, <3>2, Zenon DEF ReadFrame
    <3> QED BY <3>1, <3>2
  <2> QED BY <1>6, <2>1, <2>2, <2>3, <2>4, SMT DEF ReadFrame
<1>7. CASE ReadError BY <1>7, SMT DEF ReadError
<1>8. CASE PongLock BY <1>8, SMT DEF PongLock, Alive
<1>9. CASE PongWrite BY <1>9, SMT DEF PongWrite
<1>10. CASE PongUnlock BY <1>0, <1>10, SMT DEF PongUnlock
<1>11. CASE ReaderExit BY <1>11, SMT DEF ReaderExit, CloseBoth
<1>12. ASSUME NEW f \in Frames, PeerSends(f) PROVE WsInv'
  BY <1>12, SMT DEF PeerSends
<1>13. ASSUME NEW p \in {"up", "stalled", "gone"}, PeerTurns(p) PROVE WsInv'
  BY <1>13, SMT DEF PeerTurns
<1>14. CASE UNCHANGED vars BY <1>14, SMT DEF vars
<1> QED
  BY <1>1, <1>2, <1>3, <1>4, <1>5, <1>6, <1>7, <1>8, <1>9, <1>10, <1>11,
     <1>12, <1>13, <1>14
  DEF Next, SendText, Reader, Peer

\* Types, mutual exclusion and the state after an error, for all lengths.
THEOREM WsInvariant == Spec => []WsInv
BY InitInv, StepInv, PTL DEF Spec

\* Every variable of the connection keeps its type.
THEOREM WsTypeCorrect == Spec => []TypeOK
<1>1. WsInv => TypeOK BY DEF WsInv
<1> QED BY <1>1, WsInvariant, PTL

\* Frames of the two goroutines are never interleaved on the wire.
THEOREM WritersExclude == Spec => []OneWriter
<1>1. WsInv => OneWriter BY SMT DEF WsInv, OneWriter
<1> QED BY <1>1, WsInvariant, PTL

\* A SendText that failed leaves a connection that is not Alive.
THEOREM ErrorsEndConnection == Spec => []ErrorMeansDead
<1>1. WsInv => ErrorMeansDead BY DEF WsInv
<1> QED BY <1>1, WsInvariant, PTL

\* Without frames of 127 bytes the reader never loses its place in the stream.
THEOREM ReaderInSync == ASSUME 127 \notin Lengths PROVE Spec => []InSync
<1>1. TypeOK => InSync
  <2> SUFFICES ASSUME TypeOK PROVE InSync OBVIOUS
  <2>1. inbox.len \in Length /\ inbox.len # 127 BY InboxLength
  <2> QED BY <2>1, ReaderReads, Zenon DEF InSync
<1> QED BY <1>1, WsTypeCorrect, PTL

\* Without frames of 127 bytes no frame within the limit ends the reader.
THEOREM ReaderPatient == ASSUME 127 \notin Lengths PROVE Spec => GivesUpOnlyOnTooLong
<1> DEFINE Patient == rpc = "read" /\ rpc' = "exit" =>
             done \/ peer = "gone" \/ inbox.kind = "close" \/ inbox.len > MaxFrame
<1>1. TypeOK /\ [Next]_vars => [Patient]_vars
  <2> SUFFICES ASSUME TypeOK, Next, rpc = "read", rpc' = "exit"
               PROVE  done \/ peer = "gone" \/ inbox.kind = "close" \/ inbox.len > MaxFrame
    OBVIOUS
  <2> DEFINE n == inbox.len
  <2>1. n \in Length /\ n # 127 BY InboxLength
  <2>2. LengthRead(n) = n BY <2>1, ReaderReads DEF LengthRead
  <2>3. CASE ReadFrame
    <3>1. "exit" = Verdict(inbox.kind, n) BY <2>2, <2>3 DEF ReadFrame
    <3>2. ~Accepts(n) \/ inbox.kind = "close" BY <3>1, SMT DEF Verdict
    <3>3. n \in Nat BY <2>1, SMT DEF Length
    <3> QED BY <3>2, <3>3, SMT DEF Accepts, MaxFrame
  <2>4. CASE ReadError BY <2>4, Zenon DEF ReadError
  <2>5. ReadFrame \/ ReadError
    BY SMT DEF Next, SendText, SendStart, SendLock, SendOk, SendError, Close,
       Reader, PongLock, PongWrite, PongUnlock, ReaderExit, Peer, PeerSends,
       PeerTurns, rdVars
  <2> QED BY <2>3, <2>4, <2>5
<1> QED BY <1>1, WsTypeCorrect, PTL DEF Spec, GivesUpOnlyOnTooLong

\* A pong that is written is read back with the length of the ping it answers, for
\* all lengths: the reader accepts no length but the true one, and the writer's
\* header gives it back.  (A ping of 127 bytes gets no pong: the reader takes it for
\* too long and ends the connection, which GivesUpOnlyOnTooLong is about.)
THEOREM WriterCorrect == Spec => []PongMatchesPing
<1>1. WsInv => PongMatchesPing
  <2> SUFFICES ASSUME WsInv PROVE PeerLength(Header(pong)) = asked
    BY DEF PongMatchesPing
  <2>1. pong \in Nat /\ pong <= MaxFrame /\ pong = asked BY DEF WsInv, TypeOK
  <2>2. pong \in Length BY <2>1, SMT DEF Length, MaxFrame, TooLong
  <2> QED BY <2>1, <2>2, ReadBack, WriterFollowsProtocol
<1> QED BY <1>1, WsInvariant, PTL

\* Every behaviour of the two goroutines and the peer is one of Connection: to its
\* users a connection whose SendText is atomic (websocket.go:122-149, 232-245).
THEOREM ConnectionIsAtomic == Spec => ImplementsConnection
<1>1. Init => Atomic!Init BY SMT DEF Init, Atomic!Init
<1>2. WsInv /\ [Next]_vars => [Atomic!Next]_Atomic!vars
  <2> SUFFICES ASSUME WsInv, [Next]_vars PROVE [Atomic!Next]_Atomic!vars OBVIOUS
  <2> USE DEF wsVars, ownVars, rdVars, netVars, Atomic!vars
  <2>1. TypeOK /\ (opc = "write" <=> mu = "owner") /\ (rpc \in {"write", "unlock"} <=> mu = "reader")
    BY DEF WsInv
  <2>2. CASE SendStart
    <3>1. Atomic!Fail \/ UNCHANGED Atomic!vars
      BY <2>1, <2>2, SMT DEF SendStart, Alive, Atomic!Fail, TypeOK
    <3> QED BY <3>1 DEF Atomic!Next
  <2>3. CASE SendLock
    <3>1. Atomic!Fail \/ UNCHANGED Atomic!vars
      BY <2>1, <2>3, SMT DEF SendLock, Alive, Atomic!Fail, TypeOK
    <3> QED BY <3>1 DEF Atomic!Next
  <2>4. CASE SendOk
    <3>1. Atomic!Deliver
      BY <2>1, <2>4, SMT DEF SendOk, WriteCanSucceed, Atomic!Deliver
    <3> QED BY <3>1 DEF Atomic!Next
  <2>5. CASE SendError
    <3>1. Atomic!Fail BY <2>5, SMT DEF SendError, CloseBoth, Atomic!Fail
    <3> QED BY <3>1 DEF Atomic!Next
  <2>6. CASE Close
    <3>1. Atomic!Die BY <2>6, SMT DEF Close, CloseBoth, Atomic!Die
    <3> QED BY <3>1 DEF Atomic!Next
  <2>7. CASE ReadFrame
    <3>1. rpc' # "write"
      BY <2>7, VerdictType, SMT DEF ReadFrame
    <3> QED BY <2>7, <3>1, SMT DEF ReadFrame
  <2>8. CASE ReadError BY <2>8, SMT DEF ReadError
  <2>9. CASE PongLock
    <3>1. Atomic!BeginPong \/ UNCHANGED Atomic!vars
      BY <2>1, <2>9, SMT DEF PongLock, Alive, Atomic!BeginPong
    <3> QED BY <3>1 DEF Atomic!Next
  <2>10. CASE PongWrite
    <3>1. Atomic!EndPong BY <2>10, SMT DEF PongWrite, Atomic!EndPong
    <3> QED BY <3>1 DEF Atomic!Next
  <2>11. CASE PongUnlock BY <2>11, SMT DEF PongUnlock
  <2>12. CASE ReaderExit
    <3>1. Atomic!Die BY <2>12, SMT DEF ReaderExit, CloseBoth, Atomic!Die
    <3> QED BY <3>1 DEF Atomic!Next
  <2>13. CASE Peer BY <2>13, SMT DEF Peer, PeerSends, PeerTurns
  <2>14. CASE UNCHANGED vars BY <2>14, SMT DEF vars
  <2> QED
    BY <2>2, <2>3, <2>4, <2>5, <2>6, <2>7, <2>8, <2>9, <2>10, <2>11, <2>12, <2>13, <2>14
    DEF Next, SendText, Reader
<1> QED
  BY <1>1, <1>2, WsInvariant, PTL DEF Spec, ImplementsConnection, Atomic!Spec

-----------------------------------------------------------------------------
(* The end of a connection *)

\* How far the reader is from its end once the connection is closed: a frame that
\* was buffered can still be read, and answered up to the look at done.
Stage == [read |-> 2, lock |-> 5, write |-> 4, unlock |-> 3, exit |-> 1, gone |-> 0]
ToGo  == Stage[rpc] + (IF inbox = Empty THEN 0 ELSE 4)

LEMMA ToGoBounds == TypeOK => ToGo \in 0..9
BY SMT DEF TypeOK, ToGo, Stage

\* A closed connection stays closed, and its reader only ever comes closer to its
\* end, nine steps away at most: what ReaderEnds needs beside fairness
\* (websocket.go:187-191, 232-245).
THEOREM ReaderWindsDown ==
  Spec => [][done => /\ done'
                     /\ UNCHANGED <<rpc, inbox>> \/ (ToGo \in 1..9 /\ ToGo' < ToGo)]_vars
<1> DEFINE Down == done => /\ done'
                           /\ UNCHANGED <<rpc, inbox>> \/ (ToGo \in 1..9 /\ ToGo' < ToGo)
<1>1. WsInv /\ [Next]_vars => [Down]_vars
  <2> SUFFICES ASSUME WsInv, Next, done PROVE Down OBVIOUS
  <2> USE DEF wsVars, ownVars, rdVars, netVars
  <2>1. TypeOK BY DEF WsInv
  <2>2. done' /\ (inbox' = inbox \/ (ReadFrame /\ inbox' = Empty))
    <3>1. done' = done \/ done' = TRUE
      BY Zenon DEF Next, SendText, SendStart, SendLock, SendOk, SendError, Close, CloseBoth,
         Reader, ReadFrame, ReadError, PongLock, PongWrite, PongUnlock, ReaderExit,
         Peer, PeerSends, PeerTurns
    <3>2. inbox' = inbox \/ (ReadFrame /\ inbox' = Empty)
      BY Zenon DEF Next, SendText, SendStart, SendLock, SendOk, SendError, Close,
         Reader, ReadFrame, ReadError, PongLock, PongWrite, PongUnlock, ReaderExit,
         Peer, PeerSends, PeerTurns
    <3> QED BY <3>1, <3>2
  <2>3. CASE ReadFrame
    <3>1. rpc = "read" /\ rpc' \in {"exit", "lock", "read"} /\ inbox # Empty /\ inbox' = Empty
      BY <2>3, VerdictType, SMT DEF ReadFrame
    <3>2. ToGo = 6 /\ ToGo' \in {1, 2, 5} BY <3>1, SMT DEF ToGo, Stage
    <3> QED BY <2>2, <3>1, <3>2, SMT
  <2>4. CASE ReadError \/ PongLock \/ PongWrite \/ PongUnlock \/ ReaderExit
    <3>1. inbox' = inbox
      BY <2>4, Zenon DEF ReadError, PongLock, PongWrite, PongUnlock, ReaderExit
    <3>2. \/ rpc = "read"   /\ rpc' = "exit"
          \/ rpc = "lock"   /\ rpc' \in {"write", "unlock"}
          \/ rpc = "write"  /\ rpc' = "unlock"
          \/ rpc = "unlock" /\ rpc' = "read"
          \/ rpc = "exit"   /\ rpc' = "gone"
      BY <2>4, Zenon DEF ReadError, PongLock, PongWrite, PongUnlock, ReaderExit
    <3>3. ToGo \in 1..9 /\ ToGo' < ToGo BY <3>1, <3>2, SMT DEF ToGo, Stage
    <3> QED BY <2>2, <3>3
  <2>5. CASE SendText \/ Close \/ Peer
    <3>1. rpc' = rpc
      BY <2>5, Zenon DEF SendText, SendStart, SendLock, SendOk, SendError, Close, Peer,
         PeerSends, PeerTurns
    <3>2. inbox' = inbox
      BY <2>5, Zenon DEF SendText, SendStart, SendLock, SendOk, SendError, Close, Peer,
         PeerSends, PeerTurns
    <3> QED BY <2>2, <3>1, <3>2
  <2> QED BY <2>3, <2>4, <2>5 DEF Next, Reader
<1> QED BY <1>1, WsInvariant, PTL DEF Spec
=============================================================================
