----------------------------- MODULE WebSocket -----------------------------
(***************************************************************************)
(* One connection of src/websocket.go after its handshake: the goroutine   *)
(* that owns it (SendText and Close, called by the bridge loop or by the   *)
(* test display), the reader goroutine (readLoop, which answers pings      *)
(* through the same writer), and the peer.                                 *)
(*                                                                         *)
(* A write that does not progress ends with an error after wsWriteTimeout. *)
(* The owner goes on calling SendText or Close for as long as it likes.    *)
(***************************************************************************)
EXTENDS WsFrame

VARIABLES
  done,       \* the channel done is closed, and the connection with it
  mu,         \* who holds the writer mutex: "none", "owner" or "reader"
  opc,        \* where the owner is
  sent,       \* outcome of the last SendText: "none", "ok" or "error"
  rpc,        \* where the reader is
  pong,       \* length of the payload the reader is echoing, or 0
  asked,      \* auxiliary: length of the ping, as the peer sent it
  peer,       \* "up", "stalled" (does not read) or "gone"
  inbox       \* the frame the peer sent and the reader has not read, or Empty

wsVars  == <<done, mu>>
ownVars == <<opc, sent>>
rdVars  == <<rpc, pong, asked>>
netVars == <<peer, inbox>>
vars    == <<wsVars, ownVars, rdVars, netVars>>

Frames == [kind : {"data", "ping", "close"}, len : Lengths]
Empty  == [kind |-> "empty", len |-> 0]

Alive == ~done

\* Close: closeDone and conn.Close.  Nobody can tell the moment between the two
\* from a moment before or after both, so they are one step.
CloseBoth == done' = TRUE

\* A frame is accepted by the peer, or by the buffers of a peer that stalls or
\* is gone; it fails if the connection is closed, and can fail (at the deadline,
\* or at once) if the peer does not read.
WriteCanSucceed == ~done
WriteCanFail    == done \/ peer # "up"

-----------------------------------------------------------------------------
(* The owner *)

\* The first look at done, without the mutex.
SendStart ==
  /\ opc = "idle"
  /\ IF Alive THEN opc' = "lock" /\ sent' = sent
              ELSE opc' = opc /\ sent' = "error"
  /\ UNCHANGED <<wsVars, rdVars, netVars>>

\* The mutex is taken, and done is looked at again.
SendLock ==
  /\ opc = "lock" /\ mu = "none"
  /\ IF Alive THEN opc' = "write" /\ mu' = "owner" /\ sent' = sent
              ELSE opc' = "idle" /\ mu' = mu /\ sent' = "error"
  /\ UNCHANGED <<done, rdVars, netVars>>

SendOk ==
  /\ opc = "write" /\ WriteCanSucceed
  /\ opc' = "idle" /\ sent' = "ok" /\ mu' = "none"
  /\ UNCHANGED <<done, rdVars, netVars>>

\* Mutant: the error is returned and the connection left as it is.
SendErrorReturns ==
  /\ opc = "write" /\ WriteCanFail
  /\ opc' = "idle" /\ sent' = "error" /\ mu' = "none"
  /\ UNCHANGED <<done, rdVars, netVars>>

\* A failed write ends the connection before the mutex is released.
SendError ==
  /\ opc = "write" /\ WriteCanFail
  /\ CloseBoth /\ mu' = "none"
  /\ opc' = "idle" /\ sent' = "error"
  /\ UNCHANGED <<rdVars, netVars>>

SendText == SendStart \/ SendLock \/ SendOk \/ SendError

\* The owner closes the connection; it takes no mutex.
Close == opc = "idle" /\ CloseBoth /\ UNCHANGED <<mu, ownVars, rdVars, netVars>>

-----------------------------------------------------------------------------
(* The reader *)

\* The length the reader takes a frame of n bytes for.
LengthRead(n) == ReadHeader(PeerHeader(n)).plen

\* What it does next with a frame: a close frame or one it takes for too long
\* ends the loop, a ping is answered, all else is dropped.
Verdict(kind, plen) ==
  IF ~Accepts(plen) \/ kind = "close" THEN "exit"
  ELSE IF kind = "ping" THEN "lock" ELSE "read"

\* A frame is read, perhaps one that was buffered before the connection was
\* closed.  A ping is echoed with the payload of the length that was read.
ReadFrame ==
  /\ rpc = "read" /\ inbox # Empty
  /\ rpc' = Verdict(inbox.kind, LengthRead(inbox.len))
  /\ pong' = IF rpc' = "lock" THEN LengthRead(inbox.len) ELSE 0
  /\ asked' = IF rpc' = "lock" THEN inbox.len ELSE 0
  /\ inbox' = Empty
  /\ UNCHANGED <<wsVars, ownVars, peer>>

\* Mutant: a close on this side does not end a pending read.
ReadErrorPeerOnly ==
  /\ rpc = "read" /\ peer = "gone" /\ inbox = Empty
  /\ rpc' = "exit"
  /\ UNCHANGED <<wsVars, ownVars, pong, asked, netVars>>

\* A read error: the connection was closed here, or the peer is gone.
ReadError ==
  /\ rpc = "read" /\ (done \/ (peer = "gone" /\ inbox = Empty))
  /\ rpc' = "exit"
  /\ UNCHANGED <<wsVars, ownVars, pong, asked, netVars>>

\* Mutant: the pong is written without the mutex.
PongWithoutLock ==
  /\ rpc = "lock"
  /\ rpc' = IF Alive THEN "write" ELSE "unlock"
  /\ UNCHANGED <<wsVars, ownVars, pong, asked, netVars>>

PongLock ==
  /\ rpc = "lock" /\ mu = "none"
  /\ mu' = "reader"
  /\ rpc' = IF Alive THEN "write" ELSE "unlock"
  /\ UNCHANGED <<done, ownVars, pong, asked, netVars>>

\* The outcome of writing the pong is not looked at.
PongWrite ==
  /\ rpc = "write" /\ (WriteCanSucceed \/ WriteCanFail)
  /\ rpc' = "unlock"
  /\ UNCHANGED <<wsVars, ownVars, pong, asked, netVars>>

\* Mutant: the mutex is kept.
PongKeepsLock ==
  /\ rpc = "unlock"
  /\ rpc' = "read" /\ pong' = 0 /\ asked' = 0
  /\ UNCHANGED <<wsVars, ownVars, netVars>>

PongUnlock ==
  /\ rpc = "unlock"
  /\ mu' = "none" /\ rpc' = "read" /\ pong' = 0 /\ asked' = 0
  /\ UNCHANGED <<done, ownVars, netVars>>

\* The deferred function.
ReaderExit ==
  /\ rpc = "exit"
  /\ CloseBoth /\ rpc' = "gone"
  /\ UNCHANGED <<mu, ownVars, pong, asked, netVars>>

Reader == \/ ReadFrame \/ ReadError
          \/ PongLock \/ PongWrite \/ PongUnlock \/ ReaderExit

-----------------------------------------------------------------------------
(* The peer *)

PeerSends(f) ==
  /\ peer = "up" /\ inbox = Empty /\ ~done
  /\ inbox' = f
  /\ UNCHANGED <<wsVars, ownVars, rdVars, peer>>

\* The peer stops to read, reads again, or is gone for good.
PeerTurns(p) ==
  /\ peer \notin {p, "gone"}
  /\ peer' = p
  /\ UNCHANGED <<wsVars, ownVars, rdVars, inbox>>

Peer == \/ \E f \in Frames : PeerSends(f)
        \/ \E p \in {"up", "stalled", "gone"} : PeerTurns(p)

-----------------------------------------------------------------------------
Init ==
  /\ done = FALSE /\ mu = "none"
  /\ opc = "idle" /\ sent = "none"
  /\ rpc = "read" /\ pong = 0 /\ asked = 0
  /\ peer = "up" /\ inbox = Empty

Next == SendText \/ Close \/ Reader \/ Peer

Spec == Init /\ [][Next]_vars

\* A started call runs on, and so does the reader; the mutex is not starved
\* (sync.Mutex hands over to a goroutine that has waited for 1 ms).  Nobody
\* has to start a call.
Fairness ==
  /\ WF_vars(SendText /\ opc # "idle")
  /\ SF_vars(SendLock) /\ SF_vars(PongLock)
  /\ WF_vars(Reader)

FairSpec == Spec /\ Fairness

-----------------------------------------------------------------------------
(* Properties *)

\* Type invariant of the connection, its two goroutines and the peer.
TypeOK ==
  /\ done \in BOOLEAN /\ mu \in {"none", "owner", "reader"}
  /\ opc \in {"idle", "lock", "write"} /\ sent \in {"none", "ok", "error"}
  /\ rpc \in {"read", "lock", "write", "unlock", "exit", "gone"}
  /\ pong \in Nat /\ pong <= MaxFrame /\ asked \in Lengths \cup {0}
  /\ peer \in {"up", "stalled", "gone"} /\ inbox \in Frames \cup {Empty}

\* Text frames and pongs are never interleaved on the wire: at most one of the
\* two goroutines is inside writeFrameLocked (websocket.go:138-139, 240-244).
OneWriter == ~(opc = "write" /\ rpc = "write")

\* A SendText that failed leaves a connection that is not Alive, so that the
\* bridge dials a new one (websocket.go:143-147).
ErrorMeansDead == sent = "error" => done

\* To the bridge loop and the test display SendText is one step, although it looks
\* at done twice, waits for the mutex and can find the connection closed under it
\* at any point, by the reader or by its own side (websocket.go:131-149, 232-245).
Atomic == INSTANCE Connection WITH
  alive <- ~done, result <- sent, ponging <- (rpc = "write")

ImplementsConnection == Atomic!Spec

\* The frame that waits to be read, unless it is too long, will be read in step:
\* the reader takes its header, all of it and nothing else, and knows its
\* length.  One mistake here and every later frame, pings and the close frame
\* included, is read from the wrong byte (websocket.go:203-217).
InSync ==
  inbox.len <= MaxFrame =>
    ReadHeader(PeerHeader(inbox.len)) =
      [plen |-> inbox.len, took |-> Len(PeerHeader(inbox.len))]

\* A pong reaches the peer with the length of the ping it answers: what readLoop
\* made of the header of the ping and what writeFrameLocked writes for the payload
\* it read agree with the peer (websocket.go:155-170, 203-227, 240-242).
PongMatchesPing == rpc = "write" => PeerLength(Header(pong)) = asked

\* The reader gives up only when the connection is over, or because of a frame
\* that really is longer than 1<<20 (websocket.go:218-220).  The decoder of
\* websocket_test.go:48-53 takes the length of a 126 header from two bytes,
\* whatever it is; this one does not.
GivesUpOnlyOnTooLong ==
  [][rpc = "read" /\ rpc' = "exit" =>
       done \/ peer = "gone" \/ inbox.kind = "close" \/ inbox.len > MaxFrame]_vars

\* A connection that is closed or whose peer is gone does not keep its reader
\* goroutine, even if that one waits for the writer mutex.
ReaderEnds == (done \/ peer = "gone") ~> (rpc = "gone")

\* A SendText returns, however the peer behaves.
CallsReturn == (opc # "idle") ~> (opc = "idle")
=============================================================================
