----------------------------- MODULE FrameRead ------------------------------
(***************************************************************************)
(* The reading of one frame (readFrame and readFrameOnce in                *)
(* engine_windows.go, resolveFMSMessage): the text blocks of the attached  *)
(* CDU are read one after the other from a memory that the aircraft goes   *)
(* on writing, a failed read makes the whole frame be read once more, and  *)
(* a second failure gives up the attachment.                               *)
(***************************************************************************)
EXTENDS Renderer

CONSTANTS
  Choices,    \* Choices[b]: what the aircraft writes to the block b
  Messages,   \* FMSMessages: from the values of the selector to blocks
  None        \* no frame

\* The blocks of the layout, in the order in which they are read.
Order == <<"titleLarge", "titleSmall", "labels", "large", "small", "scratchpad",
           "selector">>

Blocks == DOMAIN Choices

ASSUME FrameAssumption ==
  /\ Blocks = {Order[i] : i \in 1..Len(Order)} \cup {Messages[s] : s \in DOMAIN Messages}
  /\ DOMAIN Messages \subseteq Nat
  /\ \A s \in DOMAIN Messages, i \in 1..Len(Order) : Messages[s] # Order[i]
  /\ \A b \in Blocks : Choices[b] \subseteq Seq(Nat) /\ Choices[b] # {}

VARIABLES
  memory,     \* memory[b]: what the aircraft has in the block b
  steady,     \* the aircraft writes no more, and no read fails
  pc,         \* "idle", "read" or "detached"
  at,         \* the place in Order of the next read, or one more
  got,        \* what the reads of this attempt gave
  second,     \* this is the second attempt
  frame,      \* the frame of the step, or None
  changed     \* auxiliary: the aircraft wrote since this attempt began

vars == <<memory, steady, pc, at, got, second, frame, changed>>

-----------------------------------------------------------------------------
Write ==
  /\ ~steady
  /\ \E b \in Blocks : \E v \in Choices[b] : memory' = [memory EXCEPT ![b] = v]
  /\ changed' = TRUE
  /\ UNCHANGED <<steady, pc, at, got, second, frame>>

Settle ==
  /\ ~steady /\ steady' = TRUE
  /\ UNCHANGED <<memory, pc, at, got, second, frame, changed>>

-----------------------------------------------------------------------------
Fresh == at' = 1 /\ got' = [b \in {} |-> None] /\ changed' = FALSE

StartRead ==
  /\ pc = "idle"
  /\ pc' = "read" /\ second' = FALSE /\ frame' = None /\ Fresh
  /\ UNCHANGED <<memory, steady>>

Take(b) == got' = [x \in DOMAIN got \cup {b} |-> IF x = b THEN memory[b] ELSE got[x]]

\* Without messages in the profile the selector is not read.
LastRead == IF DOMAIN Messages = {} THEN Len(Order) - 1 ELSE Len(Order)

ReadBlock ==
  /\ pc = "read" /\ at <= LastRead
  /\ Take(Order[at]) /\ at' = at + 1
  /\ UNCHANGED <<memory, steady, pc, second, frame, changed>>

\* lookupFMSMessageOffset: 0 always means the scratchpad.
HasMessage(s) == s # 0 /\ s \in DOMAIN Messages

SelectorRead == got["selector"][1]

Selected == LastRead = Len(Order) /\ HasMessage(SelectorRead)

ReadMessage ==
  /\ pc = "read" /\ at = LastRead + 1 /\ Selected
  /\ Messages[SelectorRead] \notin DOMAIN got
  /\ Take(Messages[SelectorRead])
  /\ UNCHANGED <<memory, steady, pc, at, second, frame, changed>>

\* The frame is rendered from what was read; see Display.
Build ==
  /\ pc = "read" /\ at = LastRead + 1
  /\ Selected => Messages[SelectorRead] \in DOMAIN got
  /\ frame' = got
  /\ pc' = "idle" /\ at' = 1 /\ got' = [b \in {} |-> None] /\ second' = FALSE
  /\ UNCHANGED <<memory, steady, changed>>

\* MUTANT: the second attempt goes on where the first one failed.
ReadFailsGoesOn ==
  /\ pc = "read" /\ ~steady /\ ~second
  /\ second' = TRUE /\ changed' = FALSE
  /\ UNCHANGED <<memory, steady, pc, at, got, frame>>

\* A read fails while the aircraft's runtime is in transition.
ReadFails ==
  /\ pc = "read" /\ ~steady /\ ~second
  /\ second' = TRUE /\ Fresh
  /\ UNCHANGED <<memory, steady, pc, frame>>

ReadFailsAgain ==
  /\ pc = "read" /\ ~steady /\ second
  /\ pc' = "detached" /\ second' = FALSE /\ Fresh
  /\ UNCHANGED <<memory, steady, frame>>

\* The engine attaches again (RuntimeProbe).
Attach ==
  /\ pc = "detached" /\ pc' = "idle"
  /\ UNCHANGED <<memory, steady, at, got, second, frame, changed>>

-----------------------------------------------------------------------------
Init ==
  /\ memory = [b \in Blocks |-> CHOOSE v \in Choices[b] : TRUE]
  /\ steady = FALSE /\ pc = "idle" /\ at = 1 /\ got = [b \in {} |-> None]
  /\ second = FALSE /\ frame = None /\ changed = FALSE

Read == \/ StartRead \/ ReadBlock \/ ReadMessage \/ Build
        \/ ReadFails \/ ReadFailsAgain \/ Attach

Next == Write \/ Settle \/ Read

Spec == Init /\ [][Next]_vars

\* The loop reads a frame every 100 ms as long as the bridge is requested.
FairSpec == Spec /\ WF_vars(Read)

-----------------------------------------------------------------------------
\* The text read from a message block, if one was read and is not blank; then it
\* takes the place of the scratchpad.
MessageRead ==
  {Decode(frame[b]) : b \in {Messages[s] : s \in DOMAIN Messages} \cap DOMAIN frame}

\* MUTANT: a message is shown although it is blank.
LastLineAnyMessage ==
  IF MessageRead # {} THEN CHOOSE t \in MessageRead : TRUE
  ELSE Decode(frame["scratchpad"])

LastLine ==
  IF \E t \in MessageRead : ~IsBlank(t) THEN CHOOSE t \in MessageRead : ~IsBlank(t)
  ELSE Decode(frame["scratchpad"])

\* What readFrameOnce makes of the blocks it has read
Display ==
  BuildDisplay(Decode(frame["titleLarge"]), Decode(frame["titleSmall"]),
               DecodeLayer(frame["labels"]), DecodeLayer(frame["large"]),
               DecodeLayer(frame["small"]), LastLine)

Row == [1..Width -> Cells]

TypeOK ==
  /\ \A b \in Blocks : memory[b] \in Choices[b]
  /\ pc \in {"idle", "read", "detached"} /\ at \in 1..Len(Order) + 1
  /\ \A b \in DOMAIN got : b \in Blocks /\ got[b] \in Choices[b]
  /\ frame # None => Display \in [0..2 * Pairs + 1 -> Row]
  /\ {steady, second, changed} \subseteq BOOLEAN

\* The rows of the frame are those of the page in memory: in every cell the
\* uppermost glyph, small over large, right over left, a blank covering nothing.
ShowsPage ==
  LET text(b) == Decode(memory[b])
      line(b, i) == DecodeLayer(memory[b])[i]
  IN /\ Shows(Display[0], <<Layer(text("titleLarge"), 1, FALSE),
                          Layer(text("titleSmall"), 1, FALSE)>>)
     /\ \A i \in 1..Pairs :
          /\ Shows(Display[2 * i - 1], <<Layer(line("labels", i), 1, FALSE),
                                       Layer(line("labels", i + Pairs), 1, TRUE)>>)
          /\ Shows(Display[2 * i], <<Layer(line("large", i), 0, FALSE),
                                   Layer(line("large", i + Pairs), 0, TRUE),
                                   Layer(line("small", i), 1, FALSE),
                                   Layer(line("small", i + Pairs), 1, TRUE)>>)

\* The last row is the message that the selector names, if it names one that is
\* not blank, and the scratchpad otherwise.
ShowsLastLine ==
  LET named == {Messages[s] : s \in {memory["selector"][1]} \cap (DOMAIN Messages \ {0})}
      shown == {b \in named : ~IsBlank(Decode(memory[b]))}
      source == IF shown = {} THEN "scratchpad" ELSE CHOOSE b \in shown : TRUE
  IN Shows(Display[2 * Pairs + 1], <<Layer(Decode(memory[source]), 0, FALSE)>>)

\* A page that did not change while the attempt ran is shown as it is, the
\* attempt being the second one or not (engine_windows.go:636-694, renderer.go:59-160).
PageIsShown == frame # None /\ ~changed => ShowsPage

\* So is the line of the scratchpad or of the message (fms_messages_windows.go:10-34).
MessageIsShown == frame # None /\ ~changed => ShowsLastLine

\* A frame mixed of two pages does not last: when the aircraft has written its
\* page, every step comes to show it (engine_windows.go:360-374, 442-503).
TornFrameRepaired ==
  steady ~> [](steady /\ frame # None => ShowsPage /\ ShowsLastLine)
=============================================================================
