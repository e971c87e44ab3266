------------------------------- MODULE Framing -------------------------------
(***************************************************************************)
(* The length-prefixed framing of packages/roundtable/broker/framing.ts on *)
(* one direction of a socket.  writeMessage appends a frame to the byte    *)
(* stream; the stream arrives in chunks of any size; the reader keeps what *)
(* has arrived in a buffer and hands out every complete frame.             *)
(*                                                                         *)
(* Bytes are counted, not represented: the buffer is what lies between two *)
(* offsets of the stream.  Reading a length anywhere but at the start of a *)
(* frame yields any number.  A chunk is handled in one turn of the event   *)
(* loop, as one Data step and then one step per turn of the reader's loop; *)
(* the environment does nothing in between that the reader could see.      *)
(***************************************************************************)
EXTENDS Integers, Sequences

CONSTANTS
  N,          \* frames written
  Start       \* Start[i]: the offset at which frame i begins; Start[N + 1]: the end

HEADER == 4

\* A frame begins where the one before it ends, and holds a payload of one byte
\* or more: JSON.stringify returns no empty text.
ASSUME FramesAssumption ==
  /\ N \in Nat
  /\ Start \in [1 .. N + 1 -> Nat]
  /\ Start[1] = 0
  /\ \A i, j \in 1 .. N + 1 : i < j => Start[i] + HEADER < Start[j]

\* The payload's length in bytes, as written in the header.
Size[i \in 1 .. N] == Start[i + 1] - Start[i] - HEADER

VARIABLES
  kind,       \* kind[i]: "ok", "unparsable", or "refused" by the handler
  written,    \* frames written so far
  arrived,    \* bytes handed to the reader
  taken,      \* of these, bytes no longer in its buffer
  inLoop,     \* the reader is in its while loop
  delivered,  \* what onMessage was called with: frame numbers, 0 for junk
  open        \* the socket has not been destroyed by onError

framingVars == <<kind, written, arrived, taken, inLoop, delivered, open>>

FramingInit ==
  /\ kind \in [1 .. N -> {"ok", "unparsable", "refused"}]
  /\ written = 0 /\ arrived = 0 /\ taken = 0
  /\ inLoop = FALSE
  /\ delivered = <<>>
  /\ open = TRUE

Buffered == arrived - taken

\* buffer.readUInt32BE(0).
LengthsRead == IF \E i \in 1 .. N : Start[i] = taken
                 THEN {Size[i] : i \in {j \in 1 .. N : Start[j] = taken}}
                 ELSE 0 .. Start[N + 1]

\* The frame whose payload lies in the len bytes after the header, or 0.
FrameTaken(len) ==
  IF \E i \in 1 .. N : Start[i] = taken /\ Size[i] = len
    THEN CHOOSE i \in 1 .. N : Start[i] = taken /\ Size[i] = len
    ELSE 0

-----------------------------------------------------------------------------
\* writeMessage: header and payload in one write.
WriteMessage ==
  /\ written < N
  /\ written' = written + 1
  /\ UNCHANGED <<kind, arrived, taken, inLoop, delivered, open>>

\* The socket's "data", with n bytes.
Data(n) ==
  /\ open /\ ~inLoop
  /\ arrived + n <= Start[written + 1]
  /\ arrived' = arrived + n
  /\ inLoop' = TRUE
  /\ UNCHANGED <<kind, written, taken, delivered, open>>

\* Variants: a buffer cut without its header, a frame handed out before all of
\* it has arrived, and a reader that looks for one frame per chunk.
CutAfter(len) == taken + len
ContinuesOnce == FALSE

\* What is left of the buffer once a frame is taken.
Cut(len) == taken + HEADER + len
Complete(len) == Buffered >= HEADER /\ Buffered >= HEADER + len
\* The loop goes on after a frame that was handled.
Continues == TRUE

\* A turn of the loop that takes a frame.
TakeFrame(len) ==
  LET frame == FrameTaken(len) IN
  /\ inLoop /\ Complete(len)
  /\ taken' = Cut(len)
  /\ IF frame = 0 \/ kind[frame] # "unparsable"
       THEN delivered' = Append(delivered, frame)
       ELSE UNCHANGED delivered
  /\ IF frame # 0 /\ kind[frame] = "ok"
       THEN inLoop' = Continues /\ UNCHANGED open
       ELSE inLoop' = FALSE /\ open' = FALSE
  /\ UNCHANGED <<kind, written, arrived>>

\* The loop ends: no header, or not yet all of its frame.
AwaitMore ==
  /\ inLoop
  /\ Buffered < HEADER \/ \E len \in LengthsRead : ~Complete(len)
  /\ inLoop' = FALSE
  /\ UNCHANGED <<kind, written, arrived, taken, delivered, open>>

FramingNext ==
  \/ WriteMessage
  \/ \E n \in 1 .. Start[N + 1] : Data(n)
  \/ \E len \in LengthsRead : TakeFrame(len)
  \/ AwaitMore

FramingSpec == FramingInit /\ [][FramingNext]_framingVars

-----------------------------------------------------------------------------

\* However the stream is cut into chunks, the messages come out in order, each
\* once, none of them made up from the wrong bytes (createMessageReader).
Delivery == INSTANCE OrderedDelivery WITH sent <- written, handled <- delivered
ImplementsDelivery == Delivery!DeliverySpec

\* Between chunks no complete frame sits in the buffer of an open socket: a
\* request never waits for the bytes of the next one.
NothingStuck ==
  open /\ ~inLoop =>
    \A i \in 1 .. N : Start[i + 1] <= arrived => i \in 1 .. Len(delivered)
=============================================================================
