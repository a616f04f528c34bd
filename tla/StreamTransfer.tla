-------------------------- MODULE StreamTransfer --------------------------
(***************************************************************************)
(* One direction of one stream, end to end: the writer's half of stream.go *)
(* and the framer (stream_framer.go, streamScheduler.send), packets that   *)
(* are lost, delayed, reordered and duplicated, and the reader's half with *)
(* its frame sorter.  A retransmission may cut a frame in two.             *)
(***************************************************************************)
EXTENDS StreamFrameSorter

CONSTANTS
    StreamLength,       \* bound: bytes the application writes
    MaxRetransmissions, \* bound: frames queued for retransmission
    LateClose           \* TRUE: the application closes after its data was packed

ASSUME TransferAssumption ==
    /\ StreamLength \in Nat
    /\ MaxRetransmissions \in Nat
    /\ LateClose \in BOOLEAN
    /\ MaxByteCount \in Nat /\ MaxByteCount > StreamLength
    /\ MaxStreamFrameSorterGaps \in Nat

VARIABLES
    w,       \* the writing side: stream fields and the framer's queue
    wire,    \* every frame that was put in a packet; it may arrive any number of times
    tracked, \* frames in packets that the sender did not declare lost yet
    losses,  \* frames declared lost so far
    q,       \* the frameQueue of the reading stream
    r,       \* the reading side: readOffset, finishedReading, the frame being read
    got,     \* history: the bytes that arrived
    err      \* the error that closed the session, or "ok"

vars == <<w, wire, tracked, losses, q, r, got, err>>

NoFrame == Frame(0, 0, FALSE)
Bytes(frame) == frame.Offset .. EndOf(frame) - 1

Init ==
    /\ w = [written |-> 0, writeOffset |-> 0, finishedWriting |-> FALSE, finSent |-> FALSE,
            retransmissionQueue |-> <<>>]
    /\ wire = {} /\ tracked = {} /\ losses = 0
    /\ q = newStreamFrameSorter
    /\ r = [readOffset |-> 0, finishedReading |-> FALSE, consumed |-> FALSE, frame |-> NoFrame]
    /\ got = {}
    /\ err = "ok"
--------------------------------------------------------------------------
(***************************************************************************)
(* Write returns when all its bytes are packed, so a new call finds        *)
(* dataForWriting empty.                                                   *)
(***************************************************************************)
Write(n) ==
    /\ ~ w.finishedWriting
    /\ w.written = w.writeOffset
    /\ w.written + n <= StreamLength
    /\ w' = [w EXCEPT !.written = @ + n]
    /\ UNCHANGED <<wire, tracked, losses, q, r, got, err>>

Close ==
    /\ ~ w.finishedWriting
    /\ LateClose => w.written = w.writeOffset
    /\ w' = [w EXCEPT !.finishedWriting = TRUE]
    /\ UNCHANGED <<wire, tracked, losses, q, r, got, err>>

\* Mutant: the FIN only goes with data.
shouldSendFin_WithData(ww, left) ==
    ww.finishedWriting /\ ~ ww.finSent /\ left = 0 /\ ww.writeOffset < ww.written

shouldSendFin(ww, left) == ww.finishedWriting /\ ~ ww.finSent /\ left = 0

SendFrame(frame) ==
    /\ wire' = wire \cup {frame}
    /\ tracked' = tracked \cup {frame}

(***************************************************************************)
(* A new frame with up to n bytes: n is what the packet and the flow       *)
(* control windows leave.                                                  *)
(***************************************************************************)
PopNormalFrame(n) ==
    LET left == w.written - w.writeOffset
        len  == IF n < left THEN n ELSE left
        fin  == shouldSendFin(w, left - len)
    IN  /\ err = "ok"
        /\ len > 0 \/ fin
        /\ SendFrame(Frame(w.writeOffset, len, fin))
        /\ w' = [w EXCEPT !.writeOffset = @ + len, !.finSent = @ \/ fin]
        /\ UNCHANGED <<losses, q, r, got, err>>

AddFrameForRetransmission(frame) ==
    /\ losses < MaxRetransmissions
    /\ w' = [w EXCEPT !.retransmissionQueue = Append(@, frame)]
    /\ tracked' = tracked \ {frame}
    /\ losses' = losses + 1
    /\ UNCHANGED <<wire, q, r, got, err>>

\* maybeSplitOffFrame: the first n bytes, and what is left in the queue.
SplitHead(frame, n) == Frame(frame.Offset, n, FALSE)

PopRetransmission(n) ==
    LET frame == Head(w.retransmissionQueue)
        split == n < frame.Len
    IN  /\ err = "ok"
        /\ w.retransmissionQueue # <<>>
        /\ SendFrame(IF split THEN SplitHead(frame, n) ELSE frame)
        /\ w' = [w EXCEPT !.retransmissionQueue =
                     (IF split THEN <<CutFront(frame, n)>> ELSE <<>>) \o Tail(@)]
        /\ UNCHANGED <<losses, q, r, got, err>>
--------------------------------------------------------------------------
\* A frame of a session that is still open reaches the receiver.
Arrives(frame) ==
    /\ err = "ok"
    /\ got' = got \cup Bytes(frame)

\* session.handleStreamFrame and stream.AddStreamFrame.
Receive(frame) ==
    LET result == Push(q, frame)
    IN  /\ Arrives(frame)
        /\ UNCHANGED <<w, wire, tracked, losses, r>>
        /\ q' = result.sorter
        /\ err' = IF result.err = "DuplicateStreamData" THEN "ok" ELSE result.err

(***************************************************************************)
(* The two critical sections of stream.Read.  The first takes the head     *)
(* frame, of which n bytes are copied; the second pops it when it is used  *)
(* up.  Push may run in between.                                           *)
(***************************************************************************)
Read(n) ==
    LET frame == HeadFrame(q)
        left  == EndOf(frame) - r.readOffset
    IN  /\ ~ r.finishedReading
        /\ ~ r.consumed
        /\ HasHead(q)
        /\ n \in 0 .. left
        /\ n > 0 \/ left = 0
        /\ r' = [r EXCEPT !.readOffset = @ + n, !.consumed = (n = left), !.frame = frame]
        /\ UNCHANGED <<w, wire, tracked, losses, q, got, err>>

\* Mutant: the stream ends once a FIN is queued.
PopFrame_AnyFin ==
    /\ r.consumed
    /\ q' = Pop(q)
    /\ r' = [r EXCEPT !.consumed = FALSE, !.frame = NoFrame,
                      !.finishedReading = \E o \in DOMAIN q.queuedFrames : q.queuedFrames[o].FinBit]
    /\ UNCHANGED <<w, wire, tracked, losses, got, err>>

PopFrame ==
    /\ r.consumed
    /\ q' = Pop(q)
    /\ r' = [r EXCEPT !.consumed = FALSE, !.finishedReading = r.frame.FinBit, !.frame = NoFrame]
    /\ UNCHANGED <<w, wire, tracked, losses, got, err>>
--------------------------------------------------------------------------
Next ==
    \/ \E n \in 1 .. StreamLength : Write(n)
    \/ Close
    \/ \E n \in 1 .. StreamLength : PopNormalFrame(n)
    \/ \E frame \in tracked : AddFrameForRetransmission(frame)
    \/ \E n \in 1 .. StreamLength : PopRetransmission(n)
    \/ \E frame \in wire : Receive(frame)
    \/ \E n \in 0 .. StreamLength : Read(n)
    \/ PopFrame

Spec == Init /\ [][Next]_vars

Offsets == 0 .. StreamLength
Frames == [Offset : Offsets, Len : Offsets, FinBit : BOOLEAN]

(***************************************************************************)
(* The application closes in the end, the session loop keeps packing, what *)
(* was sent and did not arrive is sent until it does, and the application  *)
(* keeps reading.                                                          *)
(***************************************************************************)
FairSpec ==
    /\ Spec
    /\ WF_vars(Close)
    /\ WF_vars(\E n \in 1 .. StreamLength : PopNormalFrame(n) \/ PopRetransmission(n))
    /\ WF_got(\E frame \in wire : Arrives(frame))
    /\ WF_vars(\E frame \in wire : frame.FinBit /\ Receive(frame))
    /\ WF_vars((\E n \in 0 .. StreamLength : Read(n)) \/ PopFrame)
--------------------------------------------------------------------------
(***************************************************************************)
(* The type invariant.                                                     *)
(***************************************************************************)
TypeOK ==
    /\ w.written \in Offsets /\ w.writeOffset \in 0 .. w.written
    /\ w.finishedWriting \in BOOLEAN /\ w.finSent \in BOOLEAN
    /\ w.retransmissionQueue \in Seq(Frames)
    /\ wire \subseteq Frames /\ tracked \subseteq Frames
    /\ q.readPosition \in Offsets
    /\ \A o \in DOMAIN q.queuedFrames : q.queuedFrames[o] \in Frames
    /\ q.gaps \in Seq([Start : Offsets, End : Offsets \cup {MaxByteCount}])
    /\ r.readOffset \in Offsets
    /\ got \subseteq Offsets

(***************************************************************************)
(* The gaps of the sorter are exactly the bytes that did not arrive, as    *)
(* sorted, separate, non-empty intervals, however frames of different cuts *)
(* overlap (Push); the state keeps its type.                               *)
(***************************************************************************)
GapsExact ==
    /\ TypeOK
    /\ err = "ok" =>
          \A b \in 0 .. MaxByteCount - 1 :
              b \notin got <=> \E i \in DOMAIN q.gaps : b \in q.gaps[i].Start .. q.gaps[i].End - 1
    /\ \A i \in DOMAIN q.gaps : q.gaps[i].Start < q.gaps[i].End
    /\ \A i, j \in DOMAIN q.gaps : i < j => q.gaps[i].End < q.gaps[j].Start

(***************************************************************************)
(* What Read holds across its two critical sections is still the head      *)
(* frame when it pops it, the read offset lies within that frame (the      *)
(* "BUG: readPosInFrame" check of Read never fires), and a byte that       *)
(* arrived is there when it is next: whatever frames Push cut or deleted,  *)
(* one of those it kept starts at the read position.                       *)
(***************************************************************************)
ReadsItsHead ==
    /\ r.consumed => HasHead(q) /\ HeadFrame(q) = r.frame
    /\ HasHead(q) => r.readOffset \in q.readPosition .. EndOf(HeadFrame(q))
    /\ err = "ok" /\ q.readPosition \in got => HasHead(q)

(***************************************************************************)
(* The abstract stream: what the two applications see.                     *)
(***************************************************************************)
Abstract == INSTANCE ReliableStream WITH
    written <- w.written, closed <- w.finishedWriting,
    read <- r.readOffset, eof <- r.finishedReading

(***************************************************************************)
(* Reassembly implements the reliable stream: bytes in order, the end of   *)
(* the stream after the last byte that was written (Read, Push).           *)
(***************************************************************************)
Reliable == Abstract!Spec

(***************************************************************************)
(* The reader of a stream that was closed gets to its end, unless the      *)
(* session fails.                                                          *)
(***************************************************************************)
EventuallyRead ==
    <>((r.finishedReading /\ r.readOffset = w.written) \/ err # "ok")

(***************************************************************************)
(* stream.go says that a stream "assembles the data from StreamFrames",    *)
(* and the tests of Read that io.EOF comes after all of the data: the end  *)
(* of the stream is only read when every written byte was.                 *)
(***************************************************************************)
EOFAfterAllData == r.finishedReading => r.readOffset = w.written
==========================================================================
