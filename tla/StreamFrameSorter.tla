------------------------ MODULE StreamFrameSorter ------------------------
(***************************************************************************)
(* The reassembly buffer of a stream (stream_frame_sorter.go).  A byte is  *)
(* known by its offset, so a frame is the interval it covers:              *)
(* Offset .. Offset + Len - 1, with its FinBit.  queuedFrames is a         *)
(* function from offsets to frames, gaps a sequence of intervals whose End *)
(* is exclusive; the last one ends at MaxByteCount.                        *)
(***************************************************************************)
EXTENDS Integers, Sequences, FiniteSetsExt

CONSTANTS
    MaxByteCount,              \* above every offset that is used
    MaxStreamFrameSorterGaps

Gap(start, end) == [Start |-> start, End |-> end]
Frame(offset, len, fin) == [Offset |-> offset, Len |-> len, FinBit |-> fin]
EndOf(frame) == frame.Offset + frame.Len

Sorter(queued, position, gaps) ==
    [queuedFrames |-> queued, readPosition |-> position, gaps |-> gaps]

newStreamFrameSorter == Sorter(<<>>, 0, <<Gap(0, MaxByteCount)>>)

CutFront(frame, n) == Frame(frame.Offset + n, frame.Len - n, frame.FinBit)

StartInGap(frame, gap) ==
    IF frame.Offset < gap.Start THEN CutFront(frame, gap.Start - frame.Offset) ELSE frame

\* The cut leaves FinBit as it was.
EndInGap(frame, gap) ==
    IF EndOf(frame) > gap.End THEN [frame EXCEPT !.Len = gap.End - frame.Offset] ELSE frame

\* Mutant: the part of the last gap behind the frame is dropped.
FillGaps_DropsRest(gaps, first, last, frame) ==
    SubSeq(gaps, 1, first - 1)
    \o (IF frame.Offset > gaps[first].Start THEN <<Gap(gaps[first].Start, frame.Offset)>> ELSE <<>>)
    \o SubSeq(gaps, last + (IF first = last THEN 0 ELSE 1), Len(gaps))

(***************************************************************************)
(* The frame, cut to start in gap number first and to end in gap number    *)
(* last, leaves what it does not cover of those two.                       *)
(***************************************************************************)
FillGaps(gaps, first, last, frame) ==
    SubSeq(gaps, 1, first - 1)
    \o (IF frame.Offset > gaps[first].Start THEN <<Gap(gaps[first].Start, frame.Offset)>> ELSE <<>>)
    \o (IF EndOf(frame) < gaps[last].End THEN <<Gap(EndOf(frame), gaps[last].End)>> ELSE <<>>)
    \o SubSeq(gaps, last + 1, Len(gaps))

Put(queued, frame) ==
    [o \in DOMAIN queued \cup {frame.Offset} |-> IF o = frame.Offset THEN frame ELSE queued[o]]

\* The queued frames that Push deletes: those right behind the gaps it closes.
Covered(gaps, first, last) == {gaps[i].End : i \in first .. last - 1}

\* The first gap that is not before the frame, the last that starts before its end.
FirstGap(gaps, frame) ==
    Min({i \in DOMAIN gaps : EndOf(frame) <= gaps[i].Start \/ frame.Offset <= gaps[i].End})
LastGap(gaps, frame) == Max({i \in DOMAIN gaps : gaps[i].Start < EndOf(frame)})

Insert(q, frame) ==
    LET first == FirstGap(q.gaps, frame)
        last  == LastGap(q.gaps, frame)
        cut   == EndInGap(StartInGap(frame, q.gaps[first]), q.gaps[last])
        gaps  == FillGaps(q.gaps, first, last, cut)
        kept  == [o \in DOMAIN q.queuedFrames \ Covered(q.gaps, first, last) |-> q.queuedFrames[o]]
    IN  IF EndOf(frame) <= q.gaps[first].Start
        THEN [sorter |-> q, err |-> "DuplicateStreamData"]
        ELSE IF Len(gaps) > MaxStreamFrameSorterGaps
        THEN [sorter |-> Sorter(kept, q.readPosition, gaps),
              err |-> "TooManyGapsInReceivedStreamData"]
        ELSE [sorter |-> Sorter(Put(kept, cut), q.readPosition, gaps), err |-> "ok"]

\* Mutant: a longer frame at the same offset takes the place of the old one.
Push_Replaces(q, frame) ==
    IF frame.Offset \notin DOMAIN q.queuedFrames /\ frame.Len > 0 THEN Insert(q, frame)
    ELSE IF frame.Len = 0 THEN [sorter |-> [q EXCEPT !.queuedFrames = Put(@, frame)], err |-> "ok"]
    ELSE LET old == q.queuedFrames[frame.Offset]
         IN  IF frame.Len <= old.Len
             THEN [sorter |-> q, err |-> "DuplicateStreamData"]
             ELSE [Insert(q, CutFront(frame, old.Len)) EXCEPT !.sorter.queuedFrames = Put(@, frame)]

Push(q, frame) ==
    IF frame.Len = 0
    THEN IF frame.FinBit
         THEN [sorter |-> [q EXCEPT !.queuedFrames = Put(@, frame)], err |-> "ok"]
         ELSE [sorter |-> q, err |-> "EmptyStreamData"]
    ELSE IF frame.Offset \notin DOMAIN q.queuedFrames THEN Insert(q, frame)
    ELSE LET old == q.queuedFrames[frame.Offset]
         IN  IF frame.Len <= old.Len
             THEN [sorter |-> q, err |-> "DuplicateStreamData"]
             ELSE Insert(q, CutFront(frame, old.Len))

HasHead(q) == q.readPosition \in DOMAIN q.queuedFrames
HeadFrame(q) == q.queuedFrames[q.readPosition]

Pop(q) ==
    IF ~ HasHead(q) THEN q
    ELSE Sorter([o \in DOMAIN q.queuedFrames \ {q.readPosition} |-> q.queuedFrames[o]],
                q.readPosition + HeadFrame(q).Len, q.gaps)
==========================================================================
