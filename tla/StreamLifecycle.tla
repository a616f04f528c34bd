-------------------------- MODULE StreamLifecycle --------------------------
(***************************************************************************)
(* One stream (stream.go) and the goroutines that meet in it: one in Read, *)
(* one in Write, one that closes, resets and sets deadlines, and the       *)
(* session loop, which pushes frames, registers resets, cancels, runs the  *)
(* framer's lambda and collects the stream.  Every critical section is one *)
(* step, and what happens between two of them is a step of its own.  Data  *)
(* is counted in bytes on the writing side and in frames on the reading    *)
(* side; the sorter is in StreamTransfer.                                  *)
(***************************************************************************)
EXTENDS Integers

CONSTANTS
    MaxWritten,     \* bound: bytes of the stream
    MaxFrames,      \* bound: data frames the peer sends before its FIN
    ReadDeadlines,  \* times to which the deadlines are set; 0 is the zero time
    WriteDeadlines,
    LastTime        \* bound: the clock stops here

ASSUME LifecycleAssumption ==
    /\ MaxWritten \in Nat /\ MaxFrames \in Nat
    /\ LastTime \in Nat /\ ReadDeadlines \subseteq Nat /\ WriteDeadlines \subseteq Nat

VARIABLES
    s,          \* the fields of the stream
    reader,     \* the goroutine in Read
    writer,     \* the goroutine in Write
    framer,     \* the session loop inside the framer's lambda
    arrived,    \* frames that arrived in order, the FIN being number MaxFrames + 1
    sent,       \* history: the final offsets in the FIN and in the RST_STREAM
    now

streamVars == <<s, reader, writer, framer, arrived, sent, now>>

NoOffset == -1

Skip == [at |-> "idle", data |-> FALSE]

newStream ==
    [err |-> "nil", cancelled |-> FALSE, collected |-> FALSE,
     finishedReading |-> FALSE, finishedWriting |-> FALSE,
     resetLocally |-> FALSE, resetRemotely |-> FALSE,
     finSent |-> FALSE, rstSent |-> FALSE,
     frames |-> 0, readChan |-> FALSE, readDeadline |-> 0,
     writeOffset |-> 0, dataForWriting |-> 0, writeChan |-> FALSE, writeDeadline |-> 0]

StreamInit ==
    /\ s = newStream
    /\ reader = [at |-> "idle", some |-> FALSE, timer |-> 0]
    /\ writer = [at |-> "idle", timer |-> 0]
    /\ framer = Skip
    /\ arrived = 0
    /\ sent = [fin |-> NoOffset, rst |-> NoOffset]
    /\ now = 0

Expired(deadline) == deadline # 0 /\ now >= deadline
--------------------------------------------------------------------------
(***************************************************************************)
(* Read.  After a look at the flags, the loop decides under the mutex to   *)
(* return, to sleep or to take the frame at the head, which is copied and  *)
(* popped after the mutex is released.                                     *)
(***************************************************************************)
Return == [at |-> "idle", some |-> FALSE, timer |-> 0]

Read ==
    /\ reader.at = "idle"
    /\ ~s.cancelled /\ ~s.resetLocally /\ ~s.finishedReading
    /\ reader' = [reader EXCEPT !.at = "loop"]
    /\ UNCHANGED <<s, writer, framer, arrived, sent, now>>

ReadLoop ==
    /\ reader.at = "loop"
    /\ reader' =
         IF s.frames = 0 /\ reader.some THEN Return
         ELSE IF s.resetLocally \/ s.cancelled THEN Return
         ELSE IF Expired(s.readDeadline) THEN Return
         ELSE IF s.frames > 0 THEN [reader EXCEPT !.at = "copy"]
         ELSE [reader EXCEPT !.at = "asleep", !.timer = s.readDeadline]
    /\ UNCHANGED <<s, writer, framer, arrived, sent, now>>

\* The reader takes a signal, or its timer fires; a woken reader does not look
\* at bytesRead again, since it only sleeps with bytesRead = 0.
ReadWakes ==
    /\ reader.at = "asleep"
    /\ \/ s.readChan /\ s' = [s EXCEPT !.readChan = FALSE]
       \/ Expired(reader.timer) /\ s' = s
    /\ reader' = [reader EXCEPT !.at = "loop", !.timer = 0]
    /\ UNCHANGED <<writer, framer, arrived, sent, now>>

\* The frame is copied and popped.  Either p is full or the loop goes on.
ReadCopy ==
    /\ reader.at = "copy"
    /\ LET fin == arrived = MaxFrames + 1 /\ s.frames = 1
       IN  /\ s' = [s EXCEPT !.frames = @ - 1, !.finishedReading = @ \/ fin]
           /\ \/ reader' = Return
              \/ ~fin /\ reader' = [reader EXCEPT !.at = "loop", !.some = TRUE]
    /\ UNCHANGED <<writer, framer, arrived, sent, now>>
--------------------------------------------------------------------------
(***************************************************************************)
(* Write: rounds of its loop under the mutex.                              *)
(***************************************************************************)
\* Where the writer is after a round of the loop over the stream st.
WriteRound(st) ==
    IF Expired(st.writeDeadline) \/ st.dataForWriting = 0 \/ st.err # "nil"
    THEN [at |-> "idle", timer |-> 0]
    ELSE [at |-> "asleep", timer |-> st.writeDeadline]

\* Data that a timed-out Write left behind is overwritten.
Write(n) ==
    /\ writer.at = "idle"
    /\ ~s.resetLocally /\ s.err = "nil" /\ ~s.finishedWriting
    /\ s.writeOffset + n <= MaxWritten
    /\ s' = [s EXCEPT !.dataForWriting = n]
    /\ writer' = WriteRound(s')
    /\ UNCHANGED <<reader, framer, arrived, sent, now>>

WriteLoop ==
    /\ writer.at = "loop"
    /\ writer' = WriteRound(s)
    /\ UNCHANGED <<s, reader, framer, arrived, sent, now>>

WriteWakes ==
    /\ writer.at = "asleep"
    /\ \/ s.writeChan /\ s' = [s EXCEPT !.writeChan = FALSE]
       \/ Expired(writer.timer) /\ s' = s
    /\ writer' = [at |-> "loop", timer |-> 0]
    /\ UNCHANGED <<reader, framer, arrived, sent, now>>
--------------------------------------------------------------------------
(***************************************************************************)
(* Close, Reset and the deadlines, by another goroutine.                   *)
(***************************************************************************)
finishedWriteAndSentFin == s.finishedWriting /\ s.finSent

CloseStream ==
    /\ ~s.finishedWriting
    /\ s' = [s EXCEPT !.finishedWriting = TRUE]
    /\ UNCHANGED <<reader, writer, framer, arrived, sent, now>>

\* shouldSendReset and onReset, inside Reset and RegisterRemoteError.
SendReset(st) ==
    IF ~st.rstSent /\ ~finishedWriteAndSentFin
    THEN /\ s' = [st EXCEPT !.rstSent = TRUE]
         /\ sent' = [sent EXCEPT !.rst = st.writeOffset]
    ELSE s' = st /\ UNCHANGED sent

\* Mutant: only the writer is woken.
Reset_WriterOnly(e) ==
    /\ ~s.resetLocally
    /\ e = "nil" => reader.at = "idle" /\ writer.at = "idle" /\ s.dataForWriting = 0
    /\ SendReset(IF s.err = "nil"
                 THEN [s EXCEPT !.resetLocally = TRUE, !.err = e, !.writeChan = TRUE]
                 ELSE [s EXCEPT !.resetLocally = TRUE])
    /\ UNCHANGED <<reader, writer, framer, arrived, now>>

\* h2quic calls Reset(nil), after the handler has returned from its last Write
\* and if it never read.
Reset(e) ==
    /\ ~s.resetLocally
    /\ e = "nil" => reader.at = "idle" /\ writer.at = "idle" /\ s.dataForWriting = 0
    /\ SendReset(IF s.err = "nil"
                 THEN [s EXCEPT !.resetLocally = TRUE, !.err = e,
                                !.readChan = TRUE, !.writeChan = TRUE]
                 ELSE [s EXCEPT !.resetLocally = TRUE])
    /\ UNCHANGED <<reader, writer, framer, arrived, now>>

SetReadDeadline(t) ==
    /\ s' = [s EXCEPT !.readDeadline = t, !.readChan = @ \/ t < s.readDeadline]
    /\ UNCHANGED <<reader, writer, framer, arrived, sent, now>>

SetWriteDeadline(t) ==
    /\ s' = [s EXCEPT !.writeDeadline = t, !.writeChan = @ \/ t < s.writeDeadline]
    /\ UNCHANGED <<reader, writer, framer, arrived, sent, now>>
--------------------------------------------------------------------------
(***************************************************************************)
(* The session loop.  While the stream is in the map it handles frames for *)
(* it and offers it room in packets.                                       *)
(***************************************************************************)
InLoop == framer.at = "idle" /\ ~s.collected /\ ~s.cancelled

\* AddStreamFrame: the next frame in order, or one that leaves a gap or is a
\* duplicate, which wakes the reader for nothing.
AddStreamFrame(n) ==
    /\ InLoop
    /\ arrived + n <= MaxFrames + 1
    /\ arrived' = arrived + n
    /\ s' = [s EXCEPT !.frames = @ + n, !.readChan = TRUE]
    /\ UNCHANGED <<reader, writer, framer, sent, now>>

RegisterRemoteError ==
    /\ InLoop
    /\ ~s.resetRemotely
    /\ SendReset(IF s.err = "nil"
                 THEN [s EXCEPT !.resetRemotely = TRUE, !.err = "remote", !.writeChan = TRUE]
                 ELSE [s EXCEPT !.resetRemotely = TRUE])
    /\ UNCHANGED <<reader, writer, framer, arrived, now>>

Cancel ==
    /\ InLoop
    /\ s' = IF s.err = "nil"
            THEN [s EXCEPT !.cancelled = TRUE, !.err = "closed",
                           !.readChan = TRUE, !.writeChan = TRUE]
            ELSE [s EXCEPT !.cancelled = TRUE]
    /\ UNCHANGED <<reader, writer, framer, arrived, sent, now>>

\* The lambda of maybePopNormalFrames, or streamScheduler.send: the length of
\* the data is looked at,
FramerVisit ==
    /\ InLoop
    /\ framer' = [at |-> "data", data |-> s.err = "nil" /\ s.dataForWriting > 0]
    /\ UNCHANGED <<s, reader, writer, arrived, sent, now>>

\* Mutant: the error is not looked at again.
getDataForWriting_NoErr(k) ==
    IF s.dataForWriting = 0 THEN s
    ELSE IF s.dataForWriting > k
         THEN [s EXCEPT !.dataForWriting = @ - k, !.writeOffset = @ + k]
         ELSE [s EXCEPT !.dataForWriting = 0, !.writeChan = TRUE,
                        !.writeOffset = @ + s.dataForWriting]

\* Mutant: the writer is signalled while data is left, not when it is drained.
getDataForWriting_EarlySignal(k) ==
    IF s.err # "nil" \/ s.dataForWriting = 0 THEN s
    ELSE IF s.dataForWriting > k
         THEN [s EXCEPT !.dataForWriting = @ - k, !.writeOffset = @ + k, !.writeChan = TRUE]
         ELSE [s EXCEPT !.dataForWriting = 0, !.writeOffset = @ + s.dataForWriting]

getDataForWriting(k) ==
    IF s.err # "nil" \/ s.dataForWriting = 0 THEN s
    ELSE IF s.dataForWriting > k
         THEN [s EXCEPT !.dataForWriting = @ - k, !.writeOffset = @ + k]
         ELSE [s EXCEPT !.dataForWriting = 0, !.writeChan = TRUE,
                        !.writeOffset = @ + s.dataForWriting]

\* Mutant: a stream without data is passed over.
FramerData_OnlyData(k) ==
    /\ framer.at = "data"
    /\ s' = IF framer.data /\ k > 0 THEN getDataForWriting(k) ELSE s
    /\ framer' = IF k = 0 \/ ~framer.data THEN Skip ELSE [Skip EXCEPT !.at = "fin"]
    /\ UNCHANGED <<reader, writer, arrived, sent, now>>

\* at most k bytes of it are taken, where k is 0 if the packet is full or the
\* windows are closed,
FramerData(k) ==
    /\ framer.at = "data"
    /\ s' = IF framer.data /\ k > 0 THEN getDataForWriting(k) ELSE s
    /\ framer' = IF k = 0 THEN Skip ELSE [Skip EXCEPT !.at = "fin"]
    /\ UNCHANGED <<reader, writer, arrived, sent, now>>

shouldSendFin == s.finishedWriting /\ ~s.finSent /\ s.err = "nil" /\ s.dataForWriting = 0

FramerFin ==
    /\ framer.at = "fin"
    /\ framer' = IF shouldSendFin THEN [Skip EXCEPT !.at = "sentFin"] ELSE Skip
    /\ UNCHANGED <<s, reader, writer, arrived, sent, now>>

\* and the frame with the FIN is built after the mutex was released.
FramerSentFin ==
    /\ framer.at = "sentFin"
    /\ s' = [s EXCEPT !.finSent = TRUE]
    /\ sent' = [sent EXCEPT !.fin = s.writeOffset]
    /\ framer' = Skip
    /\ UNCHANGED <<reader, writer, arrived, now>>

finished ==
    \/ s.cancelled
    \/ s.finishedReading /\ finishedWriteAndSentFin
    \/ s.resetRemotely /\ s.rstSent
    \/ s.finishedReading /\ s.rstSent
    \/ finishedWriteAndSentFin /\ s.resetRemotely

\* garbageCollectStreams takes the stream out of the map.
Collect ==
    /\ InLoop
    /\ finished
    /\ s' = [s EXCEPT !.collected = TRUE]
    /\ UNCHANGED <<reader, writer, framer, arrived, sent, now>>

Tick ==
    /\ now < LastTime
    /\ now' = now + 1
    /\ UNCHANGED <<s, reader, writer, framer, arrived, sent>>

WriteOn == WriteLoop \/ WriteWakes
ReadOn == ReadLoop \/ ReadWakes \/ ReadCopy
Frame == FramerVisit \/ FramerFin \/ FramerSentFin \/ (\E k \in 0..MaxWritten : FramerData(k))

StreamNext ==
    \/ Read
    \/ ReadOn
    \/ \E n \in 1..MaxWritten : Write(n)
    \/ WriteOn
    \/ CloseStream
    \/ \E e \in {"nil", "reset"} : Reset(e)
    \/ \E t \in ReadDeadlines : SetReadDeadline(t)
    \/ \E t \in WriteDeadlines : SetWriteDeadline(t)
    \/ \E n \in {0, 1} : AddStreamFrame(n)
    \/ RegisterRemoteError
    \/ Cancel
    \/ Frame
    \/ Collect
    \/ Tick

\* The windows let some of the data of an offered stream through again and again.
Sends == \E k \in 1..MaxWritten : FramerData(k)

StreamSpec ==
    /\ StreamInit /\ [][StreamNext]_streamVars
    /\ WF_streamVars(Frame) /\ SF_streamVars(Sends)
--------------------------------------------------------------------------
\* The state keeps its type.
StreamTypeOK ==
    /\ s.err \in {"nil", "reset", "remote", "closed"}
    /\ s.frames \in 0..MaxFrames + 1 /\ arrived \in 0..MaxFrames + 1
    /\ s.dataForWriting \in 0..MaxWritten /\ s.writeOffset \in 0..MaxWritten
    /\ s.readDeadline \in {0} \cup ReadDeadlines /\ s.writeDeadline \in {0} \cup WriteDeadlines
    /\ reader.at \in {"idle", "loop", "asleep", "copy"}
    /\ writer.at \in {"idle", "loop", "asleep"}
    /\ framer.at \in {"idle", "data", "fin", "sentFin"}
    /\ sent.fin \in NoOffset..MaxWritten /\ sent.rst \in NoOffset..MaxWritten
    /\ now \in 0..LastTime

(***************************************************************************)
(* No signal to the reader is lost: while Read sleeps and readChan is      *)
(* empty, no frame is readable and the stream is neither cancelled nor     *)
(* reset locally.  The exception is a stream that the peer has reset:      *)
(* RegisterRemoteError does not signal the reader and leaves no room for a *)
(* later error to do so (stream.go:406).  A reader that goes on to copy    *)
(* has a frame to copy from.                                               *)
(***************************************************************************)
ReaderNotForgotten ==
    /\ reader.at = "asleep" /\ ~s.readChan =>
          s.frames = 0 /\ (~(s.cancelled \/ s.resetLocally) \/ s.resetRemotely)
    /\ reader.at = "copy" => s.frames > 0

(***************************************************************************)
(* No signal to the writer is lost: while Write sleeps and writeChan is    *)
(* empty, some of its data is unsent and the stream has no error, whichever*)
(* of the framer, Reset, RegisterRemoteError and Cancel came first.        *)
(***************************************************************************)
WriterNotForgotten ==
    writer.at = "asleep" /\ ~s.writeChan => s.dataForWriting > 0 /\ s.err = "nil"

(***************************************************************************)
(* FIN and RST_STREAM carry the final offset: once one of them is sent no  *)
(* data is sent later, and none waits behind a FIN, although the framer    *)
(* looks at the data, takes it and checks for the FIN in three critical    *)
(* sections, between which Write, Close, Reset and deadlines may come.     *)
(***************************************************************************)
FinalOffsets ==
    /\ StreamTypeOK
    /\ s.finSent => sent.fin = s.writeOffset /\ s.dataForWriting = 0
    /\ s.rstSent => sent.rst = s.writeOffset

(***************************************************************************)
(* The write side of a closed or reset stream ends: FIN or RST_STREAM are  *)
(* sent, unless the session closes, also when a Write timed out and left   *)
(* data behind.                                                            *)
(***************************************************************************)
WriteSideEnds ==
    (s.finishedWriting \/ s.resetLocally \/ s.resetRemotely)
        ~> (s.finSent \/ s.rstSent \/ s.cancelled)
============================================================================
