--------------------------- MODULE FlowControl ---------------------------
(***************************************************************************)
(* Two-level flow control (internal/flowcontrol) of the data that one      *)
(* endpoint sends to the other: the flowControllers of the sender (snd)    *)
(* and of the receiver (rcv), for every stream and for the connection,     *)
(* whose ID is 0.  Stream frames and WINDOW_UPDATE frames travel in        *)
(* packets that are lost, retransmitted, duplicated and reordered.         *)
(***************************************************************************)
EXTENDS Integers, FiniteSets, FiniteSetsExt

CONSTANTS
    Streams,        \* the open streams
    Contributing,   \* the streams that count for the connection (not 1 and 3)
    StreamWindow, MaxStreamWindow,  \* receive window of a stream, maximal increment
    ConnWindow, MaxConnWindow,      \* the same for the connection
    Target,         \* bound: bytes the application sends on each stream
    AllowReset      \* TRUE: the sender may reset streams

ASSUME FlowAssumption ==
    /\ Streams \subseteq Nat \ {0}
    /\ Contributing \subseteq Streams /\ IsFiniteSet(Contributing)
    /\ StreamWindow \in Nat /\ ConnWindow \in Nat
    /\ MaxStreamWindow \in Nat /\ MaxConnWindow \in Nat
    /\ StreamWindow <= MaxStreamWindow /\ ConnWindow <= MaxConnWindow
    /\ Target \in Nat
    /\ AllowReset \in BOOLEAN

\* Half of a window is at least a byte, so that a window that is used up is due
\* for an update: the windows in protocol/server_parameters.go are of kilobytes.
ASSUME WindowAssumption == StreamWindow >= 2 /\ ConnWindow >= 2

Conn == 0
Ids == Streams \cup {Conn}

VARIABLES
    snd,         \* sender: bytesSent and sendWindow (0: still the negotiated one)
    rcv,         \* receiver: its half of every flowController
    updates,     \* WINDOW_UPDATE frames sent: pairs of ID and offset
    blocked,     \* a BLOCKED frame was sent
    peerBlocked, \* a BLOCKED frame arrived: the next window updates are forced
    wasReset,    \* streams whose RST_STREAM was sent
    gotReset,    \* streams whose RST_STREAM arrived
    status       \* "open" or the error that closed the session

vars == <<snd, rcv, updates, blocked, peerBlocked, wasReset, gotReset, status>>

WindowOf(id) == IF id = Conn THEN ConnWindow ELSE StreamWindow
MaxWindowOf(id) == IF id = Conn THEN MaxConnWindow ELSE MaxStreamWindow
--------------------------------------------------------------------------
(***************************************************************************)
(* The methods of one flowController c.                                    *)
(***************************************************************************)
getSendWindow(id, c) == IF c.sendWindow = 0 THEN WindowOf(id) ELSE c.sendWindow

FlowSendWindowSize(id, c) ==
    IF c.bytesSent > getSendWindow(id, c) THEN 0 ELSE getSendWindow(id, c) - c.bytesSent

UpdateSendWindow(c, offset) ==
    [c EXCEPT !.sendWindow = IF offset > @ THEN offset ELSE @]

\* Mutant: a window that is just used up counts as a violation.
CheckFlowControlViolation_AtEnd(c) == c.highestReceived >= c.receiveWindow

CheckFlowControlViolation(c) == c.highestReceived > c.receiveWindow

Increment(c, byteOffset) ==
    IF byteOffset > c.highestReceived THEN byteOffset - c.highestReceived ELSE 0

IncrementHighestReceived(c, increment) == [c EXCEPT !.highestReceived = @ + increment]

\* timed: lastWindowUpdateTime is set.
AddBytesRead(c, n) ==
    [c EXCEPT !.timed = @ \/ c.bytesRead = 0, !.bytesRead = @ + n]

\* The difference is unsigned: it is large once bytesRead has passed the window.
UpdateNecessary(c) ==
    /\ c.bytesRead <= c.receiveWindow
    /\ c.receiveWindow - c.bytesRead < c.receiveWindowIncrement \div 2

\* fast: the last update was less than two RTTs ago.
maybeAdjustWindowIncrement(id, c, fast) ==
    [c EXCEPT !.receiveWindowIncrement =
        IF c.timed /\ fast
        THEN IF 2 * @ < MaxWindowOf(id) THEN 2 * @ ELSE MaxWindowOf(id)
        ELSE @]

MaybeUpdateWindow(id, c, fast) ==
    IF UpdateNecessary(c)
    THEN LET a == maybeAdjustWindowIncrement(id, c, fast)
         IN  [a EXCEPT !.timed = TRUE, !.receiveWindow = a.bytesRead + a.receiveWindowIncrement]
    ELSE c

\* The increment that MaybeUpdateWindow returns; 0 when an update did not change it.
NewIncrement(id, c, fast) ==
    LET a == maybeAdjustWindowIncrement(id, c, fast)
    IN  IF UpdateNecessary(c) /\ a.receiveWindowIncrement = c.receiveWindowIncrement
        THEN 0
        ELSE IF UpdateNecessary(c) THEN a.receiveWindowIncrement ELSE c.receiveWindowIncrement

EnsureMinimumWindowIncrement(c, inc) ==
    IF inc > c.receiveWindowIncrement
    THEN [c EXCEPT !.receiveWindowIncrement = IF inc < MaxConnWindow THEN inc ELSE MaxConnWindow,
                   !.timed = FALSE]
    ELSE c
--------------------------------------------------------------------------
NewReceiver(id) ==
    [bytesRead |-> 0, highestReceived |-> 0, receiveWindow |-> WindowOf(id),
     receiveWindowIncrement |-> WindowOf(id), timed |-> FALSE]

Init ==
    /\ snd = [id \in Ids |-> [bytesSent |-> 0, sendWindow |-> 0]]
    /\ rcv = [id \in Ids |-> NewReceiver(id)]
    /\ updates = {}
    /\ blocked = FALSE /\ peerBlocked = FALSE
    /\ wasReset = {} /\ gotReset = {}
    /\ status = "open"

\* Mutant: the window of the connection is not looked at.
SendWindowSize_StreamOnly(id) == FlowSendWindowSize(id, snd[id])

SendWindowSize(id) ==
    LET stream == FlowSendWindowSize(id, snd[id])
        conn   == FlowSendWindowSize(Conn, snd[Conn])
    IN  IF id \in Contributing /\ conn < stream THEN conn ELSE stream

\* The flow controllers that an amount of stream id counts for.
Counts(id) == IF id \in Contributing THEN {id, Conn} ELSE {id}

(***************************************************************************)
(* The framer packs n bytes of stream id, the last ones with the FIN, and  *)
(* a BLOCKED frame when a window is used up.                               *)
(***************************************************************************)
Send(id, n, fin) ==
    /\ status = "open"
    /\ id \notin wasReset
    /\ n <= SendWindowSize(id)
    /\ snd[id].bytesSent + n <= Target
    /\ fin => snd[id].bytesSent + n = Target
    /\ snd' = [i \in Ids |-> IF i \in Counts(id) THEN [snd[i] EXCEPT !.bytesSent = @ + n]
                             ELSE snd[i]]
    /\ blocked' = (\/ blocked
                   \/ FlowSendWindowSize(Conn, snd'[Conn]) = 0
                   \/ ~fin /\ n = SendWindowSize(id))
    /\ UNCHANGED <<rcv, updates, peerBlocked, wasReset, gotReset, status>>

\* stream.Reset: the RST_STREAM frame carries the write offset.
Reset(id) ==
    /\ AllowReset
    /\ status = "open"
    /\ id \notin wasReset
    /\ wasReset' = wasReset \cup {id}
    /\ UNCHANGED <<snd, rcv, updates, blocked, peerBlocked, gotReset, status>>
--------------------------------------------------------------------------
(***************************************************************************)
(* What UpdateHighestReceived and ResetStream of the manager do when they  *)
(* learn that stream id reaches byteOffset.                                *)
(***************************************************************************)
\* Mutant: a frame that arrives late counts again for the connection.
Received_Again(id, byteOffset) ==
    LET c == IncrementHighestReceived(rcv[id], Increment(rcv[id], byteOffset))
    IN  [i \in Ids |-> IF i = id THEN c
                       ELSE IF i \in Counts(id) /\ ~CheckFlowControlViolation(c)
                       THEN IncrementHighestReceived(rcv[i], byteOffset)
                       ELSE rcv[i]]

Received(id, byteOffset) ==
    LET c == IncrementHighestReceived(rcv[id], Increment(rcv[id], byteOffset))
    IN  [i \in Ids |-> IF i = id THEN c
                       ELSE IF i \in Counts(id) /\ ~CheckFlowControlViolation(c)
                       THEN IncrementHighestReceived(rcv[i], Increment(rcv[id], byteOffset))
                       ELSE rcv[i]]

Verdict(id, after) ==
    IF \E i \in Counts(id) : CheckFlowControlViolation(after[i])
    THEN "FlowControlReceivedTooMuchData" ELSE "open"

\* A stream frame that ends at byteOffset arrives, in any order.
ReceiveFrame(id, byteOffset) ==
    /\ status = "open"
    /\ byteOffset <= snd[id].bytesSent
    /\ rcv' = Received(id, byteOffset)
    /\ status' = Verdict(id, rcv')
    /\ UNCHANGED <<snd, updates, blocked, peerBlocked, wasReset, gotReset>>

ReceiveReset(id) ==
    /\ status = "open"
    /\ id \in wasReset
    /\ rcv' = Received(id, snd[id].bytesSent)
    /\ gotReset' = gotReset \cup {id}
    /\ status' = IF snd[id].bytesSent < rcv[id].highestReceived
                 THEN "StreamDataAfterTermination" ELSE Verdict(id, rcv')
    /\ UNCHANGED <<snd, updates, blocked, peerBlocked, wasReset>>

\* stream.Read: nothing counts as read once the stream was reset remotely.
Read(id, n) ==
    /\ status = "open"
    /\ id \notin gotReset
    /\ rcv[id].bytesRead + n <= rcv[id].highestReceived
    /\ rcv' = [i \in Ids |-> IF i \in Counts(id) THEN AddBytesRead(rcv[i], n) ELSE rcv[i]]
    /\ UNCHANGED <<snd, updates, blocked, peerBlocked, wasReset, gotReset, status>>
--------------------------------------------------------------------------
(***************************************************************************)
(* GetWindowUpdates(force): the streams in the set fast, or the            *)
(* connection, had their last update less than two RTTs ago.  The order in *)
(* which the map of streams is ranged over does not matter: each stream    *)
(* raises the increment of the connection to at least 3/2 of its own.      *)
(***************************************************************************)
Due(force) == {id \in Streams : force \/ UpdateNecessary(rcv[id])}

RaisedConn(force, fast) ==
    LET raises == {(3 * NewIncrement(id, rcv[id], id \in fast)) \div 2 :
                      id \in Due(force) \cap Contributing}
    IN  EnsureMinimumWindowIncrement(rcv[Conn], Max(raises \cup {0}))

Updated(force, fast) ==
    [id \in Ids |-> MaybeUpdateWindow(id, IF id = Conn THEN RaisedConn(force, fast) ELSE rcv[id],
                                      id \in fast)]

\* Mutant: the window of the connection is only told when the peer is blocked.
UpdateFrames_StreamsOnly(force, after) ==
    {<<id, after[id].receiveWindow>> :
        id \in {i \in Ids : force \/ (i # Conn /\ after[i].receiveWindow # rcv[i].receiveWindow)}}

\* A forced update tells every window, the others only those that moved.
UpdateFrames(force, after) ==
    {<<id, after[id].receiveWindow>> :
        id \in {i \in Ids : force \/ after[i].receiveWindow # rcv[i].receiveWindow}}

\* sendPacket gets the window updates; when it finds none, ackRemainingPaths
\* asks again, forcing them if the peer is blocked, and forgets that it is.
GetWindowUpdates(force, fast) ==
    /\ status = "open"
    /\ force => peerBlocked
    /\ rcv' = Updated(force, fast)
    /\ updates' = updates \cup UpdateFrames(force, rcv')
    /\ \/ /\ ~force
          /\ UNCHANGED peerBlocked
       \/ /\ force = peerBlocked \/ rcv' # rcv
          /\ peerBlocked' = FALSE
    /\ UNCHANGED <<snd, blocked, wasReset, gotReset, status>>

\* A WINDOW_UPDATE frame arrives, in any order and perhaps again.
UpdateWindow(id, offset) ==
    /\ status = "open"
    /\ <<id, offset>> \in updates
    /\ snd' = [snd EXCEPT ![id] = UpdateSendWindow(@, offset)]
    /\ UNCHANGED <<rcv, updates, blocked, peerBlocked, wasReset, gotReset, status>>

Timed == {id \in Ids : rcv[id].timed}

ReceiveBlocked ==
    /\ status = "open"
    /\ blocked
    /\ peerBlocked' = TRUE
    /\ UNCHANGED <<snd, rcv, updates, blocked, wasReset, gotReset, status>>

Next ==
    \/ \E id \in Streams, n \in 1..Target, fin \in BOOLEAN : Send(id, n, fin)
    \/ \E id \in Streams, n \in 1..Target : ReceiveFrame(id, n) \/ Read(id, n)
    \/ \E id \in Streams : Reset(id) \/ ReceiveReset(id)
    \/ \E force \in BOOLEAN, fast \in SUBSET Timed : GetWindowUpdates(force, fast)
    \/ \E u \in updates : UpdateWindow(u[1], u[2])
    \/ ReceiveBlocked

Spec == Init /\ [][Next]_vars
--------------------------------------------------------------------------
Sender == [bytesSent : Nat, sendWindow : Nat]
Receiver == [bytesRead : Nat, highestReceived : Nat, receiveWindow : Nat,
             receiveWindowIncrement : Nat, timed : BOOLEAN]

\* The values of the state variables.
TypeOK ==
    /\ snd \in [Ids -> Sender]
    /\ rcv \in [Ids -> Receiver]
    /\ \A id \in Ids : rcv[id].receiveWindowIncrement <= MaxWindowOf(id)
    /\ updates \subseteq Ids \X Nat
    /\ blocked \in BOOLEAN /\ peerBlocked \in BOOLEAN
    /\ wasReset \subseteq Streams /\ gotReset \subseteq wasReset
    /\ status \in {"open", "FlowControlReceivedTooMuchData", "StreamDataAfterTermination"}

\* The counters of a flow controller never pass each other, across the two
\* endpoints and whatever arrives when: what was read is at most what was
\* received, that at most what was sent, that at most the window the sender knows
\* (SendWindowSize: "should never happen"), that at most the window the receiver
\* enforces.  It holds for streams and for the connection, and it is what keeps
\* the unsigned differences of SendWindowSize and MaybeUpdateWindow from wrapping.
LimitsNested ==
    \A id \in Ids :
        /\ rcv[id].bytesRead <= rcv[id].highestReceived
        /\ rcv[id].highestReceived <= snd[id].bytesSent
        /\ snd[id].bytesSent <= getSendWindow(id, snd[id])
        /\ getSendWindow(id, snd[id]) <= rcv[id].receiveWindow

\* A sender that runs this code never makes the receiver close the session with a
\* flow control error, nor with an error for data after a RST_STREAM.
NoFlowControlError == status = "open"

\* The bytes of the streams that count for the connection, up to the offset h[id].
CountedBytes(h) == {b \in Contributing \X (1..Target) : b[2] <= h[b[1]]}

SentOffsets == [id \in Streams |-> snd[id].bytesSent]
ReceivedOffsets == [id \in Streams |-> rcv[id].highestReceived]
ReadOffsets == [id \in Streams |-> rcv[id].bytesRead]

\* The counters of the connection are exactly the number of bytes sent, received
\* and read on its streams: a frame that arrives twice or late is not counted twice.
ConnCountsBytes ==
    /\ snd[Conn].bytesSent = Cardinality(CountedBytes(SentOffsets))
    /\ rcv[Conn].highestReceived = Cardinality(CountedBytes(ReceivedOffsets))
    /\ rcv[Conn].bytesRead = Cardinality(CountedBytes(ReadOffsets))

\* Every frame that was sent has arrived, everything was read that can be, and no
\* window update is due: only the sender can make a step that matters.
Quiet ==
    /\ \A id \in Streams :
          /\ rcv[id].highestReceived = snd[id].bytesSent
          /\ id \in gotReset \/ rcv[id].bytesRead = rcv[id].highestReceived
          /\ id \in wasReset => id \in gotReset
    /\ \A id \in Ids : ~ UpdateNecessary(rcv[id])
    /\ \A u \in updates : u[2] <= getSendWindow(u[1], snd[u[1]])

CanSend(id) == id \in wasReset \/ snd[id].bytesSent = Target \/ SendWindowSize(id) > 0

\* The two endpoints never wait for each other: once everything has arrived and was
\* read, each stream with more data may send, by its own window and by that of the
\* connection.  A BLOCKED frame is not needed for it, and no update stays untold.
NeverStuck == wasReset = {} /\ Quiet => \A id \in Streams : CanSend(id)

\* Read does not credit the data of a stream that was reset to the connection,
\* because flow control "was already informed about the final byteOffset for this
\* stream": a reset of one stream does not keep the data of another from flowing.
ResetsDoNotBlock == Quiet => \A id \in Streams : CanSend(id)
==========================================================================
