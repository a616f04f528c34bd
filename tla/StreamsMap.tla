----------------------------- MODULE StreamsMap -----------------------------
(***************************************************************************)
(* The streams map (streams_map.go) of one endpoint with the goroutines    *)
(* that share it: the session loop, which handles frames, sends and        *)
(* collects finished streams, one goroutine in AcceptStream, several in    *)
(* OpenStreamSync, and the HTTP server, which calls OpenStream and         *)
(* GetOrOpenStream.  The mutex makes every method one step; the two        *)
(* condition variables are the states "waiting" and "woken" of their       *)
(* waiters.  What makes a stream finished() is abstracted: it is "open"    *)
(* until it is "finished".                                                 *)
(***************************************************************************)
EXTENDS Integers, Sequences, FiniteSets

CONSTANTS
    Openers,        \* the goroutines that call OpenStreamSync
    MaxIncoming,    \* GetMaxIncomingStreams
    MaxOutgoing,    \* GetMaxOutgoingStreams
    LastId          \* bound: the largest stream ID either side opens

ASSUME MapAssumption ==
    /\ MaxIncoming \in Nat \ {0}
    /\ MaxOutgoing \in Nat
    /\ LastId \in Nat \ {0}
    /\ IsFiniteSet(Openers)

VARIABLES
    perspective,    \* "client" or "server"
    m,              \* the streamsMap
    flow,           \* the streams the flow control manager knows
    accepting,      \* the goroutine in AcceptStream
    opening,        \* the goroutines in OpenStreamSync
    loop,           \* where the session loop is: "frames" or "collect"
    status,         \* "open", or the error for which the session closes
    used            \* history: every stream that was ever in the map

vars == <<perspective, m, flow, accepting, opening, loop, status, used>>

Ids == 1..LastId
Waiter == {"running", "waiting", "woken"}
Crypto == 1
Header == 3

Open(mm) == DOMAIN mm.streams
IsServer == perspective = "server"
OpenedByUs(id) == (id % 2 = 0) = IsServer
--------------------------------------------------------------------------
(***************************************************************************)
(* putStream for the streams of the sequence ids, with the counters of     *)
(* their parity: odd streams count as incoming, even ones as outgoing, at  *)
(* the server and at the client.                                           *)
(***************************************************************************)
\* Mutant: the counters follow who opens the stream.
Put_ByOpener(mm, ids) ==
    LET new == {ids[i] : i \in DOMAIN ids}
    IN  [mm EXCEPT
            !.streams = [id \in DOMAIN mm.streams \cup new |->
                            IF id \in new THEN "open" ELSE mm.streams[id]],
            !.openStreams = @ \o ids,
            !.numOutgoingStreams = @ + Cardinality({id \in new : OpenedByUs(id)}),
            !.numIncomingStreams = @ + Cardinality({id \in new : ~OpenedByUs(id)})]

Put(mm, ids) ==
    LET new == {ids[i] : i \in DOMAIN ids}
    IN  [mm EXCEPT
            !.streams = [id \in DOMAIN mm.streams \cup new |->
                            IF id \in new THEN "open" ELSE mm.streams[id]],
            !.openStreams = @ \o ids,
            !.numOutgoingStreams = @ + Cardinality({id \in new : id % 2 = 0}),
            !.numIncomingStreams = @ + Cardinality({id \in new : id % 2 = 1})]

\* Mutant: a stream of ours that was collected is an invalid stream.
WasClosed_PeersOnly(mm, id) == ~OpenedByUs(id) /\ id <= mm.highestStreamOpenedByPeer

\* The stream is not in the map, but its ID was used before (or is the next).
WasClosed(mm, id) ==
    IF OpenedByUs(id) THEN id <= mm.nextStream ELSE id <= mm.highestStreamOpenedByPeer

\* The streams that a frame on stream id opens implicitly, in order.
Skipped(mm, id) ==
    LET first == IF mm.highestStreamOpenedByPeer = 0 THEN IF IsServer THEN 1 ELSE 2
                 ELSE mm.highestStreamOpenedByPeer + 2
    IN  [i \in 1..((id - first) \div 2 + 1) |-> first + 2 * (i - 1)]

\* How many of them openRemoteStream opens before TooManyOpenStreams.  At the
\* client the counter it looks at is not the one it increments.
Room(mm, ids) ==
    IF mm.numIncomingStreams >= MaxIncoming THEN 0
    ELSE IF IsServer /\ Len(ids) > MaxIncoming - mm.numIncomingStreams
         THEN MaxIncoming - mm.numIncomingStreams
         ELSE Len(ids)

openRemoteStreams(mm, ids) ==
    IF ids = <<>> THEN mm
    ELSE [Put(mm, ids) EXCEPT !.highestStreamOpenedByPeer = ids[Len(ids)]]

\* Mutant: a frame opens its own stream only, also one that was collected.
GetOrOpenStream_OnlyThis(mm, id) ==
    IF id \in Open(mm) \/ (OpenedByUs(id) /\ id <= mm.nextStream)
       THEN [map |-> mm, err |-> "none"]
    ELSE IF OpenedByUs(id) THEN [map |-> mm, err |-> "InvalidStreamID"]
    ELSE IF Room(mm, <<id>>) = 0 THEN [map |-> mm, err |-> "TooManyOpenStreams"]
    ELSE [map |-> openRemoteStreams(mm, <<id>>), err |-> "none"]

\* The map after GetOrOpenStream, and its error.
GetOrOpenStream(mm, id) ==
    IF id \in Open(mm) \/ WasClosed(mm, id) THEN [map |-> mm, err |-> "none"]
    ELSE IF OpenedByUs(id) THEN [map |-> mm, err |-> "InvalidStreamID"]
    ELSE LET ids  == Skipped(mm, id)
             room == Room(mm, ids)
         IN  [map |-> openRemoteStreams(mm, SubSeq(ids, 1, room)),
              err |-> IF room < Len(ids) THEN "TooManyOpenStreams" ELSE "none"]

openStreamImpl(mm) == [Put(mm, <<mm.nextStream>>) EXCEPT !.nextStream = @ + 2]

MayOpen(mm) == mm.numOutgoingStreams < MaxOutgoing

\* The list without the members of gone; the others keep their order.
Without(list, gone) ==
    LET kept   == {i \in DOMAIN list : list[i] \notin gone}
        Nth(k) == CHOOSE i \in kept : Cardinality({j \in kept : j <= i}) = k
    IN  [k \in 1..Cardinality(kept) |-> list[Nth(k)]]

\* RemoveStream for every stream of the set gone.  The streams in front of the
\* round-robin index take it with them.
RemoveStreams(mm, gone) ==
    [mm EXCEPT
        !.streams = [id \in DOMAIN mm.streams \ gone |-> mm.streams[id]],
        !.openStreams = Without(@, gone),
        !.roundRobinIndex = @ - Cardinality({i \in DOMAIN mm.openStreams :
                                                i <= @ /\ mm.openStreams[i] \in gone}),
        !.numOutgoingStreams = @ - Cardinality({id \in gone : id % 2 = 0}),
        !.numIncomingStreams = @ - Cardinality({id \in gone : id % 2 = 1})]

\* The order in which RoundRobinIterate comes to the data streams.
Rotation(mm) ==
    LET n == Cardinality(Open(mm))
    IN  SelectSeq([i \in 1..n |-> mm.openStreams[((i - 1 + mm.roundRobinIndex) % n) + 1]],
                  LAMBDA id : id \notin {Crypto, Header})
--------------------------------------------------------------------------
(***************************************************************************)
(* The state after session.setup: the server has accepted the crypto       *)
(* stream, the client has opened it.                                       *)
(***************************************************************************)
newStreamsMap(pers) ==
    [streams                   |-> [id \in {Crypto} |-> "open"],
     openStreams               |-> <<Crypto>>,
     roundRobinIndex           |-> 0,
     nextStream                |-> IF pers = "server" THEN 2 ELSE 3,
     highestStreamOpenedByPeer |-> IF pers = "server" THEN 1 ELSE 0,
     nextStreamToAccept        |-> IF pers = "server" THEN 3 ELSE 2,
     numOutgoingStreams        |-> 0,
     numIncomingStreams        |-> 1,
     closed                    |-> FALSE]

Init ==
    /\ perspective \in {"client", "server"}
    /\ m = newStreamsMap(perspective)
    /\ flow = {Crypto}
    /\ accepting = "running"
    /\ opening = [o \in Openers |-> "running"]
    /\ loop = "frames"
    /\ status = "open"
    /\ used = {Crypto}

\* nextStreamOrErrCond.Broadcast()
WakeAcceptor(mm) == accepting' = IF accepting = "waiting" THEN "woken" ELSE accepting

\* What GetOrOpenStream changes besides the map: session.newStream makes the
\* streams known to flow control, and the acceptor is woken unless the limit of
\* open streams was hit on the way.
Opens(r) ==
    /\ flow' = flow \cup (Open(r.map) \ Open(m))
    /\ used' = used \cup Open(r.map)
    /\ IF r.err = "none" /\ Open(r.map) # Open(m) THEN WakeAcceptor(r.map)
       ELSE UNCHANGED accepting

\* handleStreamFrame, handleWindowUpdateFrame, handleRstStreamFrame.  The peer
\* sends frames on streams it opens and on streams we have opened, at any time
\* later too.  A reset stream is finished: RegisterRemoteError answers with a
\* RST_STREAM unless our FIN is out.
HandleFrame(id, kind) ==
    /\ loop = "frames" /\ status = "open"
    /\ OpenedByUs(id) => id < m.nextStream
    /\ id = Crypto => kind # "RST_STREAM"
    /\ LET r == GetOrOpenStream(m, id)
       IN  /\ m' = IF kind = "RST_STREAM" /\ r.err = "none" /\ id \in Open(r.map)
                   THEN [r.map EXCEPT !.streams[id] = "finished"] ELSE r.map
           /\ Opens(r)
           /\ status' = IF r.err # "none" THEN r.err
                        ELSE IF id \in Open(r.map) /\ id \notin flow' THEN "errMapAccess"
                        ELSE status
    /\ UNCHANGED <<perspective, opening, loop>>


\* The loop has handled what it received and calls sendPacket.  The streamLambda of
\* the framer is called on k data streams: the k-th fills the packet, or its frame
\* header does not fit any more, or it is the last one there is.  The index moves on
\* in all three cases.  k = 0: the packet is full after the header stream.
RoundRobinIterate(k) ==
    /\ loop = "frames" /\ loop' = "collect" /\ status = "open"
    /\ k = 0 => Header \in Open(m) \/ Rotation(m) = <<>>
    /\ k <= Len(Rotation(m))
    /\ m' = IF k = 0 THEN m
            ELSE [m EXCEPT !.roundRobinIndex = (@ + k) % Cardinality(Open(m))]
    /\ UNCHANGED <<perspective, flow, accepting, opening, status, used>>

\* Mutant: one signal however many streams are removed.
SignalOpeners_Once(n) ==
    \E woken \in SUBSET {o \in Openers : opening[o] = "waiting"} :
        /\ \/ Cardinality(woken) = 1 /\ n > 0
           \/ woken = {} /\ (n = 0 \/ \A o \in Openers : opening[o] # "waiting")
        /\ opening' = [o \in Openers |-> IF o \in woken THEN "woken" ELSE opening[o]]

\* n times openStreamOrErrCond.Signal()
SignalOpeners(n) ==
    \E woken \in SUBSET {o \in Openers : opening[o] = "waiting"} :
        /\ \/ Cardinality(woken) = n
           \/ Cardinality(woken) < n /\ \A o \in Openers \ woken : opening[o] # "waiting"
        /\ opening' = [o \in Openers |-> IF o \in woken THEN "woken" ELSE opening[o]]

garbageCollectStreams ==
    /\ loop = "collect" /\ loop' = "frames"
    /\ LET gone == {id \in Open(m) : m.streams[id] # "open"}
       IN  /\ m' = RemoveStreams(m, gone)
           /\ flow' = flow \ gone
           /\ SignalOpeners(Cardinality(gone))
    /\ UNCHANGED <<perspective, accepting, status, used>>

\* closeLocal, by any goroutine.
Close ==
    /\ status = "open" /\ status' = "closed by the application"
    /\ UNCHANGED <<perspective, m, flow, accepting, opening, loop, used>>

\* handleCloseError, once the session loop has seen closeChan.
CloseWithError ==
    /\ loop = "frames" /\ status # "open" /\ ~m.closed
    /\ m' = [m EXCEPT !.closed = TRUE, !.streams = [id \in DOMAIN @ |-> "cancelled"]]
    /\ WakeAcceptor(m)
    /\ SignalOpeners(Cardinality(Openers))
    /\ UNCHANGED <<perspective, flow, loop, status, used>>
--------------------------------------------------------------------------
(***************************************************************************)
(* The goroutines of the application.                                      *)
(***************************************************************************)
\* A stream reaches finished(): both directions have ended.
Finish(id) ==
    /\ id \in Open(m) \ {Crypto} /\ m.streams[id] = "open"
    /\ m' = [m EXCEPT !.streams[id] = "finished"]
    /\ UNCHANGED <<perspective, flow, accepting, opening, loop, status, used>>

\* One round of the loop in AcceptStream.
AcceptStream ==
    /\ accepting # "waiting"
    /\ LET found == m.nextStreamToAccept \in Open(m)
       IN  /\ m' = IF ~m.closed /\ found THEN [m EXCEPT !.nextStreamToAccept = @ + 2] ELSE m
           /\ accepting' = IF m.closed \/ found THEN "running" ELSE "waiting"
    /\ UNCHANGED <<perspective, flow, opening, loop, status, used>>

\* OpenStream, which does not wait.
OpenStream ==
    /\ m.nextStream <= LastId
    /\ ~m.closed /\ MayOpen(m)
    /\ m' = openStreamImpl(m)
    /\ flow' = flow \cup {m.nextStream}
    /\ used' = used \cup {m.nextStream}
    /\ UNCHANGED <<perspective, accepting, opening, loop, status>>

\* One round of the loop in OpenStreamSync.
OpenStreamSync(o) ==
    /\ opening[o] # "waiting"
    /\ m.nextStream <= LastId
    /\ LET opens == ~m.closed /\ MayOpen(m)
       IN  /\ m' = IF opens THEN openStreamImpl(m) ELSE m
           /\ flow' = IF opens THEN flow \cup {m.nextStream} ELSE flow
           /\ used' = used \cup Open(m')
           /\ opening' = [opening EXCEPT ![o] = IF m.closed \/ opens THEN "running" ELSE "waiting"]
    /\ UNCHANGED <<perspective, accepting, loop, status>>

\* h2quic asks for the data stream of a request; an error closes the session.
AppGetOrOpenStream(id) ==
    /\ ~OpenedByUs(id)
    /\ LET r == GetOrOpenStream(m, id)
       IN  /\ m' = r.map
           /\ Opens(r)
           /\ status' = IF r.err # "none" /\ status = "open" THEN r.err ELSE status
    /\ UNCHANGED <<perspective, opening, loop>>

SessionLoop ==
    \/ \E k \in 0..LastId : RoundRobinIterate(k)
    \/ garbageCollectStreams
    \/ CloseWithError

Next ==
    \/ SessionLoop
    \/ \E id \in Ids : \E kind \in {"STREAM", "RST_STREAM"} : HandleFrame(id, kind)
    \/ Close
    \/ \E id \in Ids : Finish(id) \/ AppGetOrOpenStream(id)
    \/ AcceptStream
    \/ OpenStream
    \/ \E o \in Openers : OpenStreamSync(o)

\* A packet that reaches the data streams: the header stream does not fill it.
SendsData == \E k \in 1..LastId : RoundRobinIterate(k)

Spec == Init /\ [][Next]_vars /\ WF_vars(SessionLoop) /\ SF_vars(SendsData)
--------------------------------------------------------------------------
\* The state keeps its type; no counter of open streams and no index falls below
\* 0, where a uint32 would wrap around (RemoveStream).
TypeOK ==
    /\ perspective \in {"client", "server"}
    /\ Open(m) \subseteq Ids
    /\ \A id \in Open(m) : m.streams[id] \in {"open", "finished", "cancelled"}
    /\ m.roundRobinIndex \in Nat
    /\ m.numOutgoingStreams \in Nat /\ m.numIncomingStreams \in Nat
    /\ m.nextStream \in Nat /\ m.nextStreamToAccept \in Nat
    /\ m.highestStreamOpenedByPeer \in 0..LastId
    /\ flow \subseteq Ids /\ used \subseteq Ids
    /\ accepting \in Waiter
    /\ opening \in [Openers -> Waiter]
    /\ loop \in {"frames", "collect"}

(***************************************************************************)
(* The books of the map agree after any sequence of opening, resetting and *)
(* collecting: openStreams lists the streams of the map, each once, so     *)
(* that openStreams[(i+startIndex)%numStreams] stays inside the slice      *)
(* (streams_map.go:265); flow control knows exactly these streams; and     *)
(* numIncomingStreams and numOutgoingStreams, which openRemoteStream and   *)
(* openStreamImpl choose by perspective and RemoveStream by parity, count  *)
(* the odd and the even ones.  At the server the limits therefore hold,    *)
(* implicitly opened streams included.                                     *)
(***************************************************************************)
Bookkeeping ==
    /\ TypeOK
    /\ Len(m.openStreams) = Cardinality(Open(m))
    /\ {m.openStreams[i] : i \in DOMAIN m.openStreams} = Open(m)
    /\ flow = Open(m)
    /\ m.numIncomingStreams = Cardinality({id \in Open(m) : id % 2 = 1})
    /\ m.numOutgoingStreams = Cardinality({id \in Open(m) : id % 2 = 0})
    /\ IsServer => m.numIncomingStreams <= MaxIncoming /\ m.numOutgoingStreams <= MaxOutgoing

(***************************************************************************)
(* Frames that arrive after their stream was collected, or that reset a    *)
(* stream no frame has opened yet, never close the session: GetOrOpenStream*)
(* never takes them for an InvalidStreamID, and handleRstStreamFrame and   *)
(* handleWindowUpdateFrame never ask flow control for a stream it dropped. *)
(***************************************************************************)
LateFramesHarmless == status \notin {"InvalidStreamID", "errMapAccess"}

(***************************************************************************)
(* No goroutine sleeps that should be awake.  After CloseWithError nobody  *)
(* does.  AcceptStream does not sleep while the stream it waits for is     *)
(* open, however many streams one frame opened at once, unless the session *)
(* is about to close and will wake it (TooManyOpenStreams returns before   *)
(* nextStreamOrErrCond.Broadcast).  openStreamOrErrCond wakes one goroutine*)
(* per removed stream, whoever takes the free place: at the server, whose  *)
(* own streams are the ones counted, at least as many openers are woken as *)
(* there are free places while others sleep.                               *)
(***************************************************************************)
WaitersNotForgotten ==
    /\ accepting = "waiting" =>
          ~m.closed /\ (m.nextStreamToAccept \in Open(m) => status # "open")
    /\ (\E o \in Openers : opening[o] = "waiting") =>
          /\ ~m.closed
          /\ IsServer => MaxOutgoing - m.numOutgoingStreams <=
                             Cardinality({o \in Openers : opening[o] = "woken"})

(***************************************************************************)
(* A stream ID is never opened a second time: the frames of a stream that  *)
(* was collected do not bring it back (GetOrOpenStream), and nextStream    *)
(* never returns to an ID in use.                                          *)
(***************************************************************************)
NeverReopened == [][Open(m') \cap used \subseteq Open(m)]_vars

Considers(id) ==
    /\ loop = "frames" /\ loop' = "collect"
    /\ \E k \in 1..Len(Rotation(m)) : /\ \E i \in 1..k : Rotation(m)[i] = id
                                       /\ RoundRobinIterate(k)

=============================================================================
