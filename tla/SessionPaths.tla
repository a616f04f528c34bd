---------------------------- MODULE SessionPaths ----------------------------
(***************************************************************************)
(* The goroutines of a session and how they start and stop each other: the *)
(* session loop (session.go), one loop per path (path.go) and the path     *)
(* manager (path_manager.go).  They meet in channels of capacity 1, in the *)
(* unbuffered channel of the path timers and in pathsLock, a RWMutex whose *)
(* pending writer keeps new readers out.                                   *)
(* A critical section without a blocking operation is one step.  What the  *)
(* packets carry, other than what concerns paths and the end of the        *)
(* session, is in the other modules.                                       *)
(***************************************************************************)
EXTENDS Integers, FiniteSets

CONSTANTS
    PathIDs,     \* the paths there may be; 0 is the initial path
    MaxPairs,    \* bound: pairs of local and remote addresses, of the client
    MaxClosed    \* bound: paths that CLOSE_PATH frames close

ASSUME PathsAssumption ==
    /\ PathIDs \subseteq Nat /\ 0 \in PathIDs
    /\ MaxPairs \in Nat \ {0} /\ MaxClosed \in Nat /\ \A k \in 1..MaxPairs : 2 * k - 1 \in PathIDs

VARIABLES
    perspective,
    sess,      \* the session loop and what only it uses
    closing,   \* closeOnce and closeChan
    loop,      \* the loop of every path; "none" if the path is not in s.paths
    closeChan, \* of the paths: whether the channel is full
    sentPacket,
    pm,        \* the path manager
    pairs,     \* address pairs that the client knows
    change,    \* whether pconnMgr.changePaths is full
    started    \* history: path loops started

vars == <<perspective, sess, closing, loop, closeChan, sentPacket, pm, pairs, change, started>>

None == -1

paths == {p \in PathIDs : loop[p] # "none"}
open(p) == loop[p] \in {"wait", "relay"}

Init ==
    /\ perspective \in {"client", "server"}
    /\ sess = [at |-> "top", path |-> None, locked |-> FALSE, handshakeComplete |-> FALSE,
               launched |-> FALSE, closedPaths |-> {}, reason |-> "none", awaited |-> {}]
    /\ closing = [once |-> FALSE, chan |-> "none"]
    /\ loop = [p \in PathIDs |-> IF p = 0 THEN "wait" ELSE "none"]
    /\ closeChan = [p \in PathIDs |-> FALSE] /\ sentPacket = [p \in PathIDs |-> FALSE]
    /\ pm = [at |-> "start", nxtPathID |-> IF perspective = "client" THEN 1 ELSE 2,
             handshakeCompleted |-> FALSE, runClosed |-> FALSE, first |-> TRUE, failed |-> FALSE,
             todo |-> 0]
    /\ pairs = 1 /\ change = TRUE /\ started = 1
--------------------------------------------------------------------------
(***************************************************************************)
(* pathsLock.  The path manager at "lock" has called Lock in createPath:   *)
(* readers have to wait for it, and it waits for a session that holds the  *)
(* read lock across a blocking operation.                                  *)
(***************************************************************************)
RLockFree == pm.at # "lock"
SessionReads == sess.at = "closePath" \/ (sess.at = "enqueue" /\ sess.locked)

\* closeLocal and closeRemote: only the first reason counts.
Close(reason) ==
    closing' = IF closing.once THEN closing ELSE [once |-> TRUE, chan |-> reason]

\* Mutant: only the initial path is told.
closePaths_Initial == closeChan' = [closeChan EXCEPT ![0] = @ \/ open(0)]

\* pathManager.closePaths tells the paths that are open; it does not wait.
closePaths == closeChan' = [p \in PathIDs |-> closeChan[p] \/ open(p)]

\* Path loops start.
setup(ids) ==
    /\ loop' = [p \in PathIDs |-> IF p \in ids THEN "wait" ELSE loop[p]]
    /\ started' = started + Cardinality(ids)
--------------------------------------------------------------------------
(***************************************************************************)
(* The loop of a path.  "relay" is the inner select, after the timer.      *)
(***************************************************************************)
PathTimer(p) ==
    /\ loop[p] = "wait" /\ loop' = [loop EXCEPT ![p] = "relay"]
    /\ UNCHANGED <<perspective, sess, closing, closeChan, sentPacket, pm, pairs, change, started>>

PathSent(p) ==
    /\ open(p) /\ sentPacket[p]
    /\ loop' = [loop EXCEPT ![p] = "wait"] /\ sentPacket' = [sentPacket EXCEPT ![p] = FALSE]
    /\ UNCHANGED <<perspective, sess, closing, closeChan, pm, pairs, change, started>>

\* Mutant: the inner select has no case for closeChan.
PathEnd_OuterOnly(p) ==
    /\ loop[p] = "wait" /\ closeChan[p]
    /\ loop' = [loop EXCEPT ![p] = "ended"] /\ closeChan' = [closeChan EXCEPT ![p] = FALSE]
    /\ UNCHANGED <<perspective, sess, closing, sentPacket, pm, pairs, change, started>>

\* closeChan is looked at first in every round of the loop.  close and the
\* message in runClosed follow at once.
PathEnd(p) ==
    /\ open(p) /\ closeChan[p]
    /\ loop' = [loop EXCEPT ![p] = "ended"] /\ closeChan' = [closeChan EXCEPT ![p] = FALSE]
    /\ UNCHANGED <<perspective, sess, closing, sentPacket, pm, pairs, change, started>>
--------------------------------------------------------------------------
(***************************************************************************)
(* The path manager.                                                       *)
(***************************************************************************)
others == <<perspective, sess, closing>>
rest == <<perspective, pm, pairs, change>>

\* The two selects of run: the end of the session, ...
PmClosed ==
    /\ pm.at \in {"start", "loop"} /\ pm.runClosed
    /\ pm' = [pm EXCEPT !.at = IF pm.at = "start" THEN "ended" ELSE "closing", !.runClosed = FALSE]
    /\ UNCHANGED <<others, loop, closeChan, sentPacket, pairs, change, started>>

\* ... the end of the handshake and a change of the local addresses.  The
\* server only advertises its addresses.
createPaths == IF perspective = "client" THEN "create" ELSE "loop"

PmHandshake ==
    /\ pm.at = "start" /\ pm.handshakeCompleted
    /\ pm' = [pm EXCEPT !.at = createPaths, !.handshakeCompleted = FALSE, !.todo = pairs]
    /\ UNCHANGED <<others, loop, closeChan, sentPacket, pairs, change, started>>

PmChange ==
    /\ pm.at = "loop" /\ change /\ change' = FALSE
    /\ pm' = [pm EXCEPT !.at = createPaths, !.first = FALSE, !.todo = pairs]
    /\ UNCHANGED <<others, loop, closeChan, sentPacket, pairs, started>>

\* createPaths, which holds pconnMgr.mutex, calls createPath for every pair (todo
\* are left), which first waits for the lock.
PmNext ==
    /\ pm.at = "create"
    /\ pm' = IF pm.todo > 0 THEN [pm EXCEPT !.at = "lock", !.todo = @ - 1]
             ELSE [pm EXCEPT !.at = "loop"]
    /\ UNCHANGED <<others, loop, closeChan, sentPacket, pairs, change, started>>

\* Pairs that have no path.  The initial path belongs to none of them.
missing == pairs + 1 - Cardinality(paths)

\* createPath, with the lock, of a pair that has a path.  In what order it meets
\* the pairs is left open.
PathExists ==
    /\ pm.at = "lock" /\ ~SessionReads
    /\ missing <= pm.todo
    /\ pm' = [pm EXCEPT !.at = "create"]
    /\ UNCHANGED <<others, loop, closeChan, sentPacket, pairs, change, started>>

\* Mutant: nxtPathID stays.
createPath_SameID ==
    /\ pm.at = "lock" /\ ~SessionReads
    /\ missing > 0
    /\ setup({pm.nxtPathID})
    /\ pm' = [pm EXCEPT !.at = "create"]
    /\ sentPacket' = [sentPacket EXCEPT ![pm.nxtPathID] = TRUE]
    /\ UNCHANGED <<others, closeChan, pairs, change>>

\* createPath, with the lock, of a pair without a path.  The PING may fail; only
\* the first createPaths of the path manager then closes the paths, a later
\* error is dropped.
createPath ==
    /\ pm.at = "lock" /\ ~SessionReads
    /\ missing > 0
    /\ setup({pm.nxtPathID})
    /\ \E ok \in BOOLEAN :
          /\ pm' = [pm EXCEPT !.nxtPathID = @ + 2,
                              !.at = IF ok THEN "create" ELSE IF pm.first THEN "closing" ELSE "loop",
                              !.todo = IF ok THEN @ ELSE 0,
                              !.failed = @ \/ (~ok /\ pm.first)]
          /\ sentPacket' = [sentPacket EXCEPT ![pm.nxtPathID] = TRUE]
    /\ UNCHANGED <<others, closeChan, pairs, change>>

PmClosePaths ==
    /\ pm.at = "closing" /\ pm' = [pm EXCEPT !.at = "ended"]
    /\ closePaths
    /\ UNCHANGED <<others, loop, sentPacket, pairs, change, started>>

PathManager ==
    \/ PmClosed \/ PmHandshake \/ PmChange \/ PmNext \/ PathExists \/ createPath
    \/ PmClosePaths

\* A new interface of the client (pconn_manager.go, which holds the mutex).
NewInterface ==
    /\ perspective = "client" /\ pairs < MaxPairs /\ pm.at \notin {"create", "lock"}
    /\ pairs' = pairs + 1 /\ change' = TRUE
    /\ UNCHANGED <<others, loop, closeChan, sentPacket, pm, started>>
--------------------------------------------------------------------------
(***************************************************************************)
(* The session loop.                                                       *)
(***************************************************************************)
At(step) == sess' = [sess EXCEPT !.at = step]

\* Mutant: the paths are left to handleCloseError.
TopClose_Untold ==
    /\ sess.at = "top" /\ closing.chan # "none" /\ RLockFree
    /\ sess' = [sess EXCEPT !.at = "close", !.reason = closing.chan]
    /\ closing' = [closing EXCEPT !.chan = "none"]
    /\ UNCHANGED <<rest, loop, closeChan, sentPacket, started>>

\* Close immediately if requested: every path is told, the path manager is not.
TopClose ==
    /\ sess.at = "top" /\ closing.chan # "none" /\ RLockFree
    /\ sess' = [sess EXCEPT !.at = "close", !.reason = closing.chan]
    /\ closing' = [closing EXCEPT !.chan = "none"]
    /\ closeChan' = [p \in PathIDs |-> closeChan[p] \/ p \in paths]
    /\ UNCHANGED <<rest, loop, sentPacket, started>>

Top ==
    /\ sess.at = "top" /\ closing.chan = "none" /\ At("select")
    /\ UNCHANGED <<rest, closing, loop, closeChan, sentPacket, started>>

SelectClose ==
    /\ sess.at = "select" /\ closing.chan # "none" /\ RLockFree /\ ~pm.runClosed
    /\ sess' = [sess EXCEPT !.at = "close", !.reason = closing.chan]
    /\ closing' = [closing EXCEPT !.chan = "none"]
    /\ closePaths /\ pm' = [pm EXCEPT !.runClosed = TRUE]
    /\ UNCHANGED <<perspective, loop, sentPacket, pairs, change, started>>

\* The timer, sendingScheduled, or a packet without consequences here.
SelectWake ==
    /\ sess.at = "select" /\ At("body")
    /\ UNCHANGED <<rest, closing, loop, closeChan, sentPacket, started>>

SelectPathTimer(p) ==
    /\ sess.at = "select" /\ loop[p] = "relay" /\ loop' = [loop EXCEPT ![p] = "wait"]
    /\ At("body")
    /\ UNCHANGED <<rest, closing, closeChan, sentPacket, started>>

\* A server that refused the version completes no handshake and has no session.
SelectHandshakeComplete ==
    /\ sess.at = "select" /\ ~sess.handshakeComplete /\ closing.chan # "version"
    /\ sess' = [sess EXCEPT !.at = "body", !.handshakeComplete = TRUE]
    /\ UNCHANGED <<rest, closing, loop, closeChan, sentPacket, started>>

\* A packet that closes the session: a CONNECTION_CLOSE, or an error in it,
\* after which the loop continues at its top.
SelectFatalPacket(reason) ==
    /\ sess.at = "select" /\ Close(reason)
    /\ At(IF reason = "remote" THEN "body" ELSE "top")
    /\ UNCHANGED <<rest, loop, closeChan, sentPacket, started>>

\* The first packet on a path that the client has created.
createPathFromRemote(id) ==
    /\ sess.at = "select" /\ perspective = "server"
    /\ id \notin paths /\ id % 2 = 1 /\ RLockFree
    /\ setup({id}) /\ At("body")
    /\ UNCHANGED <<rest, closing, closeChan, sentPacket>>

\* An ADD_ADDRESS frame of the server: the session loop itself creates the paths,
\* once it has pconnMgr.mutex and the lock, up to a PING that fails, which
\* closes the session.
handleAddAddressFrame ==
    LET new == {p \in PathIDs \ paths : p >= pm.nxtPathID /\ p <= 2 * pairs + 1 /\ p % 2 = 1}
        create(ids) ==
            /\ setup(ids)
            /\ sentPacket' = [p \in PathIDs |-> sentPacket[p] \/ p \in ids]
            /\ pm' = [pm EXCEPT !.nxtPathID = @ + 2 * Cardinality(ids)]
    IN  /\ sess.at = "select" /\ perspective = "client" /\ closing.chan # "version"
        /\ pairs < MaxPairs /\ pairs' = pairs + 1
        /\ pm.at \notin {"create", "lock"}
        /\ \/ create(new) /\ At("body") /\ UNCHANGED closing
           \/ \E p \in new : create({q \in new : q <= p}) /\ At("top") /\ Close("local")
        /\ UNCHANGED <<perspective, closeChan, change>>

\* A CLOSE_PATH frame.  closePath takes the read lock and, holding it, calls
\* pathManager.closePath, which takes it again and tells the path.
handleClosePathFrame(p) ==
    /\ sess.at = "select" /\ p \in paths /\ RLockFree
    /\ p \in sess.closedPaths \/ Cardinality(sess.closedPaths) < MaxClosed
    /\ sess' = [sess EXCEPT !.at = IF p \in sess.closedPaths THEN "body" ELSE "closePath",
                            !.path = IF p \in sess.closedPaths THEN None ELSE p]
    /\ UNCHANGED <<rest, closing, loop, closeChan, sentPacket, started>>

closePath ==
    /\ sess.at = "closePath" /\ RLockFree
    /\ open(sess.path) => ~closeChan[sess.path]
    /\ closeChan' = [closeChan EXCEPT ![sess.path] = @ \/ open(sess.path)]
    /\ sess' = [sess EXCEPT !.at = "body", !.path = None,
                            !.closedPaths = @ \cup {sess.path}]
    /\ UNCHANGED <<rest, closing, loop, sentPacket, started>>

\* The rest of a round.  The path manager is launched once; then sendPacket
\* sends nothing, or a packet on some path, which is one of ackRemainingPaths
\* if the read lock is held.  One packet stands for all those of a round.
Body ==
    LET launch == sess.handshakeComplete /\ ~sess.launched
    IN  /\ sess.at = "body" /\ RLockFree
        /\ pm' = [pm EXCEPT !.handshakeCompleted = @ \/ launch]
        /\ \/ sess' = [sess EXCEPT !.at = "timeouts", !.launched = @ \/ launch]
           \/ \E p \in paths, locked \in BOOLEAN :
                 sess' = [sess EXCEPT !.at = "enqueue", !.launched = @ \/ launch,
                                      !.path = p, !.locked = locked]
        /\ UNCHANGED <<perspective, closing, loop, closeChan, sentPacket, pairs, change, started>>

sendPackedPacket ==
    /\ sess.at = "enqueue" /\ ~sentPacket[sess.path]
    /\ sentPacket' = [sentPacket EXCEPT ![sess.path] = TRUE]
    /\ sess' = [sess EXCEPT !.at = "timeouts", !.path = None, !.locked = FALSE]
    /\ UNCHANGED <<rest, closing, loop, closeChan, started>>

Timeouts ==
    /\ sess.at = "timeouts" /\ At("top")
    /\ Close("local") \/ UNCHANGED closing
    /\ UNCHANGED <<rest, loop, closeChan, sentPacket, started>>

\* handleCloseError and closePaths.  The paths are ranged over without the lock:
\* one that is created in the meantime may be met or not.
handleCloseError ==
    /\ sess.at = "close" /\ RLockFree
    /\ sess' = [sess EXCEPT !.at = IF sess.reason = "version" THEN "ended" ELSE "await",
                            !.awaited = paths]
    /\ IF sess.reason = "version" THEN UNCHANGED closeChan ELSE closePaths
    /\ UNCHANGED <<rest, closing, loop, sentPacket, started>>

MeetNewPath(p) ==
    /\ sess.at = "await" /\ p \in paths \ sess.awaited
    /\ sess' = [sess EXCEPT !.awaited = @ \cup {p}]
    /\ UNCHANGED <<rest, closing, loop, closeChan, sentPacket, started>>

Ended ==
    /\ sess.at = "await" /\ \A p \in sess.awaited : loop[p] = "ended"
    /\ At("ended")
    /\ UNCHANGED <<rest, closing, loop, closeChan, sentPacket, started>>

Session ==
    \/ Top \/ SelectWake \/ Body \/ sendPackedPacket \/ Timeouts \/ closePath
    \/ TopClose \/ SelectClose \/ handleCloseError \/ Ended
    \/ SelectHandshakeComplete \/ SelectFatalPacket("remote") \/ SelectFatalPacket("local")
    \/ handleAddAddressFrame
    \/ \E p \in PathIDs : \/ SelectPathTimer(p) \/ createPathFromRemote(p)
                          \/ handleClosePathFrame(p) \/ MeetNewPath(p)

\* The application closes the session, or the client for a new version, unless it
\* had a packet of the server before (client.go:362), as an ADD_ADDRESS.
AppClose(reason) ==
    /\ reason = "version" =>
          perspective = "client" /\ ~sess.handshakeComplete /\ paths = {0}
    /\ ~closing.once /\ Close(reason)
    /\ UNCHANGED <<rest, sess, loop, closeChan, sentPacket, started>>

Next ==
    \/ Session \/ PathManager \/ NewInterface
    \/ AppClose("local") \/ AppClose("version")
    \/ \E p \in PathIDs : PathTimer(p) \/ PathSent(p) \/ PathEnd(p)

Spec ==
    /\ Init /\ [][Next]_vars
    /\ WF_vars(Session) /\ WF_vars(PathManager)
    /\ WF_vars(\E p \in PathIDs : PathSent(p) \/ PathEnd(p))
--------------------------------------------------------------------------
\* The state keeps its type; the client gives its paths odd numbers, the server
\* would give them even ones (pathManager.setup).
TypeOK ==
    /\ loop \in [PathIDs -> {"none", "wait", "relay", "ended"}]
    /\ closeChan \in [PathIDs -> BOOLEAN] /\ sentPacket \in [PathIDs -> BOOLEAN]
    /\ sess.path \in paths \cup {None} /\ sess.closedPaths \subseteq paths
    /\ sess.awaited \subseteq paths
    /\ pm.nxtPathID % 2 = IF perspective = "client" THEN 1 ELSE 0
    /\ pairs \in 1..MaxPairs

\* The session waits for a path loop that has ended to take a message.
StuckSending == sess.at = "enqueue" /\ loop[sess.path] = "ended" /\ sentPacket[sess.path]

\* The session wants to read paths that it is reading, behind a writer.
StuckLocking == sess.at = "closePath" /\ ~RLockFree

\* The session waits for a path that nobody is going to close.
StuckClosing ==
    /\ sess.at = "await" /\ ~pm.runClosed /\ pm.at # "closing"
    /\ \E p \in sess.awaited : open(p) /\ ~closeChan[p]

\* How a session can hang.  It blocks in sendPackedPacket only on a path that a
\* CLOSE_PATH frame has closed, or after the path manager closed all paths
\* because it could not create one; and at its end only at a client whose path
\* manager was not told that the session ended (run, at the top of its loop) and
\* has created a path since.
HangCauses ==
    /\ StuckSending => sess.path \in sess.closedPaths \/ pm.failed
    /\ StuckClosing => perspective = "client" /\ pm.at \notin {"ended", "start"}

\* When run returns, the loop of every path that was there when the session
\* began to close has ended, or at least has been told to (a session closed for
\* a new version does not wait).
LoopsEnd ==
    sess.at = "ended" => \A p \in sess.awaited : loop[p] = "ended" \/ closeChan[p]

\* A path in s.paths is never replaced by another one of the same number, whose
\* loop nobody could stop any more: not by createPath, which does not look
\* whether nxtPathID is taken, nor by createPathFromRemote.  The two stay apart
\* because each side keeps to its own parity (TypeOK).
NeverReplaced == TypeOK /\ started = Cardinality(paths)

\* Close returns: a session that was asked to close, from wherever, stops its
\* loop, waits for its paths and ends, unless it hangs in one of three ways.  Two
\* of them are those whose causes HangCauses gives.  The third, StuckLocking, has
\* none but the interleaving: any Lock of the path manager that comes between the
\* two RLocks of a CLOSE_PATH frame.  That the session loop blocks in
\* SetDiversificationNonce is in Handshake, not here.
CloseEnds ==
    closing.once ~> (sess.at = "ended" \/ StuckSending \/ StuckLocking \/ StuckClosing)
=============================================================================
