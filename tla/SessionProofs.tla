---------------------------- MODULE SessionProofs ----------------------------
(***************************************************************************)
(* Proofs about the goroutines of a session.                               *)
(*                                                                         *)
(* SessionPaths, for any number of paths and addresses: no path is         *)
(* replaced by another one, the loops of a closed session have been told   *)
(* to end, and a session hangs only for the causes that HangCauses names.  *)
(*                                                                         *)
(* StreamLifecycle, for any number of bytes, frames and deadlines: neither *)
(* a reader nor a writer of a stream sleeps through a signal, and FIN and  *)
(* RST_STREAM carry the final offset.                                      *)
(***************************************************************************)
EXTENDS SessionPaths, StreamLifecycle, FiniteSetTheorems, TLAPS

\* The provers of a leaf that names none: a step may need Zenon, or SMT at length.
USE SMTT(10), ZenonT(20), SMTT(30)

SessionType ==
    [at : {"top", "select", "body", "closePath", "enqueue", "timeouts", "close", "await", "ended"},
     path : PathIDs \cup {None}, locked : BOOLEAN, handshakeComplete : BOOLEAN,
     launched : BOOLEAN, closedPaths : SUBSET PathIDs,
     reason : {"none", "local", "remote", "version"}, awaited : SUBSET PathIDs]

ManagerType ==
    [at : {"start", "loop", "create", "lock", "closing", "ended"}, nxtPathID : Nat,
     handshakeCompleted : BOOLEAN, runClosed : BOOLEAN, first : BOOLEAN, failed : BOOLEAN,
     todo : Nat]

Types ==
    /\ perspective \in {"client", "server"}
    /\ sess \in SessionType /\ pm \in ManagerType
    /\ closing \in [once : BOOLEAN, chan : {"none", "local", "remote", "version"}]
    /\ loop \in [PathIDs -> {"none", "wait", "relay", "ended"}]
    /\ closeChan \in [PathIDs -> BOOLEAN] /\ sentPacket \in [PathIDs -> BOOLEAN]
    /\ pairs \in 1 .. MaxPairs /\ change \in BOOLEAN /\ started \in Nat

\* What the session loop knows of paths are paths.
KnownPaths ==
    /\ sess.closedPaths \subseteq paths /\ sess.awaited \subseteq paths
    /\ sess.path \in paths \cup {None}
    /\ sess.at \in {"closePath", "enqueue"} => sess.path \in paths

(***************************************************************************)
(* The numbers of paths.  A client numbers its paths without holes, so     *)
(* that nxtPathID is above all of them; a server never creates one by      *)
(* itself.                                                                 *)
(***************************************************************************)
Numbering ==
    /\ IsFiniteSet(paths) /\ started = Cardinality(paths)
    /\ perspective = "client" => /\ pm.nxtPathID = 2 * started - 1
                                 /\ \A p \in paths : p < pm.nxtPathID
    /\ perspective = "server" => pm.nxtPathID = 2 /\ pm.at \notin {"create", "lock"}

Closing == sess.at \in {"close", "await", "ended"}

\* Whoever tells a path to end has a reason for it.
ToldForAReason ==
    /\ pm.runClosed => Closing
    /\ pm.at = "closing" => pm.failed \/ Closing
    /\ \A p \in PathIDs : closeChan[p] \/ loop[p] = "ended" =>
          p \in sess.closedPaths \/ pm.failed \/ Closing

\* Every path that runs has been told to end.
AllTold == \A p \in PathIDs : open(p) => closeChan[p]

(***************************************************************************)
(* The path manager only creates paths after the handshake, which a        *)
(* session that is closed for a new version never completes.               *)
(***************************************************************************)
AfterHandshake ==
    /\ pm.handshakeCompleted \/ pm.at \notin {"start", "ended"} => sess.handshakeComplete
    /\ closing.chan = "version" \/ sess.reason = "version" => ~sess.handshakeComplete
    /\ sess.reason = "version" => Closing

\* When a closing session may rely on all paths having been told.
Told ==
    /\ sess.at = "close" /\ ~sess.handshakeComplete => AllTold
    /\ sess.at = "await" /\ (perspective = "server" \/ pm.at \in {"start", "ended"}) => AllTold

IInv ==
    /\ Types /\ KnownPaths /\ Numbering /\ ToldForAReason /\ AfterHandshake /\ Told
    /\ LoopsEnd
-----------------------------------------------------------------------------
\* No path is replaced, in the words of NeverReplaced, and the state has its type.
LEMMA IInvTyping == IInv => NeverReplaced
<1> SUFFICES ASSUME IInv PROVE NeverReplaced
  OBVIOUS
<1>1. pm.nxtPathID % 2 = IF perspective = "client" THEN 1 ELSE 0
  BY DEF IInv, Types, Numbering
<1> QED
  BY <1>1 DEF IInv, Types, KnownPaths, Numbering, NeverReplaced, TypeOK

LEMMA InitIInv == Init => IInv
<1> SUFFICES ASSUME Init PROVE IInv
  OBVIOUS
<1> USE PathsAssumption DEF Init
<1>1. paths = {0}
  BY DEF paths
<1>2. IsFiniteSet(paths) /\ Cardinality(paths) = 1
  BY <1>1, FS_Singleton, Zenon
<1>3. Types
  BY DEF Types, SessionType, ManagerType, None
<1>4. KnownPaths /\ Numbering
  BY <1>1, <1>2 DEF KnownPaths, Numbering
<1>5. ToldForAReason /\ AfterHandshake /\ Told /\ LoopsEnd
  BY DEF ToldForAReason, AfterHandshake, Told, LoopsEnd, Closing
<1> QED
  BY <1>3, <1>4, <1>5 DEF IInv
-----------------------------------------------------------------------------
(***************************************************************************)
(* Steps that change the state of a path loop, but create no path.         *)
(***************************************************************************)
LEMMA PathLoopPreserves ==
    ASSUME IInv, NEW p \in PathIDs, PathTimer(p) \/ PathSent(p) \/ PathEnd(p)
    PROVE  IInv'
<1> USE PathsAssumption DEF IInv, Types, open
<1>1. CASE PathTimer(p)
  <2>1. /\ loop[p] = "wait" /\ loop' = [loop EXCEPT ![p] = "relay"]
        /\ UNCHANGED <<perspective, sess, closing, closeChan, sentPacket, pm, pairs, change, started>>
    BY <1>1 DEF PathTimer
  <2>2. Types' /\ paths' = paths
    BY <2>1 DEF paths
  <2>3. KnownPaths' /\ Numbering' /\ AfterHandshake'
    BY <2>1, <2>2 DEF KnownPaths, Numbering, AfterHandshake, Closing
  <2>4. ToldForAReason' /\ Told' /\ LoopsEnd'
    BY <2>1 DEF ToldForAReason, Told, LoopsEnd, AllTold, Closing
  <2> QED
    BY <2>2, <2>3, <2>4
<1>2. CASE PathSent(p)
  <2>1. /\ open(p) /\ loop' = [loop EXCEPT ![p] = "wait"]
        /\ sentPacket' = [sentPacket EXCEPT ![p] = FALSE]
        /\ UNCHANGED <<perspective, sess, closing, closeChan, pm, pairs, change, started>>
    BY <1>2 DEF PathSent
  <2>2. Types' /\ paths' = paths
    BY <2>1 DEF paths
  <2>3. KnownPaths' /\ Numbering' /\ AfterHandshake'
    BY <2>1, <2>2 DEF KnownPaths, Numbering, AfterHandshake, Closing
  <2>4. ToldForAReason' /\ Told' /\ LoopsEnd'
    BY <2>1 DEF ToldForAReason, Told, LoopsEnd, AllTold, Closing
  <2> QED
    BY <2>2, <2>3, <2>4
<1>3. CASE PathEnd(p)
  <2>1. /\ open(p) /\ closeChan[p] /\ loop' = [loop EXCEPT ![p] = "ended"]
        /\ closeChan' = [closeChan EXCEPT ![p] = FALSE]
        /\ UNCHANGED <<perspective, sess, closing, sentPacket, pm, pairs, change, started>>
    BY <1>3 DEF PathEnd
  <2>2. Types' /\ paths' = paths
    BY <2>1 DEF paths
  <2>3. KnownPaths' /\ Numbering' /\ AfterHandshake'
    BY <2>1, <2>2 DEF KnownPaths, Numbering, AfterHandshake, Closing
  <2>4. ToldForAReason' /\ Told' /\ LoopsEnd'
    BY <2>1 DEF ToldForAReason, Told, LoopsEnd, AllTold, Closing
  <2> QED
    BY <2>2, <2>3, <2>4
<1> QED
  BY <1>1, <1>2, <1>3

(***************************************************************************)
(* The path manager, but for createPath.                                   *)
(***************************************************************************)
LEMMA ManagerPreserves ==
    ASSUME IInv,
           \/ PmClosed \/ PmHandshake \/ PmChange \/ PmNext \/ PathExists
           \/ PmClosePaths \/ NewInterface
    PROVE  IInv'
<1> USE PathsAssumption DEF IInv, Types, ManagerType, others
<1>0. pairs \in Nat
  OBVIOUS
<1>1. CASE PmClosed
  <2>1. Types'
    <3>1. CASE pm.at = "start"
      BY <1>1, <3>1, Zenon DEF PmClosed
    <3>2. CASE pm.at # "start"
      BY <1>1, <3>2, Zenon DEF PmClosed
    <3> QED
      BY <3>1, <3>2
  <2>2. paths' = paths
    BY <1>1 DEF PmClosed, paths
  <2>3. KnownPaths' /\ Numbering' /\ AfterHandshake'
    BY <1>1, <2>2 DEF PmClosed, KnownPaths, Numbering, AfterHandshake, ToldForAReason, Closing
  <2>4. ToldForAReason' /\ Told' /\ LoopsEnd'
    BY <1>1 DEF PmClosed, ToldForAReason, Told, LoopsEnd, AllTold, Closing, open
  <2> QED
    BY <2>1, <2>3, <2>4
<1>2. CASE PmHandshake
  <2>1. Types'
    <3>1. CASE perspective = "client"
      BY <1>0, <1>2, <3>1, Zenon DEF PmHandshake, createPaths
    <3>2. CASE perspective = "server"
      BY <1>0, <1>2, <3>2, Zenon DEF PmHandshake, createPaths
    <3> QED
      BY <3>1, <3>2
  <2>2. paths' = paths
    BY <1>2 DEF PmHandshake, paths
  <2>3. KnownPaths' /\ Numbering' /\ AfterHandshake'
    BY <1>2, <2>2 DEF PmHandshake, createPaths, KnownPaths, Numbering, AfterHandshake, Closing
  <2>4. ToldForAReason' /\ Told' /\ LoopsEnd'
    BY <1>2 DEF PmHandshake, createPaths, ToldForAReason, Told, LoopsEnd, AllTold, Closing, open
  <2> QED
    BY <2>1, <2>3, <2>4
<1>3. CASE PmChange
  <2>1. Types'
    <3>1. CASE perspective = "client"
      BY <1>0, <1>3, <3>1, Zenon DEF PmChange, createPaths
    <3>2. CASE perspective = "server"
      BY <1>0, <1>3, <3>2, Zenon DEF PmChange, createPaths
    <3> QED
      BY <3>1, <3>2
  <2>2. paths' = paths
    BY <1>3 DEF PmChange, paths
  <2>3. KnownPaths' /\ Numbering' /\ AfterHandshake'
    BY <1>3, <2>2 DEF PmChange, createPaths, KnownPaths, Numbering, AfterHandshake, Closing
  <2>4. ToldForAReason' /\ Told' /\ LoopsEnd'
    BY <1>3 DEF PmChange, createPaths, ToldForAReason, Told, LoopsEnd, AllTold, Closing, open
  <2> QED
    BY <2>1, <2>3, <2>4
<1>4. CASE PmNext
  <2>1. Types' /\ paths' = paths
    <3>1. CASE pm.todo > 0
      <4> DEFINE left == pm.todo - 1
      <4>1. left \in Nat /\ pm' = [pm EXCEPT !.at = "lock", !.todo = left]
        BY <1>4, <3>1 DEF PmNext
      <4> HIDE DEF left
      <4> QED
        BY <1>4, <4>1, Zenon DEF PmNext, paths
    <3>2. CASE ~(pm.todo > 0)
      BY <1>4, <3>2 DEF PmNext, paths
    <3> QED
      BY <3>1, <3>2
  <2>2. KnownPaths' /\ Numbering' /\ AfterHandshake'
    BY <1>4, <2>1 DEF PmNext, KnownPaths, Numbering, AfterHandshake, Closing
  <2>3. ToldForAReason' /\ Told' /\ LoopsEnd'
    BY <1>4 DEF PmNext, ToldForAReason, Told, LoopsEnd, AllTold, Closing, open
  <2> QED
    BY <2>1, <2>2, <2>3
<1>5. CASE PmClosePaths
  <2>1. Types' /\ paths' = paths
    BY <1>5 DEF PmClosePaths, closePaths, paths, open
  <2>2. KnownPaths' /\ Numbering' /\ AfterHandshake'
    BY <1>5, <2>1 DEF PmClosePaths, KnownPaths, Numbering, AfterHandshake, Closing
  <2>3. ToldForAReason' /\ Told' /\ LoopsEnd'
    BY <1>5, ZenonT(30)
       DEF PmClosePaths, closePaths, KnownPaths, ToldForAReason, Told, LoopsEnd, AllTold,
           Closing, open, paths
  <2> QED
    BY <2>1, <2>2, <2>3
<1>6. CASE NewInterface
  <2>1. Types' /\ paths' = paths
    BY <1>6 DEF NewInterface, paths
  <2>2. KnownPaths' /\ Numbering' /\ AfterHandshake'
    BY <1>6, <2>1 DEF NewInterface, KnownPaths, Numbering, AfterHandshake, Closing
  <2>3. ToldForAReason' /\ Told' /\ LoopsEnd'
    BY <1>6 DEF NewInterface, ToldForAReason, Told, LoopsEnd, AllTold, Closing, open
  <2> QED
    BY <2>1, <2>2, <2>3
<1>7. CASE PathExists
  <2>1. Types' /\ paths' = paths
    BY <1>7 DEF PathExists, paths
  <2>2. KnownPaths' /\ Numbering' /\ AfterHandshake'
    BY <1>7, <2>1 DEF PathExists, KnownPaths, Numbering, AfterHandshake, Closing
  <2>3. ToldForAReason' /\ Told' /\ LoopsEnd'
    BY <1>7 DEF PathExists, ToldForAReason, Told, LoopsEnd, AllTold, Closing, open
  <2> QED
    BY <2>1, <2>2, <2>3
<1> QED
  BY <1>1, <1>2, <1>3, <1>4, <1>5, <1>6, <1>7

(***************************************************************************)
(* The session loop while it runs: it tells paths to end only for a        *)
(* CLOSE_PATH frame.                                                       *)
(***************************************************************************)
LEMMA LoopPreserves ==
    ASSUME IInv,
           \/ Top \/ SelectWake \/ SelectHandshakeComplete \/ Body \/ sendPackedPacket
           \/ Timeouts \/ closePath
           \/ \E reason \in {"local", "remote"} : SelectFatalPacket(reason)
           \/ \E p \in PathIDs : SelectPathTimer(p) \/ handleClosePathFrame(p)
    PROVE  IInv'
<1> USE PathsAssumption DEF IInv, Types, SessionType, rest
<1>1. CASE Top
  <2>1. Types' /\ paths' = paths
    BY <1>1, Zenon DEF Top, At, paths
  <2>2. KnownPaths' /\ Numbering' /\ AfterHandshake'
    BY <1>1, <2>1 DEF Top, At, KnownPaths, Numbering, AfterHandshake, Closing
  <2>3. ToldForAReason' /\ Told' /\ LoopsEnd'
    BY <1>1, <2>1 DEF Top, At, ToldForAReason, Told, LoopsEnd, AllTold, Closing, open
  <2> QED
    BY <2>1, <2>2, <2>3
<1>2. CASE SelectWake
  <2>1. Types' /\ paths' = paths
    BY <1>2, Zenon DEF SelectWake, At, paths
  <2>2. KnownPaths' /\ Numbering' /\ AfterHandshake'
    BY <1>2, <2>1 DEF SelectWake, At, KnownPaths, Numbering, AfterHandshake, Closing
  <2>3. ToldForAReason' /\ Told' /\ LoopsEnd'
    BY <1>2, <2>1 DEF SelectWake, At, ToldForAReason, Told, LoopsEnd, AllTold, Closing, open
  <2> QED
    BY <2>1, <2>2, <2>3
<1>3. CASE SelectHandshakeComplete
  <2>1. Types' /\ paths' = paths
    BY <1>3, Zenon DEF SelectHandshakeComplete, paths
  <2>2. KnownPaths' /\ Numbering' /\ AfterHandshake'
    BY <1>3, <2>1 DEF SelectHandshakeComplete, KnownPaths, Numbering, AfterHandshake, Closing
  <2>3. ToldForAReason' /\ Told' /\ LoopsEnd'
    BY <1>3, <2>1
       DEF SelectHandshakeComplete, ToldForAReason, Told, LoopsEnd, AllTold, Closing, open
  <2> QED
    BY <2>1, <2>2, <2>3
<1>4. CASE Body
  <2> DEFINE launch == sess.handshakeComplete /\ ~sess.launched
             launched == sess.launched \/ launch
             told == pm.handshakeCompleted \/ launch
  <2>1. launched \in BOOLEAN /\ told \in BOOLEAN /\ (told => sess.handshakeComplete)
    BY DEF ManagerType, AfterHandshake
  <2>2. /\ sess.at = "body" /\ pm' = [pm EXCEPT !.handshakeCompleted = told]
        /\ UNCHANGED <<perspective, closing, loop, closeChan, sentPacket, pairs, change, started>>
    BY <1>4, ZenonT(30) DEF Body
  <2>3. \/ sess' = [sess EXCEPT !.at = "timeouts", !.launched = launched]
        \/ \E p \in paths, locked \in BOOLEAN :
              sess' = [sess EXCEPT !.at = "enqueue", !.launched = launched,
                                   !.path = p, !.locked = locked]
    BY <1>4, Zenon DEF Body
  <2> HIDE DEF launched, told
  <2>4. pm' \in ManagerType /\ paths' = paths
    BY <2>1, <2>2 DEF ManagerType, paths
  <2>5. CASE sess' = [sess EXCEPT !.at = "timeouts", !.launched = launched]
    <3>1. Types'
      BY <2>1, <2>2, <2>4, <2>5, Zenon
    <3>2. KnownPaths' /\ Numbering' /\ AfterHandshake'
      BY <2>1, <2>2, <2>4, <2>5 DEF ManagerType, KnownPaths, Numbering, AfterHandshake, Closing
    <3>3. ToldForAReason' /\ Told' /\ LoopsEnd'
      BY <2>2, <2>5 DEF ManagerType, ToldForAReason, Told, LoopsEnd, Closing
    <3> QED
      BY <3>1, <3>2, <3>3
  <2>6. ASSUME NEW p \in paths, NEW locked \in BOOLEAN,
               sess' = [sess EXCEPT !.at = "enqueue", !.launched = launched,
                                    !.path = p, !.locked = locked]
        PROVE  IInv'
    <3>1. Types'
      BY <2>1, <2>2, <2>4, <2>6, Zenon DEF paths
    <3>2. KnownPaths' /\ Numbering' /\ AfterHandshake'
      BY <2>1, <2>2, <2>4, <2>6 DEF ManagerType, KnownPaths, Numbering, AfterHandshake, Closing
    <3>3. ToldForAReason' /\ Told' /\ LoopsEnd'
      BY <2>2, <2>6 DEF ManagerType, ToldForAReason, Told, LoopsEnd, Closing
    <3> QED
      BY <3>1, <3>2, <3>3
  <2> QED
    BY <2>3, <2>5, <2>6, ZenonT(30)
<1>5. CASE sendPackedPacket
  <2>1. Types' /\ paths' = paths
    BY <1>5, Zenon DEF sendPackedPacket, None, paths
  <2>2. KnownPaths' /\ Numbering' /\ AfterHandshake'
    BY <1>5, <2>1 DEF sendPackedPacket, None, KnownPaths, Numbering, AfterHandshake, Closing
  <2>3. ToldForAReason' /\ Told' /\ LoopsEnd'
    BY <1>5, <2>1 DEF sendPackedPacket, None, ToldForAReason, Told, LoopsEnd, AllTold, Closing, open
  <2> QED
    BY <2>1, <2>2, <2>3
<1>6. CASE Timeouts
  <2>1. Types' /\ paths' = paths
    <3>1. CASE closing' = closing
      BY <1>6, <3>1, Zenon DEF Timeouts, At, paths
    <3>2. CASE closing' = [once |-> TRUE, chan |-> "local"]
      BY <1>6, <3>2, Zenon DEF Timeouts, At, paths
    <3> QED
      BY <1>6, <3>1, <3>2 DEF Timeouts, Close
  <2>2. KnownPaths' /\ Numbering' /\ AfterHandshake'
    BY <1>6, <2>1 DEF Timeouts, At, Close, KnownPaths, Numbering, AfterHandshake, Closing
  <2>3. ToldForAReason' /\ Told' /\ LoopsEnd'
    BY <1>6, <2>1 DEF Timeouts, At, Close, ToldForAReason, Told, LoopsEnd, AllTold, Closing, open
  <2> QED
    BY <2>1, <2>2, <2>3
<1>7. CASE closePath
  <2>1. Types' /\ paths' = paths
    <3>1. sess.path \in PathIDs /\ sess' \in SessionType
      BY <1>7, Zenon DEF closePath, KnownPaths, paths
    <3>2. closeChan' \in [PathIDs -> BOOLEAN]
      BY <1>7, <3>1 DEF closePath, open
    <3> QED
      BY <1>7, <3>1, <3>2 DEF closePath, paths
  <2>2. KnownPaths' /\ Numbering' /\ AfterHandshake'
    BY <1>7, <2>1 DEF closePath, None, open, KnownPaths, Numbering, AfterHandshake, Closing
  <2>3. ToldForAReason' /\ Told' /\ LoopsEnd'
    BY <1>7, <2>1 DEF closePath, None, open, ToldForAReason, Told, LoopsEnd, AllTold, Closing, open
  <2> QED
    BY <2>1, <2>2, <2>3
<1>8. ASSUME NEW reason \in {"local", "remote"}, SelectFatalPacket(reason) PROVE IInv'
  <2>1. Types' /\ paths' = paths
    BY <1>8, Zenon DEF SelectFatalPacket, At, Close, paths
  <2>2. KnownPaths' /\ Numbering' /\ AfterHandshake'
    BY <1>8, <2>1 DEF SelectFatalPacket, At, Close, KnownPaths, Numbering, AfterHandshake, Closing
  <2>3. ToldForAReason' /\ Told' /\ LoopsEnd'
    BY <1>8, <2>1
       DEF SelectFatalPacket, At, Close, ToldForAReason, Told, LoopsEnd, AllTold, Closing, open
  <2> QED
    BY <2>1, <2>2, <2>3
<1>9. ASSUME NEW p \in PathIDs, SelectPathTimer(p) PROVE IInv'
  <2>1. Types' /\ paths' = paths
    BY <1>9, ZenonT(30) DEF SelectPathTimer, At, paths
  <2>2. KnownPaths' /\ Numbering' /\ AfterHandshake'
    BY <1>9, <2>1 DEF SelectPathTimer, At, KnownPaths, Numbering, AfterHandshake, Closing
  <2>3. ToldForAReason' /\ Told' /\ LoopsEnd'
    BY <1>9, <2>1 DEF SelectPathTimer, At, ToldForAReason, Told, LoopsEnd, AllTold, Closing, open
  <2> QED
    BY <2>1, <2>2, <2>3
<1>10. ASSUME NEW p \in PathIDs, handleClosePathFrame(p) PROVE IInv'
  <2>1. /\ sess.at = "select" /\ p \in paths /\ paths' = paths
        /\ UNCHANGED <<perspective, pm, pairs, change, closing, loop, closeChan, sentPacket, started>>
        /\ \/ sess' = [sess EXCEPT !.at = "body", !.path = None]
           \/ sess' = [sess EXCEPT !.at = "closePath", !.path = p]
    BY <1>10, ZenonT(30) DEF handleClosePathFrame, paths
  <2>2. CASE sess' = [sess EXCEPT !.at = "body", !.path = None]
    <3>1. Types'
      BY <2>1, <2>2, Zenon
    <3>2. KnownPaths' /\ Numbering' /\ AfterHandshake'
      BY <2>1, <2>2 DEF KnownPaths, Numbering, AfterHandshake, Closing
    <3>3. ToldForAReason' /\ Told' /\ LoopsEnd'
      BY <2>1, <2>2 DEF ToldForAReason, Told, LoopsEnd, Closing
    <3> QED
      BY <3>1, <3>2, <3>3
  <2>3. CASE sess' = [sess EXCEPT !.at = "closePath", !.path = p]
    <3>1. Types'
      BY <2>1, <2>3, Zenon
    <3>2. KnownPaths' /\ Numbering' /\ AfterHandshake'
      BY <2>1, <2>3 DEF KnownPaths, Numbering, AfterHandshake, Closing
    <3>3. ToldForAReason' /\ Told' /\ LoopsEnd'
      BY <2>1, <2>3 DEF ToldForAReason, Told, LoopsEnd, Closing
    <3> QED
      BY <3>1, <3>2, <3>3
  <2> QED
    BY <2>1, <2>2, <2>3
<1> QED
  BY <1>1, <1>2, <1>3, <1>4, <1>5, <1>6, <1>7, <1>8, <1>9, <1>10, ZenonT(30)

(***************************************************************************)
(* The end of the session.                                                 *)
(***************************************************************************)
LEMMA ClosePreserves ==
    ASSUME IInv,
           \/ TopClose \/ SelectClose \/ handleCloseError \/ Ended
           \/ \E p \in PathIDs : MeetNewPath(p)
           \/ \E reason \in {"local", "version"} : AppClose(reason)
    PROVE  IInv'
<1> USE PathsAssumption DEF IInv, Types, SessionType, rest
<1>1. CASE TopClose
  <2>1. Types' /\ paths' = paths
    BY <1>1, Zenon DEF TopClose, paths
  <2>2. KnownPaths' /\ Numbering' /\ AfterHandshake'
    BY <1>1, <2>1 DEF TopClose, KnownPaths, Numbering, AfterHandshake, Closing
  <2>3. AllTold'
    BY <1>1, Zenon DEF TopClose, AllTold, open, paths
  <2>4. ToldForAReason' /\ Told' /\ LoopsEnd'
    BY <1>1, <2>3 DEF TopClose, ToldForAReason, Told, LoopsEnd, Closing
  <2> QED
    BY <2>1, <2>2, <2>4
<1>2. CASE SelectClose
  <2>1. Types' /\ paths' = paths
    BY <1>2, Zenon DEF SelectClose, closePaths, ManagerType, open, paths
  <2>2. KnownPaths' /\ Numbering' /\ AfterHandshake'
    BY <1>2, <2>1
       DEF SelectClose, closePaths, ManagerType, open, KnownPaths, Numbering, AfterHandshake, Closing
  <2>3. ToldForAReason' /\ Told' /\ LoopsEnd'
    BY <1>2, <2>1
       DEF SelectClose, closePaths, ManagerType, open, ToldForAReason, Told, LoopsEnd, AllTold, Closing, open
  <2> QED
    BY <2>1, <2>2, <2>3
<1>3. CASE handleCloseError
  <2>1. paths' = paths
    BY <1>3 DEF handleCloseError, paths
  <2>2. CASE sess.reason = "version"
    <3>1. /\ sess.at = "close" /\ sess' = [sess EXCEPT !.at = "ended", !.awaited = paths]
          /\ UNCHANGED <<perspective, pm, pairs, change, closing, loop, closeChan, sentPacket, started>>
      BY <1>3, <2>2 DEF handleCloseError
    <3>2. AllTold
      BY <2>2, <3>1 DEF AfterHandshake, Told
    <3>3. Types'
      BY <3>1, Zenon DEF paths
    <3>4. KnownPaths' /\ Numbering' /\ AfterHandshake'
      BY <2>1, <3>1 DEF KnownPaths, Numbering, AfterHandshake, Closing
    <3>5. ToldForAReason' /\ Told'
      BY <3>1 DEF ToldForAReason, Told, Closing
    <3>6. LoopsEnd'
      BY <3>1, <3>2 DEF LoopsEnd, AllTold, open, paths
    <3> QED
      BY <3>3, <3>4, <3>5, <3>6
  <2>3. CASE sess.reason # "version"
    <3>1. /\ sess.at = "close" /\ sess' = [sess EXCEPT !.at = "await", !.awaited = paths]
          /\ closeChan' = [p \in PathIDs |-> closeChan[p] \/ open(p)]
          /\ UNCHANGED <<perspective, pm, pairs, change, closing, loop, sentPacket, started>>
      BY <1>3, <2>3 DEF handleCloseError, closePaths
    <3>2. AllTold'
      BY <3>1, Zenon DEF AllTold, open
    <3>3. Types'
      BY <3>1, Zenon DEF paths, open
    <3>4. KnownPaths' /\ Numbering' /\ AfterHandshake'
      BY <2>1, <2>3, <3>1 DEF KnownPaths, Numbering, AfterHandshake, Closing
    <3>5. ToldForAReason' /\ Told' /\ LoopsEnd'
      BY <3>1, <3>2 DEF ToldForAReason, Told, LoopsEnd, Closing
    <3> QED
      BY <3>3, <3>4, <3>5
  <2> QED
    BY <2>2, <2>3
<1>4. CASE Ended
  <2>1. Types' /\ paths' = paths
    BY <1>4, Zenon DEF Ended, At, paths
  <2>2. KnownPaths' /\ Numbering' /\ AfterHandshake'
    BY <1>4, <2>1 DEF Ended, At, KnownPaths, Numbering, AfterHandshake, Closing
  <2>3. ToldForAReason' /\ Told' /\ LoopsEnd'
    BY <1>4, <2>1 DEF Ended, At, ToldForAReason, Told, LoopsEnd, AllTold, Closing, open
  <2> QED
    BY <2>1, <2>2, <2>3
<1>5. ASSUME NEW p \in PathIDs, MeetNewPath(p) PROVE IInv'
  <2>1. Types' /\ paths' = paths
    BY <1>5, Zenon DEF MeetNewPath, paths
  <2>2. KnownPaths' /\ Numbering' /\ AfterHandshake'
    BY <1>5, <2>1 DEF MeetNewPath, KnownPaths, Numbering, AfterHandshake, Closing
  <2>3. ToldForAReason' /\ Told' /\ LoopsEnd'
    BY <1>5, <2>1 DEF MeetNewPath, ToldForAReason, Told, LoopsEnd, AllTold, Closing, open
  <2> QED
    BY <2>1, <2>2, <2>3
<1>6. ASSUME NEW reason \in {"local", "version"}, AppClose(reason) PROVE IInv'
  <2>1. Types' /\ paths' = paths
    BY <1>6 DEF AppClose, Close, paths
  <2>2. KnownPaths' /\ Numbering' /\ AfterHandshake'
    BY <1>6, <2>1 DEF AppClose, Close, KnownPaths, Numbering, AfterHandshake, Closing
  <2>3. ToldForAReason' /\ Told' /\ LoopsEnd'
    BY <1>6, <2>1 DEF AppClose, Close, ToldForAReason, Told, LoopsEnd, AllTold, Closing, open
  <2> QED
    BY <2>1, <2>2, <2>3
<1> QED
  BY <1>1, <1>2, <1>3, <1>4, <1>5, <1>6

-----------------------------------------------------------------------------
(***************************************************************************)
(* Path loops that start for new paths: s.paths grows by just these.       *)
(***************************************************************************)
LEMMA SetupPaths ==
    ASSUME IInv, NEW ids \in SUBSET PathIDs, IsFiniteSet(ids), ids \cap paths = {}, setup(ids)
    PROVE  /\ loop' \in [PathIDs -> {"none", "wait", "relay", "ended"}]
           /\ \A p \in PathIDs : loop'[p] = IF p \in ids THEN "wait" ELSE loop[p]
           /\ paths' = paths \cup ids
           /\ Cardinality(ids) \in Nat /\ started' = started + Cardinality(ids)
           /\ IsFiniteSet(paths') /\ started' = Cardinality(paths')
<1>1. /\ loop' \in [PathIDs -> {"none", "wait", "relay", "ended"}]
      /\ \A p \in PathIDs : loop'[p] = IF p \in ids THEN "wait" ELSE loop[p]
      /\ started' = started + Cardinality(ids)
  BY DEF setup, IInv, Types
<1>2. paths' = paths \cup ids
  BY <1>1 DEF paths
<1>3. /\ Cardinality(ids) \in Nat /\ Cardinality(ids \cap paths) = 0
      /\ IsFiniteSet(paths) /\ started = Cardinality(paths) /\ started \in Nat
  BY FS_CardinalityType, FS_EmptySet, Zenon DEF IInv, Numbering, Types
<1>4. IsFiniteSet(paths \cup ids) /\ Cardinality(paths \cup ids) = started + Cardinality(ids)
  <2>1. Cardinality(paths \cap ids) = 0
    BY FS_EmptySet
  <2>2. /\ IsFiniteSet(paths \cup ids)
        /\ Cardinality(paths \cup ids) =
             Cardinality(paths) + Cardinality(ids) - Cardinality(paths \cap ids)
    BY <1>3, FS_Union
  <2> QED
    BY <1>3, <2>1, <2>2
<1> QED
  BY <1>1, <1>2, <1>3, <1>4

\* Every second number, n of them.
LEMMA EverySecond ==
    ASSUME NEW a \in Int, NEW n \in Nat, NEW S, S = {a + 2 * k : k \in 1 .. n}
    PROVE  IsFiniteSet(S) /\ Cardinality(S) = n
<1> DEFINE f == [k \in 1 .. n |-> a + 2 * k]
<1>1. f \in [1 .. n -> S]
  OBVIOUS
<1>2. \A k, m \in 1 .. n : f[k] = f[m] => k = m
  OBVIOUS
<1>3. \A x \in S : \E k \in 1 .. n : f[k] = x
  OBVIOUS
<1>4. f \in Bijection(1 .. n, S)
  <2>1. DOMAIN f = 1 .. n
    OBVIOUS
  <2> HIDE DEF f
  <2> QED
    BY <1>1, <1>2, <1>3, <2>1, Zenon DEF Bijection, Injection, Surjection, IsInjective
<1>5. ExistsBijection(1 .. n, S)
  BY <1>4 DEF ExistsBijection
<1>6. IsFiniteSet(1 .. n) /\ Cardinality(1 .. n) = n
  BY FS_Interval
<1> QED
  BY <1>5, <1>6, FS_Bijection

(***************************************************************************)
(* The path manager of a client creates a path for an address pair.        *)
(***************************************************************************)
LEMMA createPathPreserves ==
    ASSUME IInv, createPath
    PROVE  IInv'
<1> USE PathsAssumption DEF IInv, Types
<1> DEFINE id == pm.nxtPathID
<1>1. /\ perspective = "client" /\ sess.handshakeComplete
      /\ id = 2 * started - 1 /\ started <= pairs /\ id \notin paths /\ started \in Nat \ {0}
  <2>1. perspective = "client" /\ sess.handshakeComplete
    BY DEF createPath, Numbering, AfterHandshake
  <2>2. id = 2 * started - 1 /\ started <= pairs /\ id \notin paths
    <3>1. pairs + 1 - Cardinality(paths) > 0
      BY DEF createPath, missing
    <3> QED
      BY <2>1, <3>1 DEF Numbering
  <2> QED
    BY <2>1, <2>2 DEF ManagerType
<1>2. id \in PathIDs
  BY <1>1
<1>3. IsFiniteSet({id}) /\ Cardinality({id}) = 1
  BY FS_Singleton, Zenon
<1>4. /\ loop' \in [PathIDs -> {"none", "wait", "relay", "ended"}]
      /\ \A p \in PathIDs : loop'[p] = IF p \in {id} THEN "wait" ELSE loop[p]
      /\ paths' = paths \cup {id} /\ started' = started + 1
      /\ IsFiniteSet(paths') /\ started' = Cardinality(paths')
  BY <1>1, <1>2, <1>3, SetupPaths DEF createPath
<1>5. PICK ok \in BOOLEAN :
        /\ pm' = [pm EXCEPT !.nxtPathID = @ + 2,
                            !.at = IF ok THEN "create" ELSE IF pm.first THEN "closing" ELSE "loop",
                            !.todo = IF ok THEN @ ELSE 0,
                            !.failed = @ \/ (~ok /\ pm.first)]
        /\ sentPacket' = [sentPacket EXCEPT ![pm.nxtPathID] = TRUE]
  BY Zenon DEF createPath
<1>6. pm.at = "lock" /\ UNCHANGED <<perspective, sess, closing, closeChan, pairs, change>>
  BY DEF createPath, others
<1> DEFINE failed == pm.failed \/ (~ok /\ pm.first)
<1>7. failed \in BOOLEAN /\ (pm.failed => failed) /\ (~ok /\ pm.first => failed)
  BY DEF ManagerType
<1>8. PICK at \in {"create", "closing", "loop"}, todo \in Nat :
        /\ pm' = [pm EXCEPT !.nxtPathID = @ + 2, !.at = at, !.todo = todo, !.failed = failed]
        /\ at = "closing" => failed
  <2>t. pm.todo \in Nat /\ 0 \in Nat
    BY DEF ManagerType
  <2>1. CASE ok
    BY <1>5, <2>t, <2>1
  <2>2. CASE ~ok /\ pm.first
    BY <1>5, <2>t, <2>2
  <2>3. CASE ~ok /\ ~pm.first
    BY <1>5, <2>t, <2>3, Zenon
  <2> QED
    BY <2>1, <2>2, <2>3
<1> HIDE DEF failed
<1>9. /\ pm' \in ManagerType /\ pm'.nxtPathID = id + 2
      /\ pm'.at \in {"create", "closing", "loop"}
  <2>1. /\ pm \in ManagerType /\ at \in {"create", "closing", "loop"} /\ failed \in BOOLEAN
        /\ todo \in Nat
    BY <1>7
  <2>2. id + 2 \in Nat
    BY DEF ManagerType
  <2> QED
    BY ONLY <1>8, <2>1, <2>2, Zenon DEF ManagerType
<1>10. /\ pm'.runClosed = pm.runClosed /\ pm'.handshakeCompleted = pm.handshakeCompleted
      /\ (pm.failed => pm'.failed) /\ (pm'.at = "closing" => pm'.failed)
  BY <1>7, <1>8 DEF ManagerType
<1>11. Types'
  BY <1>2, <1>4, <1>5, <1>6, <1>9
<1>12. KnownPaths'
  BY <1>4, <1>6 DEF KnownPaths
<1>13. Numbering'
  BY <1>1, <1>2, <1>4, <1>6, <1>9 DEF Numbering, paths
<1>14. AfterHandshake' /\ Told'
  BY <1>1, <1>6, <1>9, <1>10 DEF AfterHandshake, Told, Closing
<1>15. ToldForAReason'
  BY <1>4, <1>6, <1>10 DEF ToldForAReason, Closing
<1>16. LoopsEnd'
  <2>1. \A p \in sess.awaited : p \in PathIDs /\ p # id
    BY <1>1 DEF KnownPaths, paths
  <2>2. \A p \in sess.awaited : loop'[p] = loop[p]
    BY <1>4, <2>1, Zenon
  <2> QED
    BY <1>6, <2>2 DEF LoopsEnd
<1> QED
  BY <1>11, <1>12, <1>13, <1>14, <1>15, <1>16

(***************************************************************************)
(* The session of a server meets a path that the client has created.       *)
(***************************************************************************)
LEMMA createPathFromRemotePreserves ==
    ASSUME IInv, NEW id \in PathIDs, createPathFromRemote(id)
    PROVE  IInv'
<1> USE PathsAssumption DEF IInv, Types
<1>1. /\ perspective = "server" /\ sess.at = "select" /\ id \notin paths
      /\ sess' = [sess EXCEPT !.at = "body"]
      /\ UNCHANGED <<perspective, pm, pairs, change, closing, closeChan, sentPacket>>
  BY DEF createPathFromRemote, At, rest
<1>2. IsFiniteSet({id}) /\ Cardinality({id}) = 1
  BY FS_Singleton, Zenon
<1>3. /\ loop' \in [PathIDs -> {"none", "wait", "relay", "ended"}]
      /\ \A p \in PathIDs : loop'[p] = IF p \in {id} THEN "wait" ELSE loop[p]
      /\ paths' = paths \cup {id} /\ started' = started + 1
      /\ IsFiniteSet(paths') /\ started' = Cardinality(paths')
  BY <1>1, <1>2, SetupPaths DEF createPathFromRemote
<1>4. Types'
  <2>1. sess' \in SessionType
    BY <1>1, Zenon DEF SessionType
  <2>2. started' \in Nat
    BY <1>3
  <2> QED
    BY <1>1, <1>3, <2>1, <2>2
<1>5. KnownPaths' /\ Numbering'
  BY <1>1, <1>3 DEF KnownPaths, Numbering, SessionType
<1>6. AfterHandshake' /\ Told' /\ LoopsEnd'
  BY <1>1 DEF AfterHandshake, Told, LoopsEnd, Closing, SessionType
<1>7. ToldForAReason'
  BY <1>1, <1>3 DEF ToldForAReason, Closing, SessionType
<1> QED
  BY <1>4, <1>5, <1>6, <1>7

(***************************************************************************)
(* The session of a client creates the paths for a new address: the next   *)
(* numbers, up to the m-th address pair, without a hole.                   *)
(***************************************************************************)
LEMMA handleAddAddressFramePreserves ==
    ASSUME IInv, handleAddAddressFrame
    PROVE  IInv'
<1> USE PathsAssumption DEF IInv, Types
<1> DEFINE upTo(m) == {p \in PathIDs \ paths : p >= pm.nxtPathID /\ p <= 2 * m - 1 /\ p % 2 = 1}
           all == {p \in PathIDs \ paths : p >= pm.nxtPathID /\ p <= 2 * pairs + 1 /\ p % 2 = 1}
           create(ids) ==
              /\ setup(ids)
              /\ sentPacket' = [p \in PathIDs |-> sentPacket[p] \/ p \in ids]
              /\ pm' = [pm EXCEPT !.nxtPathID = @ + 2 * Cardinality(ids)]
<1>0. /\ sess.at = "select" /\ perspective = "client"
      /\ pairs < MaxPairs /\ pairs' = pairs + 1 /\ pm.at \notin {"create", "lock"}
      /\ UNCHANGED <<perspective, closeChan, change>>
  BY DEF handleAddAddressFrame
<1>a. /\ closing' \in [once : BOOLEAN, chan : {"none", "local", "remote", "version"}]
      /\ closing'.chan = "version" => closing.chan = "version"
      /\ \E at \in {"body", "top"} : sess' = [sess EXCEPT !.at = at]
  <2>1. \/ sess' = [sess EXCEPT !.at = "body"] /\ closing' = closing
        \/ sess' = [sess EXCEPT !.at = "top"] /\ Close("local")
    BY Zenon DEF handleAddAddressFrame, At
  <2>2. closing' = closing \/ closing' = [once |-> TRUE, chan |-> "local"]
    BY <2>1, Zenon DEF Close
  <2>3. \E at \in {"body", "top"} : sess' = [sess EXCEPT !.at = at]
    BY <2>1, Zenon
  <2>4. /\ closing' \in [once : BOOLEAN, chan : {"none", "local", "remote", "version"}]
        /\ closing'.chan = "version" => closing.chan = "version"
    <3>1. CASE closing' = closing
      BY <3>1
    <3>2. CASE closing' = [once |-> TRUE, chan |-> "local"]
      <4> DEFINE yes == TRUE
      <4>1. closing' = [once |-> yes, chan |-> "local"] /\ yes \in BOOLEAN
        BY <3>2
      <4> HIDE DEF yes
      <4> QED
        BY <4>1
    <3> QED
      BY <2>2, <3>1, <3>2
  <2> QED
    BY <2>3, <2>4
<1>b. \E m \in 0 .. pairs + 1 : create(upTo(m))
  <2> HIDE DEF create
  <2>1. CASE create(all)
    <3>1. pairs \in Nat /\ 2 * (pairs + 1) - 1 = 2 * pairs + 1 /\ pairs + 1 \in 0 .. pairs + 1
      OBVIOUS
    <3>2. all = upTo(pairs + 1)
      BY <3>1, Zenon
    <3> QED
      BY <2>1, <3>1, <3>2, Zenon
  <2>2. ASSUME NEW p \in all, create({q \in all : q <= p})
        PROVE  \E m \in 0 .. pairs + 1 : create(upTo(m))
    <3> DEFINE m == (p + 1) \div 2
    <3>1. p \in Nat /\ p <= 2 * pairs + 1 /\ p % 2 = 1
      OBVIOUS
    <3>2. m \in 0 .. pairs + 1 /\ p = 2 * m - 1
      BY <3>1
    <3> HIDE DEF m
    <3>3. \A q \in PathIDs : q <= 2 * pairs + 1 /\ q <= p <=> q <= 2 * m - 1
      BY <3>1, <3>2
    <3>4. {q \in all : q <= p} = upTo(m)
      BY <3>3, Zenon
    <3> QED
      BY <2>2, <3>2, <3>4, Zenon
  <2>3. create(all) \/ \E p \in all : create({q \in all : q <= p})
    BY Zenon DEF handleAddAddressFrame, create
  <2> QED
    BY <2>1, <2>2, <2>3, Zenon
<1>c. PICK m \in 0 .. pairs + 1 : create(upTo(m))
  BY <1>b
<1>d. PICK at \in {"body", "top"} : sess' = [sess EXCEPT !.at = at]
  BY <1>a
<1> DEFINE new == upTo(m)
<1>1. /\ setup(new)
      /\ sentPacket' = [p \in PathIDs |-> sentPacket[p] \/ p \in new]
      /\ pm' = [pm EXCEPT !.nxtPathID = @ + 2 * Cardinality(new)]
  BY <1>c
<1> HIDE DEF create
<1>2. /\ pm.nxtPathID = 2 * started - 1 /\ started \in Nat /\ pairs \in Nat
      /\ \A p \in paths : p < pm.nxtPathID
  BY <1>0 DEF Numbering
<1> DEFINE n == IF started <= m + 1 THEN m + 1 - started ELSE 0
<1>3. n \in Nat /\ m \in Nat
  BY <1>2
<1>4. new = {2 * started - 3 + 2 * k : k \in 1 .. n}
  <2>1. ASSUME NEW p \in new PROVE \E k \in 1 .. n : p = 2 * started - 3 + 2 * k
    <3>1. p \in Nat /\ p >= 2 * started - 1 /\ p <= 2 * m - 1 /\ p % 2 = 1
      BY <1>2
    <3> DEFINE q == (p + 1) \div 2
    <3>2. q \in Int /\ p = 2 * q - 1
      BY <3>1
    <3> HIDE DEF q
    <3>3. q - started + 1 \in 1 .. n /\ p = 2 * started - 3 + 2 * (q - started + 1)
      BY <1>2, <1>3, <3>1, <3>2
    <3> QED
      BY <3>3
  <2>2. ASSUME NEW k \in 1 .. n PROVE 2 * started - 3 + 2 * k \in new
    <3>1. started + k - 1 <= m /\ started + k - 1 \in 0 .. MaxPairs
      BY <1>0, <1>2, <1>3
    <3>2. started >= 1
      BY <1>0, <1>2 DEF ManagerType
    <3> DEFINE j == started + k - 1
    <3>3. 2 * j - 1 \in PathIDs
      <4>1. j \in 1 .. MaxPairs
        BY <1>2, <3>1, <3>2
      <4> HIDE DEF j
      <4> QED
        BY <4>1
    <3>4. /\ 2 * started - 3 + 2 * k = 2 * (started + k - 1) - 1
          /\ 2 * started - 3 + 2 * k >= pm.nxtPathID
          /\ 2 * started - 3 + 2 * k <= 2 * m - 1
          /\ (2 * started - 3 + 2 * k) % 2 = 1
      BY <1>2, <1>3, <3>1, <3>2
    <3>5. 2 * started - 3 + 2 * k \notin paths
      BY <1>2, <3>4
    <3> QED
      BY <3>3, <3>4, <3>5
  <2> HIDE DEF new, n
  <2> QED
    BY <2>1, <2>2
<1>5. IsFiniteSet(new) /\ Cardinality(new) = n
  <2> DEFINE a == 2 * started - 3
  <2>1. a \in Int /\ new = {a + 2 * k : k \in 1 .. n}
    BY <1>2, <1>4
  <2> HIDE DEF new, n, a
  <2> QED
    BY <1>3, <2>1, EverySecond, Zenon
<1>6. /\ loop' \in [PathIDs -> {"none", "wait", "relay", "ended"}]
      /\ \A p \in PathIDs : loop'[p] = IF p \in new THEN "wait" ELSE loop[p]
      /\ paths' = paths \cup new /\ started' = started + n
      /\ IsFiniteSet(paths') /\ started' = Cardinality(paths')
  <2>1. new \in SUBSET PathIDs /\ new \cap paths = {}
    OBVIOUS
  <2> HIDE DEF new, n
  <2> QED
    BY <1>1, <1>5, <2>1, SetupPaths
<1>7. pm' = [pm EXCEPT !.nxtPathID = @ + 2 * n]
  BY <1>1, <1>5, Zenon
<1>8. \A p \in paths' : p < 2 * (started + n) - 1
  <2>1. \A p \in new : p < 2 * (started + n) - 1
    BY <1>2
  <2>2. \A p \in paths : p \in Nat
    BY DEF paths
  <2>3. \A p \in paths : p < 2 * (started + n) - 1
    BY <1>2, <1>3, <2>2
  <2> HIDE DEF new, n
  <2> QED
    BY <1>6, <2>1, <2>3
<1> HIDE DEF new, n
<1>9. Types'
  <2>1. sess' \in SessionType
    BY <1>d, Zenon DEF SessionType
  <2>2. pm' \in ManagerType
    BY <1>3, <1>7 DEF ManagerType
  <2>3. started' \in Nat /\ pairs' \in 1 .. MaxPairs
    BY <1>0, <1>3, <1>6
  <2>4. sentPacket' \in [PathIDs -> BOOLEAN]
    BY <1>1
  <2> QED
    BY <1>0, <1>a, <1>6, <2>1, <2>2, <2>3, <2>4
<1>10. KnownPaths'
  BY <1>0, <1>d, <1>6 DEF KnownPaths, SessionType
<1>11. Numbering'
  <2>1. /\ pm'.nxtPathID = 2 * (started + n) - 1 /\ pm'.at # "lock"
        /\ perspective' = "client" /\ started' = started + n
    BY <1>0, <1>2, <1>3, <1>6, <1>7 DEF ManagerType
  <2> QED
    BY <1>6, <1>8, <2>1 DEF Numbering
<1>12. AfterHandshake' /\ Told' /\ LoopsEnd'
  BY <1>0, <1>a, <1>d, <1>7 DEF AfterHandshake, Told, LoopsEnd, Closing, SessionType, ManagerType
<1>13. ToldForAReason'
  BY <1>0, <1>d, <1>6, <1>7 DEF ToldForAReason, Closing, SessionType, ManagerType
<1> QED
  BY <1>9, <1>10, <1>11, <1>12, <1>13
-----------------------------------------------------------------------------
LEMMA NextPreservesIInv == IInv /\ [Next]_vars => IInv'
<1> SUFFICES ASSUME IInv, [Next]_vars PROVE IInv'
  OBVIOUS
<1>1. CASE Session
  BY <1>1, LoopPreserves, ClosePreserves, createPathFromRemotePreserves,
     handleAddAddressFramePreserves DEF Session
<1>2. CASE PathManager \/ NewInterface
  BY <1>2, ManagerPreserves, createPathPreserves DEF PathManager
<1>3. CASE AppClose("local") \/ AppClose("version")
  BY <1>3, ClosePreserves
<1>4. CASE \E p \in PathIDs : PathTimer(p) \/ PathSent(p) \/ PathEnd(p)
  BY <1>4, PathLoopPreserves
<1>5. CASE UNCHANGED vars
  <2>1. /\ perspective' = perspective /\ sess' = sess /\ closing' = closing /\ loop' = loop
        /\ closeChan' = closeChan /\ sentPacket' = sentPacket /\ pm' = pm /\ pairs' = pairs
        /\ change' = change /\ started' = started
    BY <1>5 DEF vars
  <2>2. paths' = paths
    BY <2>1 DEF paths
  <2>3. Types'
    BY <2>1 DEF IInv, Types
  <2>4. KnownPaths' /\ Numbering' /\ AfterHandshake'
    BY <2>1, <2>2 DEF IInv, KnownPaths, Numbering, AfterHandshake, Closing
  <2>5. ToldForAReason' /\ LoopsEnd'
    BY <2>1 DEF IInv, ToldForAReason, LoopsEnd, Closing
  <2>6. Told'
    BY <2>1 DEF IInv, Told, AllTold, open
  <2> QED
    BY <2>3, <2>4, <2>5, <2>6 DEF IInv
<1> QED
  BY <1>1, <1>2, <1>3, <1>4, <1>5 DEF Next

\* The session loop, the path manager and the path loops keep the inductive
\* invariant in every interleaving of their steps.
THEOREM Invariance == Spec => []IInv
<1> QED
  BY InitIInv, NextPreservesIInv, PTL DEF Spec

\* A path in s.paths is never replaced by another one of the same number: neither
\* by createPath, by handleAddAddressFrame nor by createPathFromRemote, however
\* many paths and address pairs there are.
THEOREM PathsAreNeverReplaced == Spec => []NeverReplaced
<1> QED
  BY Invariance, IInvTyping, PTL

\* When run has returned, every path loop that handleCloseError found has ended
\* or has the message to end in its channel.
THEOREM PathLoopsEnd == Spec => []LoopsEnd
<1>1. IInv => LoopsEnd
  BY DEF IInv
<1> QED
  BY Invariance, <1>1, PTL

\* A session blocks in sendPackedPacket or in handleCloseError only for the causes
\* that HangCauses names.
THEOREM SessionsHangForACause == Spec => []HangCauses
<1>1. IInv => HangCauses
  <2> SUFFICES ASSUME IInv PROVE HangCauses
    OBVIOUS
  <2>1. StuckSending => sess.path \in sess.closedPaths \/ pm.failed
    BY DEF IInv, StuckSending, KnownPaths, ToldForAReason, Closing, paths
  <2>2. StuckClosing => perspective = "client" /\ pm.at \notin {"ended", "start"}
    BY DEF IInv, Types, StuckClosing, Told, AllTold, KnownPaths, paths
  <2> QED
    BY <2>1, <2>2 DEF HangCauses
<1> QED
  BY Invariance, <1>1, PTL
-----------------------------------------------------------------------------
\* One stream and its goroutines.
StreamType ==
    [err : {"nil", "reset", "remote", "closed"}, cancelled : BOOLEAN, collected : BOOLEAN,
     finishedReading : BOOLEAN, finishedWriting : BOOLEAN,
     resetLocally : BOOLEAN, resetRemotely : BOOLEAN, finSent : BOOLEAN, rstSent : BOOLEAN,
     frames : Nat, readChan : BOOLEAN, readDeadline : Nat,
     writeOffset : Nat, dataForWriting : Nat, writeChan : BOOLEAN, writeDeadline : Nat]

ReaderType == [at : {"idle", "loop", "asleep", "copy"}, some : BOOLEAN, timer : Nat]
WriterType == [at : {"idle", "loop", "asleep"}, timer : Nat]
FramerType == [at : {"idle", "data", "fin", "sentFin"}, data : BOOLEAN]
SentType == [fin : NoOffset .. MaxWritten, rst : NoOffset .. MaxWritten]

StreamTypes ==
    /\ s \in StreamType /\ reader \in ReaderType /\ writer \in WriterType
    /\ framer \in FramerType /\ sent \in SentType /\ arrived \in Nat /\ now \in 0 .. LastTime

(***************************************************************************)
(* The bounds behind TypeOK.  A reader only pops frames that arrived, and  *)
(* Write never exceeds the bytes that the stream may have.                 *)
(***************************************************************************)
Bounds ==
    /\ s.frames <= arrived /\ arrived <= MaxFrames + 1
    /\ s.writeOffset + s.dataForWriting <= MaxWritten
    /\ s.readDeadline \in {0} \cup ReadDeadlines /\ s.writeDeadline \in {0} \cup WriteDeadlines

\* The error is set together with the flag that says where it came from.
ErrorHasCause == s.err # "nil" => s.cancelled \/ s.resetLocally \/ s.resetRemotely

(***************************************************************************)
(* Why FinalOffsets is kept.  From the step that decides for a FIN on, the *)
(* stream is closed for Write and drained, so that the FIN's offset cannot *)
(* move.  After a RST_STREAM the error keeps the framer from the data; for *)
(* Reset(nil) there is no error, but also no data, and no Write any more.  *)
(***************************************************************************)
WriteSideClosed ==
    /\ s.finSent \/ framer.at = "sentFin" => s.finishedWriting /\ s.dataForWriting = 0
    /\ s.finSent => sent.fin = s.writeOffset
    /\ s.rstSent => sent.rst = s.writeOffset
    /\ s.rstSent => s.err # "nil" \/ (s.resetLocally /\ s.dataForWriting = 0)

StreamInv ==
    /\ StreamTypes /\ Bounds /\ ErrorHasCause /\ WriteSideClosed
    /\ ReaderNotForgotten /\ WriterNotForgotten
--------------------------------------------------------------------------
LEMMA InitStreamInv == StreamInit => StreamInv
BY LifecycleAssumption
   DEF StreamInit, newStream, Skip, NoOffset, StreamInv, StreamTypes, StreamType, ReaderType,
       WriterType, FramerType,
       SentType, Bounds, ErrorHasCause, WriteSideClosed, ReaderNotForgotten, WriterNotForgotten

\* The invariant gives the type of the state.
LEMMA StreamInvTyping == StreamInv => StreamTypeOK
BY LifecycleAssumption
   DEF StreamInv, StreamTypes, StreamType, ReaderType, WriterType, FramerType, SentType, Bounds,
       StreamTypeOK, NoOffset

(***************************************************************************)
(* Read touches neither the write side nor the error.                      *)
(***************************************************************************)
LEMMA ReadPreserves ==
    ASSUME StreamInv, Read \/ ReadOn
    PROVE  StreamInv'
<1> USE LifecycleAssumption DEF StreamInv, StreamTypes, StreamType, ReaderType
<1>1. CASE Read
  BY <1>1 DEF Read, Bounds, ErrorHasCause, WriteSideClosed, ReaderNotForgotten, WriterNotForgotten
<1>2. CASE ReadLoop
  <2>1. reader' \in ReaderType
    <3>1. \/ reader' = Return
          \/ reader' = [reader EXCEPT !.at = "copy"]
          \/ reader' = [reader EXCEPT !.at = "asleep", !.timer = s.readDeadline]
      BY <1>2 DEF ReadLoop
    <3>2. CASE reader' = Return
      BY <3>2 DEF Return
    <3>3. CASE reader' = [reader EXCEPT !.at = "copy"]
      BY <3>3
    <3>4. CASE reader' = [reader EXCEPT !.at = "asleep", !.timer = s.readDeadline]
      BY <3>4, Zenon
    <3> QED
      BY <3>1, <3>2, <3>3, <3>4
  <2>2. ReaderNotForgotten'
    BY <1>2 DEF ReadLoop, Return, ReaderNotForgotten
  <2>3. StreamTypes' /\ Bounds' /\ ErrorHasCause' /\ WriteSideClosed' /\ WriterNotForgotten'
    BY <1>2, <2>1 DEF ReadLoop, Bounds, ErrorHasCause, WriteSideClosed, WriterNotForgotten
  <2> QED
    BY <2>2, <2>3
<1>3. CASE ReadWakes
  <2>1. reader' \in ReaderType
    BY <1>3, Zenon DEF ReadWakes
  <2>2. s' = [s EXCEPT !.readChan = FALSE] \/ s' = s
    BY <1>3 DEF ReadWakes
  <2>3. s' \in StreamType
    BY <2>2, ZenonT(30)
  <2>4. ReaderNotForgotten'
    BY <1>3 DEF ReadWakes, ReaderNotForgotten
  <2>5. StreamTypes' /\ Bounds' /\ ErrorHasCause' /\ WriteSideClosed' /\ WriterNotForgotten'
    BY <1>3, <2>1, <2>2, <2>3
       DEF ReadWakes, Bounds, ErrorHasCause, WriteSideClosed, WriterNotForgotten
  <2> QED
    BY <2>4, <2>5
<1>4. CASE ReadCopy
  <2> DEFINE done == s.finishedReading \/ (arrived = MaxFrames + 1 /\ s.frames = 1)
  <2>1. /\ s' = [s EXCEPT !.frames = s.frames - 1, !.finishedReading = done]
        /\ UNCHANGED <<writer, framer, arrived, sent, now>>
    BY <1>4 DEF ReadCopy
  <2>2. reader' = Return \/ reader' = [reader EXCEPT !.at = "loop", !.some = TRUE]
    BY <1>4 DEF ReadCopy
  <2>3. s.frames > 0
    BY <1>4 DEF ReadCopy, ReaderNotForgotten
  <2>4. done \in BOOLEAN /\ s.frames - 1 \in Nat
    BY <2>3
  <2> HIDE DEF done
  <2>5. s' \in StreamType /\ s'.frames = s.frames - 1
    BY <2>1, <2>4, Zenon
  <2>6. reader' \in ReaderType /\ reader'.at \in {"idle", "loop"}
    <3>1. CASE reader' = Return
      BY <3>1 DEF Return
    <3>2. CASE reader' = [reader EXCEPT !.at = "loop", !.some = TRUE]
      BY <3>2, Zenon
    <3> QED
      BY <2>2, <3>1, <3>2
  <2>7. StreamTypes' /\ Bounds' /\ ErrorHasCause' /\ WriteSideClosed' /\ WriterNotForgotten'
    BY <2>1, <2>5, <2>6 DEF Bounds, ErrorHasCause, WriteSideClosed, WriterNotForgotten
  <2>8. ReaderNotForgotten'
    BY <2>6 DEF ReaderNotForgotten
  <2> QED
    BY <2>7, <2>8
<1> QED
  BY <1>1, <1>2, <1>3, <1>4 DEF ReadOn

(***************************************************************************)
(* Write sleeps only with data and without an error, and only adds data to *)
(* a stream that is open for it.                                           *)
(***************************************************************************)
LEMMA WritePreserves ==
    ASSUME StreamInv, (\E n \in 1 .. MaxWritten : Write(n)) \/ WriteOn
    PROVE  StreamInv'
<1> USE LifecycleAssumption DEF StreamInv, StreamTypes, StreamType, WriterType
<1>1. ASSUME NEW n \in 1 .. MaxWritten, Write(n) PROVE StreamInv'
  <2>1. StreamTypes'
    BY <1>1 DEF Write, WriteRound
  <2>2. WriteSideClosed'
    BY <1>1 DEF Write, WriteSideClosed
  <2>3. WriterNotForgotten'
    BY <1>1 DEF Write, WriteRound, WriterNotForgotten
  <2>4. Bounds' /\ ErrorHasCause' /\ ReaderNotForgotten'
    BY <1>1 DEF Write, Bounds, ErrorHasCause, ReaderNotForgotten
  <2> QED
    BY <2>1, <2>2, <2>3, <2>4
<1>2. CASE WriteLoop
  <2>1. StreamTypes'
    BY <1>2 DEF WriteLoop, WriteRound
  <2>2. WriterNotForgotten'
    BY <1>2 DEF WriteLoop, WriteRound, WriterNotForgotten
  <2>3. Bounds' /\ ErrorHasCause' /\ WriteSideClosed' /\ ReaderNotForgotten'
    BY <1>2 DEF WriteLoop, Bounds, ErrorHasCause, WriteSideClosed, ReaderNotForgotten
  <2> QED
    BY <2>1, <2>2, <2>3
<1>3. CASE WriteWakes
  <2>1. s' = [s EXCEPT !.writeChan = FALSE] \/ s' = s
    BY <1>3 DEF WriteWakes
  <2>2. s' \in StreamType
    BY <2>1, ZenonT(30)
  <2>3. WriterNotForgotten'
    BY <1>3 DEF WriteWakes, WriterNotForgotten
  <2>4. StreamTypes' /\ Bounds' /\ ErrorHasCause' /\ WriteSideClosed' /\ ReaderNotForgotten'
    BY <1>3, <2>1, <2>2
       DEF WriteWakes, Bounds, ErrorHasCause, WriteSideClosed, ReaderNotForgotten
  <2> QED
    BY <2>3, <2>4
<1> QED
  BY <1>1, <1>2, <1>3 DEF WriteOn

(***************************************************************************)
(* Reset and RegisterRemoteError: st is the stream with the error, what it *)
(* came from and the signals; SendReset adds the RST_STREAM.               *)
(***************************************************************************)
LEMMA SendResetPreserves ==
    ASSUME StreamInv, NEW st \in StreamType, SendReset(st),
           UNCHANGED <<reader, writer, framer, arrived, now>>,
           st.frames = s.frames, st.readDeadline = s.readDeadline,
           st.writeDeadline = s.writeDeadline, st.writeOffset = s.writeOffset,
           st.dataForWriting = s.dataForWriting, st.finishedWriting = s.finishedWriting,
           st.finSent = s.finSent, st.rstSent = s.rstSent,
           st.err # "nil" => st.cancelled \/ st.resetLocally \/ st.resetRemotely,
           st.err # "nil" \/ (st.resetLocally /\ st.dataForWriting = 0),
           reader.at = "asleep" /\ ~st.readChan => st.resetRemotely /\ st.frames = 0,
           writer.at = "asleep" /\ ~st.writeChan => st.dataForWriting > 0 /\ st.err = "nil"
    PROVE  StreamInv'
<1> USE LifecycleAssumption DEF StreamInv, StreamTypes, StreamType, SentType
<1>1. CASE s' = [st EXCEPT !.rstSent = TRUE] /\ sent' = [sent EXCEPT !.rst = st.writeOffset]
  <2>1. st.writeOffset \in NoOffset .. MaxWritten
    BY DEF Bounds, NoOffset
  <2>2. StreamTypes'
    BY <1>1, <2>1, Zenon
  <2>3. Bounds' /\ ErrorHasCause'
    BY <1>1 DEF Bounds, ErrorHasCause
  <2>4. WriteSideClosed'
    BY <1>1 DEF WriteSideClosed
  <2>5. ReaderNotForgotten' /\ WriterNotForgotten'
    BY <1>1 DEF ReaderNotForgotten, WriterNotForgotten
  <2> QED
    BY <2>2, <2>3, <2>4, <2>5
<1>2. CASE s' = st /\ sent' = sent
  BY <1>2 DEF Bounds, ErrorHasCause, WriteSideClosed, ReaderNotForgotten, WriterNotForgotten
<1> QED
  BY <1>1, <1>2 DEF SendReset

\* A Reset that finds an error signals nobody: whoever set it has done so,
\* except for the reader of a stream that the peer has reset.
LEMMA ResetPreserves ==
    ASSUME StreamInv, NEW e \in {"nil", "reset"}, Reset(e)
    PROVE  StreamInv'
<1> USE DEF StreamInv, StreamTypes, StreamType
<1>1. CASE s.err = "nil"
  <2> DEFINE st == [s EXCEPT !.resetLocally = TRUE, !.err = e,
                             !.readChan = TRUE, !.writeChan = TRUE]
  <2>1. SendReset(st) /\ UNCHANGED <<reader, writer, framer, arrived, now>>
    BY <1>1 DEF Reset
  <2>2. st \in StreamType
    BY Zenon
  <2>3. e = "nil" => s.dataForWriting = 0
    BY DEF Reset
  <2> QED
    BY <2>1, <2>2, <2>3, SendResetPreserves, ZenonT(30)
<1>2. CASE s.err # "nil"
  <2> DEFINE st == [s EXCEPT !.resetLocally = TRUE]
  <2>1. SendReset(st) /\ UNCHANGED <<reader, writer, framer, arrived, now>>
    BY <1>2 DEF Reset
  <2>2. st \in StreamType
    BY Zenon
  <2>3. reader.at = "asleep" /\ ~s.readChan => s.resetRemotely /\ s.frames = 0
    BY <1>2 DEF ReaderNotForgotten, ErrorHasCause
  <2> QED
    BY <1>2, <2>1, <2>2, <2>3, SendResetPreserves DEF WriterNotForgotten
<1> QED
  BY <1>1, <1>2

LEMMA RegisterRemoteErrorPreserves ==
    ASSUME StreamInv, RegisterRemoteError
    PROVE  StreamInv'
<1> USE DEF StreamInv, StreamTypes, StreamType
<1>1. CASE s.err = "nil"
  <2> DEFINE st == [s EXCEPT !.resetRemotely = TRUE, !.err = "remote", !.writeChan = TRUE]
  <2>1. SendReset(st) /\ UNCHANGED <<reader, writer, framer, arrived, now>>
    BY <1>1 DEF RegisterRemoteError
  <2>2. st \in StreamType
    BY Zenon
  <2>3. reader.at = "asleep" /\ ~s.readChan => s.frames = 0
    BY DEF ReaderNotForgotten
  <2> QED
    BY <2>1, <2>2, <2>3, SendResetPreserves, ZenonT(30)
<1>2. CASE s.err # "nil"
  <2> DEFINE st == [s EXCEPT !.resetRemotely = TRUE]
  <2>1. SendReset(st) /\ UNCHANGED <<reader, writer, framer, arrived, now>>
    BY <1>2 DEF RegisterRemoteError
  <2>2. st \in StreamType
    BY Zenon
  <2>3. reader.at = "asleep" /\ ~s.readChan => s.frames = 0
    BY DEF ReaderNotForgotten
  <2> QED
    BY <1>2, <2>1, <2>2, <2>3, SendResetPreserves DEF WriterNotForgotten
<1> QED
  BY <1>1, <1>2

\* Cancel wakes both sides, or they were woken when the error was set.
LEMMA CancelPreserves ==
    ASSUME StreamInv, Cancel
    PROVE  StreamInv'
<1> USE LifecycleAssumption DEF StreamInv, StreamTypes, StreamType
<1>1. /\ s' = IF s.err = "nil"
              THEN [s EXCEPT !.cancelled = TRUE, !.err = "closed",
                             !.readChan = TRUE, !.writeChan = TRUE]
              ELSE [s EXCEPT !.cancelled = TRUE]
      /\ UNCHANGED <<reader, writer, framer, arrived, sent, now>>
  BY DEF Cancel
<1>2. StreamTypes' /\ Bounds' /\ ErrorHasCause'
  BY <1>1, ZenonT(30) DEF Bounds, ErrorHasCause
<1>3. WriteSideClosed'
  BY <1>1 DEF WriteSideClosed
<1>4. ReaderNotForgotten'
  BY <1>1 DEF ReaderNotForgotten, ErrorHasCause
<1>5. WriterNotForgotten'
  BY <1>1 DEF WriterNotForgotten
<1> QED
  BY <1>2, <1>3, <1>4, <1>5

\* Close, the deadlines, frames that arrive, and the steps without the framer.
LEMMA OthersPreserve ==
    ASSUME StreamInv,
           \/ CloseStream \/ Collect \/ Tick
           \/ \E t \in ReadDeadlines : SetReadDeadline(t)
           \/ \E t \in WriteDeadlines : SetWriteDeadline(t)
           \/ \E n \in {0, 1} : AddStreamFrame(n)
    PROVE  StreamInv'
<1> USE LifecycleAssumption DEF StreamInv, StreamTypes, StreamType, Bounds, ErrorHasCause, WriteSideClosed,
                                ReaderNotForgotten, WriterNotForgotten
<1>1. CASE CloseStream
  BY <1>1, Zenon DEF CloseStream
<1>2. CASE Collect
  BY <1>2, ZenonT(30) DEF Collect
<1>3. CASE Tick
  BY <1>3 DEF Tick
<1>4. ASSUME NEW t \in ReadDeadlines, SetReadDeadline(t) PROVE StreamInv'
  <2> DEFINE signal == s.readChan \/ t < s.readDeadline
  <2>1. /\ s' = [s EXCEPT !.readDeadline = t, !.readChan = signal]
        /\ UNCHANGED <<reader, writer, framer, arrived, sent, now>>
    BY <1>4, ZenonT(30) DEF SetReadDeadline
  <2>2. signal \in BOOLEAN /\ (s.readChan => signal) /\ t \in Nat
    OBVIOUS
  <2> HIDE DEF signal
  <2>3. StreamTypes'
    BY <2>1, <2>2, Zenon
  <2> QED
    BY <2>1, <2>2, <2>3
<1>5. ASSUME NEW t \in WriteDeadlines, SetWriteDeadline(t) PROVE StreamInv'
  <2> DEFINE signal == s.writeChan \/ t < s.writeDeadline
  <2>1. /\ s' = [s EXCEPT !.writeDeadline = t, !.writeChan = signal]
        /\ UNCHANGED <<reader, writer, framer, arrived, sent, now>>
    BY <1>5, Zenon DEF SetWriteDeadline
  <2>2. signal \in BOOLEAN /\ (s.writeChan => signal) /\ t \in Nat
    OBVIOUS
  <2> HIDE DEF signal
  <2>3. StreamTypes'
    BY <2>1, <2>2, Zenon
  <2> QED
    BY <2>1, <2>2, <2>3
<1>6. ASSUME NEW n \in {0, 1}, AddStreamFrame(n) PROVE StreamInv'
  <2>1. /\ s' = [s EXCEPT !.frames = s.frames + n, !.readChan = TRUE]
        /\ arrived' = arrived + n /\ arrived + n <= MaxFrames + 1
        /\ UNCHANGED <<reader, writer, framer, sent, now>>
    BY <1>6 DEF AddStreamFrame
  <2>2. s.frames + n \in Nat /\ arrived + n \in Nat /\ s.frames + n <= arrived + n
    OBVIOUS
  <2>3. StreamTypes' /\ Bounds'
    BY <2>1, <2>2, Zenon
  <2> QED
    BY <2>1, <2>2, <2>3
<1> QED
  BY <1>1, <1>2, <1>3, <1>4, <1>5, <1>6, Zenon

(***************************************************************************)
(* The framer.  It takes data only without an error, so that no RST_STREAM *)
(* is out whose offset it would move, and a writer that it drained finds   *)
(* the signal.                                                             *)
(***************************************************************************)
LEMMA FramerDataPreserves ==
    ASSUME StreamInv, NEW k \in 0 .. MaxWritten, FramerData(k)
    PROVE  StreamInv'
<1> USE LifecycleAssumption DEF StreamInv, StreamTypes, StreamType, FramerType
<1>1. /\ s' = s \/ (k > 0 /\ s' = getDataForWriting(k))
      /\ framer' = Skip \/ framer' = [Skip EXCEPT !.at = "fin"]
      /\ UNCHANGED <<reader, writer, arrived, sent, now>>
  BY DEF FramerData
<1>2. framer' \in FramerType /\ framer'.at # "sentFin"
  <2>1. CASE framer' = Skip
    BY <2>1 DEF Skip
  <2>2. CASE framer' = [Skip EXCEPT !.at = "fin"]
    BY <2>2, Zenon DEF Skip
  <2> QED
    BY <1>1, <2>1, <2>2
<1>3. CASE s' = s
  BY <1>1, <1>2, <1>3
     DEF Bounds, ErrorHasCause, WriteSideClosed, ReaderNotForgotten, WriterNotForgotten
<1>4. CASE /\ k > 0 /\ s.err = "nil" /\ s.dataForWriting > k
           /\ s' = [s EXCEPT !.dataForWriting = s.dataForWriting - k,
                             !.writeOffset = s.writeOffset + k]
  <2>1. s.dataForWriting - k \in Nat \ {0} /\ s.writeOffset + k \in Nat
    BY <1>4
  <2>2. StreamTypes'
    BY <1>1, <1>2, <1>4, <2>1, Zenon
  <2>3. WriteSideClosed'
    BY <1>1, <1>2, <1>4, <2>1 DEF WriteSideClosed
  <2>4. Bounds' /\ ErrorHasCause' /\ ReaderNotForgotten' /\ WriterNotForgotten'
    BY <1>1, <1>4, <2>1 DEF Bounds, ErrorHasCause, ReaderNotForgotten, WriterNotForgotten
  <2> QED
    BY <2>2, <2>3, <2>4
<1>5. CASE /\ s.err = "nil" /\ s.dataForWriting > 0
           /\ s' = [s EXCEPT !.dataForWriting = 0, !.writeChan = TRUE,
                             !.writeOffset = s.writeOffset + s.dataForWriting]
  <2>1. s.writeOffset + s.dataForWriting \in Nat
    OBVIOUS
  <2>2. StreamTypes'
    BY <1>1, <1>2, <1>5, <2>1, Zenon
  <2>3. WriteSideClosed'
    BY <1>1, <1>2, <1>5, <2>1 DEF WriteSideClosed
  <2>4. Bounds' /\ ErrorHasCause' /\ ReaderNotForgotten' /\ WriterNotForgotten'
    BY <1>1, <1>5, <2>1 DEF Bounds, ErrorHasCause, ReaderNotForgotten, WriterNotForgotten
  <2> QED
    BY <2>2, <2>3, <2>4
<1> QED
  BY <1>1, <1>3, <1>4, <1>5 DEF getDataForWriting

LEMMA FramerPreserves ==
    ASSUME StreamInv, FramerVisit \/ FramerFin \/ FramerSentFin
    PROVE  StreamInv'
<1> USE LifecycleAssumption DEF StreamInv, StreamTypes, StreamType, FramerType, SentType
<1>1. CASE FramerVisit
  <2> DEFINE data == s.err = "nil" /\ s.dataForWriting > 0
  <2>1. /\ framer' = [at |-> "data", data |-> data]
        /\ UNCHANGED <<s, reader, writer, arrived, sent, now>>
    BY <1>1 DEF FramerVisit
  <2>2. data \in BOOLEAN
    OBVIOUS
  <2> HIDE DEF data
  <2> QED
    BY <2>1, <2>2 DEF Bounds, ErrorHasCause, WriteSideClosed, ReaderNotForgotten, WriterNotForgotten
<1>2. CASE FramerFin
  <2>1. /\ framer' = Skip \/ (shouldSendFin /\ framer' = [Skip EXCEPT !.at = "sentFin"])
        /\ UNCHANGED <<s, reader, writer, arrived, sent, now>>
    BY <1>2 DEF FramerFin
  <2>2. framer' \in FramerType /\ (framer'.at = "sentFin" => shouldSendFin)
    <3>1. CASE framer' = Skip
      BY <3>1 DEF Skip
    <3>2. CASE shouldSendFin /\ framer' = [Skip EXCEPT !.at = "sentFin"]
      BY <3>2, Zenon DEF Skip
    <3> QED
      BY <2>1, <3>1, <3>2
  <2>3. WriteSideClosed'
    BY <2>1, <2>2 DEF WriteSideClosed, shouldSendFin
  <2> QED
    BY <2>1, <2>2, <2>3 DEF Bounds, ErrorHasCause, ReaderNotForgotten, WriterNotForgotten
<1>3. CASE FramerSentFin
  <2>1. /\ s' = [s EXCEPT !.finSent = TRUE] /\ sent' = [sent EXCEPT !.fin = s.writeOffset]
        /\ framer' = Skip /\ framer.at = "sentFin"
        /\ UNCHANGED <<reader, writer, arrived, now>>
    BY <1>3 DEF FramerSentFin
  <2>2. s.writeOffset \in NoOffset .. MaxWritten
    BY DEF Bounds, NoOffset
  <2>3. StreamTypes' /\ framer'.at = "idle"
    BY <2>1, <2>2, Zenon DEF Skip
  <2>4. WriteSideClosed'
    BY <2>1, <2>3 DEF WriteSideClosed
  <2> QED
    BY <2>1, <2>3, <2>4 DEF Bounds, ErrorHasCause, ReaderNotForgotten, WriterNotForgotten
<1> QED
  BY <1>1, <1>2, <1>3

LEMMA NextPreservesStreamInv == StreamInv /\ [StreamNext]_streamVars => StreamInv'
<1> SUFFICES ASSUME StreamInv, [StreamNext]_streamVars PROVE StreamInv'
  OBVIOUS
<1>1. CASE UNCHANGED streamVars
  BY <1>1 DEF streamVars, StreamInv, StreamTypes, Bounds, ErrorHasCause, WriteSideClosed,
              ReaderNotForgotten, WriterNotForgotten
<1>2. CASE StreamNext
  BY <1>2, ReadPreserves, WritePreserves, ResetPreserves, RegisterRemoteErrorPreserves,
     CancelPreserves, OthersPreserve, FramerDataPreserves, FramerPreserves DEF StreamNext, Frame
<1> QED
  BY <1>1, <1>2

\* StreamInv holds in every state of every execution.
THEOREM StreamInvariance == StreamSpec => []StreamInv
BY InitStreamInv, NextPreservesStreamInv, PTL DEF StreamSpec
--------------------------------------------------------------------------
\* Whatever interleaving of Read with frames, resets, deadlines and Cancel: no
\* signal to the reader is lost, except on a stream that the peer has reset,
\* and Read never copies from an empty queue.
THEOREM ReaderIsNotForgotten == StreamSpec => []ReaderNotForgotten
BY StreamInvariance, PTL DEF StreamInv

\* No signal to the writer is lost, whether the framer drained its data or the
\* stream got an error.
THEOREM WriterIsNotForgotten == StreamSpec => []WriterNotForgotten
BY StreamInvariance, PTL DEF StreamInv

\* FIN and RST_STREAM carry the final offset of the stream, for streams of any
\* length, and the state keeps its type.
THEOREM OffsetsAreFinal == StreamSpec => []FinalOffsets
<1>1. StreamInv => FinalOffsets
  BY StreamInvTyping DEF StreamInv, WriteSideClosed, FinalOffsets
<1> QED
  BY <1>1, StreamInvariance, PTL
=============================================================================
