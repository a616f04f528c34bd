-------------------------- MODULE StreamScheduler --------------------------
(***************************************************************************)
(* The weighted round-robin stream scheduler (stream_scheduler.go): a tree *)
(* of streams with weights, of which the children lists hold the branches  *)
(* that have something active in them.  schedule() walks down from the     *)
(* root, the header stream, and hands out quanta.  Streams are closed on   *)
(* the walk, once their FIN is sent.                                       *)
(* The estimate of bytesUntilCompletion (childrensWeight, lowestQuantum,   *)
(* numerator, denominator) is left out.                                    *)
(***************************************************************************)
EXTENDS Integers, Sequences, FiniteSets

CONSTANTS
    Streams,              \* the data streams
    Watched,              \* the stream whose turns are counted
    Weights,              \* the weights that priorities set
    DefaultStreamWeight,
    Dependencies,         \* TRUE: priorities name other streams as parents
    MaxLoad               \* bound: priorities that have arrived and streams that
                          \* are blocked, together

ASSUME SchedulerAssumption ==
    /\ Watched \in Streams /\ Streams \cap {0, -1} = {}
    /\ Weights \subseteq Nat /\ DefaultStreamWeight \in Nat
    /\ Dependencies \in BOOLEAN /\ MaxLoad \in Nat

VARIABLES
    t,          \* the streamScheduler
    finished,   \* streams whose FIN is sent (finishedWriteAndSentFin)
    blocked,    \* streams with a send window of 0
    skipped,    \* the stream that SA-ECF is about to skip
    requests,   \* priorities that have arrived
    turns       \* history: selections of other streams since Watched was selected

vars == <<t, finished, blocked, skipped, requests, turns>>

Root == 0
None == -1

newNode ==
    [state |-> "idle", weight |-> DefaultStreamWeight, parent |-> Root, stream |-> TRUE,
     activeChildren |-> 0, children |-> <<>>, quantum |-> 0, nextChild |-> 0]

\* addNode has put the header stream in the root and the data streams, all of
\* which are open, below it.  panic: an index was out of range, a recursion ran out
\* of stack, or a loop that never ends holds the lock.  The quantum of the root is
\* left out: it has no siblings to take turns with.
newStreamScheduler ==
    [node        |-> [n \in {Root} \cup Streams |->
                        IF n = Root THEN [newNode EXCEPT !.state = "active", !.parent = None]
                        ELSE newNode],
     openStreams |-> 0,
     panic       |-> FALSE]

Init ==
    /\ t = newStreamScheduler
    /\ finished = {} /\ blocked = {} /\ skipped = None /\ requests = 0 /\ turns = 0

\* Whether a node belongs in the children list of its parent.
Busy(tt, n) == tt.node[n].state = "active" \/ tt.node[n].activeChildren > 0
--------------------------------------------------------------------------
RECURSIVE addWeight(_, _, _)
addWeight(tt, n, child) ==
    LET tn == [tt EXCEPT
                 !.node[n].activeChildren = @ + 1,
                 !.node[n].children = Append(@, child)]
        nn == tn.node[n]
    IN  IF nn.parent # None /\ nn.state # "active" /\ nn.activeChildren = 1
        THEN addWeight(tn, nn.parent, n)
        ELSE tn

\* The index, counted from 0, that removeWeight cuts out: 0 if child is not there.
IndexOf(list, child) ==
    IF \E i \in DOMAIN list : list[i] = child
    THEN (CHOOSE i \in DOMAIN list : list[i] = child /\ \A j \in 1..i - 1 : list[j] # child) - 1
    ELSE 0

Cut(list, i) == SubSeq(list, 1, i) \o SubSeq(list, i + 2, Len(list))

\* Mutant: nextChild is not brought back into the shorter list.
removeWeight_KeepsNext(tt, n, child) ==
    LET list == tt.node[n].children
    IN  [tt EXCEPT !.node[n].children = Cut(list, IndexOf(list, child)),
                   !.node[n].activeChildren = @ - 1]

RECURSIVE removeWeight(_, _, _)
removeWeight(tt, n, child) ==
    LET old  == tt.node[n]
        list == Cut(old.children, IndexOf(old.children, child))
        tn   == [tt EXCEPT
                   !.node[n].children = list,
                   !.node[n].nextChild = IF list = <<>> THEN 0 ELSE @ % Len(list),
                   !.node[n].activeChildren = @ - 1]
    IN  IF old.children = <<>> THEN [tt EXCEPT !.panic = TRUE]
        ELSE IF old.parent # None /\ old.activeChildren = 1
             THEN removeWeight(tn, old.parent, n)
             ELSE tn

deactivateNode(tt, n) ==
    LET tn == [tt EXCEPT !.node[n].state = "closed", !.node[n].stream = FALSE]
    IN  IF tn.node[n].parent # None /\ tn.node[n].activeChildren = 0
        THEN removeWeight(tn, tn.node[n].parent, n)
        ELSE tn
--------------------------------------------------------------------------
(***************************************************************************)
(* traverse.  A walk is the scheduler after it and the node it selected.   *)
(* path holds the nodes that the recursion is in: one that lists a node    *)
(* above it would come back to that node with nothing changed, for ever.   *)
(***************************************************************************)
\* Mutant: the turn stays with n.
Advance_Never(tt, n) == tt

\* The parent of n goes on to its next child.
Advance(tt, n) ==
    LET p == tt.node[n].parent
    IN  IF p = None \/ tt.node[p].children = <<>> THEN tt
        ELSE [tt EXCEPT !.node[p].nextChild = (@ + 1) % Len(tt.node[p].children)]

StartRound(tt, n) ==
    IF n # Root /\ tt.node[n].quantum = 0
    THEN [tt EXCEPT !.node[n].quantum = tt.node[n].weight + 1] ELSE tt

UseQuantum(tt, n) == IF n = Root THEN tt ELSE [tt EXCEPT !.node[n].quantum = @ - 1]

MaySend(tt, n) ==
    /\ n # Root /\ tt.node[n].state = "active" /\ tt.node[n].stream
    /\ tt.node[n].quantum > 0 /\ n \notin blocked

RECURSIVE traverse(_, _, _), traverseChildren(_, _, _, _)
traverse(tt, n, path) ==
    LET t0 == StartRound(tt, n)
        walk == IF MaySend(t0, n) THEN [t |-> UseQuantum(t0, n), strm |-> n]
                ELSE IF t0.node[n].activeChildren > 0 /\ (n = Root \/ t0.node[n].quantum > 0)
                THEN traverseChildren(t0, n, path, 0)
                ELSE [t |-> t0, strm |-> None]
    IN  IF n \in path THEN [t |-> [tt EXCEPT !.panic = TRUE], strm |-> None]
        ELSE IF t0.node[n].stream /\ n \in finished
        THEN [t |-> deactivateNode([t0 EXCEPT !.openStreams = @ - 1], n), strm |-> None]
        ELSE IF walk.strm = None \/ walk.t.node[n].quantum = 0
             THEN [walk EXCEPT !.t = Advance(walk.t, n)]
             ELSE walk

traverseChildren(tt, n, path, i) ==
    LET children == tt.node[n].children
        walk == traverse(tt, children[tt.node[n].nextChild + 1], path \cup {n})
    IN  IF i >= Len(children) \/ tt.panic THEN [t |-> tt, strm |-> None]
        ELSE IF tt.node[n].nextChild >= Len(children)
             THEN [t |-> [tt EXCEPT !.panic = TRUE], strm |-> None]
        ELSE IF walk.strm # None THEN [walk EXCEPT !.t = UseQuantum(walk.t, n)]
        ELSE traverseChildren(walk.t, n, path, i + 1)

RECURSIVE Climb(_, _, _)
Climb(tt, n, steps) ==
    IF n \in {Root, None} \/ steps = 0 THEN n ELSE Climb(tt, tt.node[n].parent, steps - 1)

\* The parents of n lead up to the root and not round in a cycle, on which skip and
\* the loop over the ancestors in maybeSetParent never end.
Rises(tt, n) == Climb(tt, n, Cardinality(Streams)) = Root

RECURSIVE Skip(_, _)
Skip(tt, n) ==
    LET p  == tt.node[n].parent
        tn == [tt EXCEPT !.node[n].quantum = 0]
    IN  IF p = None THEN tn
        ELSE IF ~Rises(tt, p) \/ tt.node[p].children = <<>> THEN [tn EXCEPT !.panic = TRUE]
        ELSE Skip(Advance(tn, n), p)

Flat == \A n \in Streams : t.node[n].parent = Root

\* Watched has its place in the round-robin and may send.
Waits == Flat /\ MaySend(StartRound(t, Watched), Watched) /\ Watched \notin finished

\* schedule, when the header stream has nothing to send, and what its caller, the
\* session loop, does with the selected stream: the framer sends data of it,
\* perhaps with its FIN, or SA-ECF has looked at it before and will skip it.
schedule ==
    LET walk == traverse(t, Root, {})
        turn == IF Waits /\ walk.strm # Watched THEN turns + 1 ELSE 0
    IN  /\ skipped = None /\ t' = walk.t
        /\ \/ turns' = turn /\ UNCHANGED <<finished, skipped>>
           \/ /\ walk.strm # None /\ finished' = finished \cup {walk.strm}
              /\ turns' = turn /\ UNCHANGED skipped
           \/ /\ walk.strm # None /\ skipped' = walk.strm
              /\ turns' = 0 /\ UNCHANGED finished
        /\ UNCHANGED <<blocked, requests>>

\* SA-ECF calls skip without the lock: the tree may be another one by now.
skip ==
    /\ skipped # None /\ skipped' = None
    /\ t' = Skip(t, skipped)
    /\ UNCHANGED <<finished, blocked, requests, turns>>
--------------------------------------------------------------------------
(***************************************************************************)
(* The operations of the HTTP server and of the streams map.               *)
(***************************************************************************)
Load == requests + Cardinality(blocked)

\* Mutant: the open streams are not counted.
setActive_NoCount(id) ==
    /\ t.node[id].state = "idle"
    /\ t' = addWeight([t EXCEPT !.node[id].state = "active"], t.node[id].parent, id)
    /\ UNCHANGED <<finished, blocked, skipped, requests, turns>>

\* The caller sets a stream active once, when its request arrives.
setActive(id) ==
    /\ t.node[id].state = "idle"
    /\ t' = addWeight([t EXCEPT !.node[id].state = "active", !.openStreams = @ + 1],
                      t.node[id].parent, id)
    /\ UNCHANGED <<finished, blocked, skipped, requests, turns>>

maybeSetWeight(id, weight) ==
    /\ Load < MaxLoad /\ requests' = requests + 1
    /\ t' = [t EXCEPT !.node[id].weight = weight]
    /\ UNCHANGED <<finished, blocked, skipped, turns>>

\* The nodes on the way up from n, the root left out.
RECURSIVE Above(_, _)
Above(tt, n) ==
    IF tt.node[n].parent \in {None, Root} THEN {}
    ELSE {tt.node[n].parent} \cup Above(tt, tt.node[n].parent)

\* Mutant: a descendant becomes the parent where it is.
Lift_Stays(tt, child, newParent) == tt

\* The new parent is a descendant of the child: it takes the child's place first.
Lift(tt, child, newParent) ==
    LET old == tt.node[child].parent
        tn  == IF Busy(tt, newParent)
               THEN addWeight(removeWeight(tt, tt.node[newParent].parent, newParent),
                              old, newParent)
               ELSE tt
    IN  IF child \in Above(tt, newParent) THEN [tn EXCEPT !.node[newParent].parent = old] ELSE tt

Detach(tt, child) ==
    LET tn == IF Busy(tt, child) THEN removeWeight(tt, tt.node[child].parent, child) ELSE tt
    IN  [tn EXCEPT !.node[child].parent = None]

\* The exclusive loop.  It ranges over the array that removeWeight shifts in
\* place: array holds what the slots of the slice contain by now.
RECURSIVE Adopt(_, _, _, _, _)
Adopt(tt, child, newParent, array, i) ==
    LET c    == array[i]
        live == tt.node[newParent].children
        k    == IndexOf(live, c)
        tn   == IF Busy(tt, c) THEN removeWeight(addWeight(tt, child, c), newParent, c) ELSE tt
        arr  == IF Busy(tt, c) THEN [j \in DOMAIN array |->
                                       IF j > k /\ j < Len(live) THEN array[j + 1] ELSE array[j]]
                ELSE array
    IN  IF i > Len(array) \/ tt.panic THEN tt
        ELSE IF c = newParent THEN Adopt(tt, child, newParent, array, i + 1)
        ELSE Adopt([tn EXCEPT !.node[c].parent = child], child, newParent, arr, i + 1)

Attach(tt, child, newParent) ==
    LET tn == [tt EXCEPT !.node[child].parent = newParent]
    IN  IF Busy(tn, child) THEN addWeight(tn, newParent, child) ELSE tn

maybeSetParent(child, newParent, exclusive) ==
    /\ Dependencies
    /\ child # newParent
    /\ exclusive \/ t.node[child].parent # newParent
    /\ Load < MaxLoad /\ requests' = requests + 1
    /\ LET free == Detach(Lift(t, child, newParent), child)
           all  == IF exclusive
                   THEN Adopt(free, child, newParent, free.node[newParent].children, 1)
                   ELSE free
       IN  t' = IF Rises(t, newParent) THEN Attach(all, child, newParent)
                ELSE [t EXCEPT !.panic = TRUE]
    /\ UNCHANGED <<finished, blocked, skipped, turns>>

\* The send window of a stream closes or opens.
Window(id) ==
    /\ id \in blocked \/ Load < MaxLoad
    /\ blocked' = IF id \in blocked THEN blocked \ {id} ELSE blocked \cup {id}
    /\ turns' = IF id = Watched THEN 0 ELSE turns
    /\ UNCHANGED <<t, finished, skipped, requests>>

\* A panic ends the process.
Next ==
    /\ ~t.panic
    /\ \/ schedule
       \/ skip
       \/ \E id \in Streams : setActive(id) \/ Window(id)
       \/ \E id \in Streams, w \in Weights : maybeSetWeight(id, w)
       \/ \E c, p \in Streams, e \in BOOLEAN : maybeSetParent(c, p, e)

Spec == Init /\ [][Next]_vars
--------------------------------------------------------------------------
\* The fields of the nodes keep their types; no quantum falls below 0, which a
\* uint16 would take for the largest quantum there is.
TypeOK ==
    /\ \A n \in DOMAIN t.node :
          /\ t.node[n].state \in {"idle", "active", "closed"}
          /\ t.node[n].parent \in DOMAIN t.node \cup {None}
          /\ t.node[n].quantum \in Nat /\ t.node[n].activeChildren \in Nat
    /\ t.openStreams \in Nat
    /\ finished \subseteq Streams /\ blocked \subseteq Streams

\* From every stream the parents lead up to the header stream.
Rooted == \A n \in Streams : Rises(t, n)

\* No list holds a stream that has another parent by now.
Listed ==
    \A p \in DOMAIN t.node : \A i \in DOMAIN t.node[p].children :
        t.node[t.node[p].children[i]].parent = p

\* No operation makes the streams anything but a tree while the lists of children
\* hold only children: maybeSetParent moves a descendant that is to become the
\* parent first, and an exclusive priority takes over the children and nobody
\* else.  The condition is needed: a stream that is listed twice and moved keeps
\* its second listing, and an exclusive priority then adopts a stranger, which may
\* be an ancestor.
TreeKept == [][Rooted /\ Listed => Rooted']_vars

\* activeChildren counts the list of children, and nextChild points into it,
\* whenever the scheduler's lock is free: addWeight, removeWeight and the walk
\* change the three together.  The state keeps its type.
ListsConsistent ==
    /\ TypeOK
    /\ ~t.panic => \A p \in DOMAIN t.node :
                   LET node == t.node[p]
                   IN  /\ node.activeChildren = Len(node.children)
                       /\ node.nextChild = 0 \/ node.nextChild < Len(node.children)

\* As long as no priority names a parent, the scheduler never panics, the root
\* lists each active stream once and no other, and openStreams counts them
\* (setActive, deactivateNode).
FlatListed ==
    Flat => /\ ~t.panic
            /\ \A n \in Streams :
                  Cardinality({i \in DOMAIN t.node[Root].children : t.node[Root].children[i] = n})
                      = IF t.node[n].state = "active" THEN 1 ELSE 0
            /\ t.openStreams = Len(t.node[Root].children)

MaxWeight == CHOOSE w \in Weights \cup {DefaultStreamWeight} :
    \A v \in Weights \cup {DefaultStreamWeight} : v <= w

\* As long as no priority names a parent and SA-ECF skips no stream, a stream
\* that stays active and unblocked waits for at most one quantum of every other
\* stream before it is selected: neither blocked streams nor streams that open,
\* finish or change their weight in the meantime make the walk lose its turn
\* (nextChild in traverse and removeWeight).
BoundedWait == Waits => turns <= (Cardinality(Streams) - 1) * (MaxWeight + 1)
=============================================================================
