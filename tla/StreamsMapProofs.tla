--------------------------- MODULE StreamsMapProofs ---------------------------
(***************************************************************************)
(* The invariants of StreamsMap, for any number of goroutines, any limits  *)
(* and any stream IDs: the books of the map agree, late frames do not close*)
(* the session, no waiter is forgotten and no stream is opened twice.      *)
(***************************************************************************)
EXTENDS StreamsMap, FiniteSetTheorems, SequenceTheorems, TLAPS

\* The provers of a leaf that names none: a step may need Zenon, or SMT at length.
USE SMTT(10), ZenonT(20), SMTT(30)

Status == {"open", "finished", "cancelled"}
Tables == UNION {[S -> Status] : S \in SUBSET Ids}

Maps ==
    [streams : Tables, openStreams : Seq(Ids), roundRobinIndex : Nat,
     nextStream : Nat, highestStreamOpenedByPeer : Nat, nextStreamToAccept : Nat,
     numOutgoingStreams : Nat, numIncomingStreams : Nat, closed : BOOLEAN]

Odd(S) == {id \in S : id % 2 = 1}
Even(S) == {id \in S : id % 2 = 0}

\* openStreams lists the streams of the map, each once.
Listed(list, S) ==
    /\ list \in Seq(S)
    /\ \A i, j \in DOMAIN list : list[i] = list[j] => i = j
    /\ \A id \in S : \E i \in DOMAIN list : list[i] = id

\* The streams in the map, their list and their counters agree.
Books(mm) ==
    /\ mm \in Maps
    /\ Listed(mm.openStreams, Open(mm))
    /\ mm.numIncomingStreams = Cardinality(Odd(Open(mm)))
    /\ mm.numOutgoingStreams = Cardinality(Even(Open(mm)))
    /\ IsServer => mm.numIncomingStreams <= MaxIncoming /\ mm.numOutgoingStreams <= MaxOutgoing

\* Each counter of stream IDs runs through the IDs of its side, and is past every
\* stream of that side that was ever in the map.
Sides(mm, us) ==
    /\ us \subseteq Ids /\ Open(mm) \subseteq us /\ Crypto \in Open(mm)
    /\ mm.highestStreamOpenedByPeer <= LastId /\ mm.nextStream > 1
    /\ mm.nextStream % 2 = IF IsServer THEN 0 ELSE 1
    /\ mm.highestStreamOpenedByPeer % 2 = IF IsServer THEN 1 ELSE 0
    /\ mm.nextStreamToAccept % 2 = IF IsServer THEN 1 ELSE 0
    /\ \A id \in us :
          IF OpenedByUs(id) THEN id < mm.nextStream ELSE id <= mm.highestStreamOpenedByPeer

\* The crypto stream stays open until the session has closed, after which
\* nothing is collected any more.
Ends ==
    /\ ~m.closed => m.streams[Crypto] = "open"
    /\ m.closed => loop = "frames" /\ status # "open"

Others ==
    /\ perspective \in {"client", "server"}
    /\ accepting \in Waiter
    /\ opening \in [Openers -> Waiter]
    /\ loop \in {"frames", "collect"}

IInv ==
    /\ Others
    /\ Books(m)
    /\ Sides(m, used)
    /\ flow = Open(m)
    /\ Ends
    /\ LateFramesHarmless
    /\ WaitersNotForgotten
--------------------------------------------------------------------------
(***************************************************************************)
(* Lists without repetition and finite sets.                               *)
(***************************************************************************)
\* A list of the members of a set, each once, is as long as the set is large.
LEMMA ListedLength ==
    ASSUME NEW S, NEW list, Listed(list, S)
    PROVE  IsFiniteSet(S) /\ Cardinality(S) = Len(list) /\ Len(list) \in Nat
<1>1. list \in [1 .. Len(list) -> S] /\ DOMAIN list = 1 .. Len(list) /\ Len(list) \in Nat
  BY DEF Listed
<1>2. list \in Injection(1 .. Len(list), S)
  BY <1>1 DEF Listed, Injection, IsInjective
<1>3. list \in Surjection(1 .. Len(list), S)
  BY <1>1 DEF Listed, Surjection
<1>4. ExistsBijection(1 .. Len(list), S)
  BY <1>2, <1>3 DEF Bijection, ExistsBijection
<1>5. IsFiniteSet(1 .. Len(list)) /\ Cardinality(1 .. Len(list)) = Len(list)
  <2> DEFINE k == Len(list)
  <2>1. k \in Nat
    BY <1>1
  <2> HIDE DEF k
  <2>2. IsFiniteSet(1 .. k) /\ Cardinality(1 .. k) = k
    BY <2>1, FS_Interval
  <2> QED
    BY <2>2 DEF k
<1> QED
  BY <1>1, <1>4, <1>5, FS_Bijection

\* Appending new members one by one.
LEMMA ListedConcat ==
    ASSUME NEW S, NEW T, NEW s, NEW t, Listed(s, S), Listed(t, T), S \cap T = {}
    PROVE  Listed(s \o t, S \cup T)
<1>1. s \in Seq(S \cup T) /\ t \in Seq(S \cup T)
  BY DEF Listed
<1>2. /\ s \o t \in Seq(S \cup T)
      /\ Len(s \o t) = Len(s) + Len(t) /\ Len(s) \in Nat /\ Len(t) \in Nat
      /\ \A i \in 1 .. Len(s) + Len(t) :
             (s \o t)[i] = IF i <= Len(s) THEN s[i] ELSE t[i - Len(s)]
  BY <1>1, ConcatProperties, LenProperties
<1>3. DOMAIN (s \o t) = 1 .. Len(s) + Len(t) /\ DOMAIN s = 1 .. Len(s) /\ DOMAIN t = 1 .. Len(t)
  BY <1>1, <1>2, LenProperties
<1>4. /\ \A i \in 1 .. Len(s) : s[i] \in S
      /\ \A i \in 1 .. Len(t) : t[i] \in T
  BY DEF Listed
<1> DEFINE u == s \o t
<1>5. ASSUME NEW i \in 1 .. Len(s) + Len(t), NEW j \in 1 .. Len(s) + Len(t), u[i] = u[j]
      PROVE  i = j
  <2>1. CASE i <= Len(s) /\ j <= Len(s)
    <3>1. i \in DOMAIN s /\ j \in DOMAIN s /\ s[i] = s[j]
      BY <1>2, <1>3, <1>5, <2>1
    <3> QED
      BY <3>1 DEF Listed
  <2>2. CASE i > Len(s) /\ j > Len(s)
    <3>1. i - Len(s) \in DOMAIN t /\ j - Len(s) \in DOMAIN t /\ t[i - Len(s)] = t[j - Len(s)]
      BY <1>2, <1>3, <1>5, <2>2
    <3>2. i - Len(s) = j - Len(s)
      BY <3>1 DEF Listed
    <3> QED
      BY <3>2, <1>2
  <2>3. CASE i <= Len(s) /\ j > Len(s)
    <3>1. u[i] = s[i] /\ u[j] = t[j - Len(s)] /\ i \in 1 .. Len(s) /\ j - Len(s) \in 1 .. Len(t)
      BY <1>2, <2>3
    <3> QED
      BY <3>1, <1>4, <1>5
  <2>4. CASE i > Len(s) /\ j <= Len(s)
    <3>1. u[j] = s[j] /\ u[i] = t[i - Len(s)] /\ j \in 1 .. Len(s) /\ i - Len(s) \in 1 .. Len(t)
      BY <1>2, <2>4
    <3> QED
      BY <3>1, <1>4, <1>5
  <2> QED
    BY <1>2, <2>1, <2>2, <2>3, <2>4
<1>6. ASSUME NEW id \in S \cup T
      PROVE  \E i \in 1 .. Len(s) + Len(t) : u[i] = id
  <2>1. CASE id \in S
    <3>1. PICK i \in DOMAIN s : s[i] = id
      BY <2>1 DEF Listed
    <3>2. i \in 1 .. Len(s) + Len(t) /\ u[i] = id
      BY <3>1, <1>2, <1>3
    <3> QED
      BY <3>2
  <2>2. CASE id \in T
    <3>1. PICK i \in DOMAIN t : t[i] = id
      BY <2>2 DEF Listed
    <3>2. i + Len(s) \in 1 .. Len(s) + Len(t) /\ u[i + Len(s)] = id
      BY <3>1, <1>2, <1>3
    <3> QED
      BY <3>2
  <2> QED
    BY <2>1, <2>2
<1> HIDE DEF u
<1> QED
  BY <1>2, <1>3, <1>5, <1>6, Zenon DEF Listed, u

\* What Without leaves of a list, in any order of the members it drops.
LEMMA WithoutLists ==
    ASSUME NEW S, NEW list, Listed(list, S), NEW gone
    PROVE  Listed(Without(list, gone), S \ gone)
<1> DEFINE kept == {i \in DOMAIN list : list[i] \notin gone}
           Rank(i) == {j \in kept : j <= i}
           Nth(k) == CHOOSE i \in kept : Cardinality(Rank(i)) = k
           n == Cardinality(kept)
           w == [k \in 1 .. n |-> list[Nth(k)]]
<1>1. /\ DOMAIN list = 1 .. Len(list) /\ Len(list) \in Nat
      /\ kept \subseteq Int
      /\ \A i \in kept : list[i] \in S \ gone
  BY LenProperties DEF Listed
<1>2. IsFiniteSet(kept) /\ n \in Nat
  <2>1. IsFiniteSet(1 .. Len(list))
    BY <1>1, FS_Interval
  <2>2. kept \in SUBSET (1 .. Len(list))
    BY <1>1
  <2> HIDE DEF kept
  <2> QED
    BY <2>1, <2>2, FS_Subset, FS_CardinalityType, Zenon
<1>3. w = Without(list, gone)
  BY DEF Without
<1>4. \A i \in kept : \A j \in kept : list[i] = list[j] => i = j
  BY DEF Listed
<1>5. \A id \in S \ gone : \E i \in kept : list[i] = id
  BY DEF Listed
<1> HIDE DEF kept
<1>6. \A i \in kept : IsFiniteSet(Rank(i)) /\ Cardinality(Rank(i)) \in 1 .. n
  <2> TAKE i \in kept
  <2>1. Rank(i) \in SUBSET kept
    OBVIOUS
  <2>2. IsFiniteSet(Rank(i)) /\ Cardinality(Rank(i)) <= n /\ Cardinality(Rank(i)) \in Nat
    BY <1>2, <2>1, FS_Subset, FS_CardinalityType
  <2>3. i \in Rank(i)
    BY <1>1
  <2>4. Cardinality(Rank(i)) # 0
    BY <2>2, <2>3, FS_EmptySet
  <2> QED
    BY <2>2, <2>4, <1>2
<1>7. \A i, j \in kept : i < j => Cardinality(Rank(i)) # Cardinality(Rank(j))
  <2> SUFFICES ASSUME NEW i \in kept, NEW j \in kept, i < j
               PROVE  Cardinality(Rank(i)) # Cardinality(Rank(j))
    OBVIOUS
  <2>1. /\ \A x \in Rank(i) : x \in Rank(j)
        /\ j \in Rank(j) /\ j \notin Rank(i)
    BY <1>1
  <2>2. IsFiniteSet(Rank(j))
    BY <1>6
  <2> HIDE DEF Rank
  <2> QED
    BY <2>1, <2>2, FS_Subset
<1>8. \A i, j \in kept : Cardinality(Rank(i)) = Cardinality(Rank(j)) => i = j
  BY <1>1, <1>7
<1> DEFINE f == [i \in kept |-> Cardinality(Rank(i))]
<1>9. f \in Surjection(kept, 1 .. n)
  <2>1. f \in Injection(kept, 1 .. n)
    <3>1. f \in [kept -> 1 .. n]
      BY <1>6
    <3>2. \A i, j \in DOMAIN f : f[i] = f[j] => i = j
      BY <1>8
    <3> QED
      BY <3>1, <3>2, Zenon DEF Injection, IsInjective
  <2>2. IsFiniteSet(1 .. n) /\ Cardinality(1 .. n) = n
    BY <1>2, FS_Interval
  <2> HIDE DEF f
  <2> QED
    BY <2>1, <2>2, FS_Injection
<1>10. \A k \in 1 .. n : \E i \in kept : Cardinality(Rank(i)) = k
  BY <1>9, Zenon DEF Surjection
<1>11. \A k \in 1 .. n : Nth(k) \in kept /\ Cardinality(Rank(Nth(k))) = k
  BY <1>10
<1>12. \A i \in kept : Nth(Cardinality(Rank(i))) = i
  BY <1>6, <1>8, <1>11
<1> HIDE DEF Nth, Rank, n
<1>13. w \in Seq(S \ gone)
  <2>1. \A k \in 1 .. n : list[Nth(k)] \in S \ gone
    BY <1>1, <1>11, Zenon
  <2> QED
    BY <2>1, <1>2
<1>14. \A i, j \in DOMAIN w : w[i] = w[j] => i = j
  <2> SUFFICES ASSUME NEW i \in 1 .. n, NEW j \in 1 .. n, list[Nth(i)] = list[Nth(j)]
               PROVE  i = j
    OBVIOUS
  <2>1. Nth(i) = Nth(j)
    BY <1>4, <1>11
  <2> QED
    BY <2>1, <1>11
<1>15. \A id \in S \ gone : \E k \in DOMAIN w : w[k] = id
  <2> TAKE id \in S \ gone
  <2>1. PICK i \in kept : list[i] = id
    BY <1>5
  <2>2. Cardinality(Rank(i)) \in 1 .. n /\ Nth(Cardinality(Rank(i))) = i
    BY <1>6, <1>12
  <2> QED
    BY <2>1, <2>2
<1> HIDE DEF w
<1> QED
  BY <1>3, <1>13, <1>14, <1>15 DEF Listed
--------------------------------------------------------------------------
(***************************************************************************)
(* The operations on the map.                                              *)
(***************************************************************************)
LEMMA MapFields ==
    ASSUME NEW mm \in Maps
    PROVE  /\ mm.streams \in Tables /\ mm.openStreams \in Seq(Ids) /\ mm.roundRobinIndex \in Nat
           /\ mm.nextStream \in Nat /\ mm.highestStreamOpenedByPeer \in Nat
           /\ mm.nextStreamToAccept \in Nat
           /\ mm.numOutgoingStreams \in Nat /\ mm.numIncomingStreams \in Nat
           /\ mm.closed \in BOOLEAN
BY DEF Maps

\* The streams of a map and their state.
LEMMA MapStreams ==
    ASSUME NEW mm \in Maps
    PROVE  Open(mm) \in SUBSET Ids /\ mm.streams \in [Open(mm) -> Status]
<1>1. mm.streams \in Tables
  BY MapFields
<1> QED
  BY <1>1 DEF Tables, Open

\* A table of streams.
LEMMA TableOf ==
    ASSUME NEW S \in SUBSET Ids, NEW f \in [S -> Status]
    PROVE  f \in Tables
BY Zenon DEF Tables

\* Books does not depend on the state of the streams, on the round-robin index and
\* on the counters of stream IDs.
LEMMA SameBooks ==
    ASSUME NEW mm, Books(mm), NEW x \in Maps, Open(x) = Open(mm),
           x.openStreams = mm.openStreams,
           x.numIncomingStreams = mm.numIncomingStreams,
           x.numOutgoingStreams = mm.numOutgoingStreams
    PROVE  Books(x)
BY DEF Books

\* The size of a disjoint union, and of what is left of a set.
LEMMA DisjointUnion ==
    ASSUME NEW A, NEW B, IsFiniteSet(A), IsFiniteSet(B), A \cap B = {}
    PROVE  /\ Cardinality(A \cup B) = Cardinality(A) + Cardinality(B)
           /\ Cardinality(A) \in Nat /\ Cardinality(B) \in Nat
<1>1. Cardinality(A) \in Nat /\ Cardinality(B) \in Nat
  BY FS_CardinalityType
<1>2. Cardinality(A \cap B) = 0
  BY FS_EmptySet
<1>3. Cardinality(A \cup B) = Cardinality(A) + Cardinality(B) - Cardinality(A \cap B)
  BY FS_Union
<1> QED
  BY ONLY <1>1, <1>2, <1>3

\* The streams of one parity in a finite set of stream IDs.
LEMMA ParityUnion ==
    ASSUME NEW S \in SUBSET Int, NEW T \in SUBSET Int, IsFiniteSet(S), IsFiniteSet(T), S \cap T = {}
    PROVE  /\ Cardinality(Odd(S \cup T)) = Cardinality(Odd(S)) + Cardinality(Odd(T))
           /\ Cardinality(Even(S \cup T)) = Cardinality(Even(S)) + Cardinality(Even(T))
           /\ Cardinality(Odd(S)) \in Nat /\ Cardinality(Odd(T)) \in Nat
           /\ Cardinality(Even(S)) \in Nat /\ Cardinality(Even(T)) \in Nat
<1>1. /\ Odd(S \cup T) = Odd(S) \cup Odd(T) /\ Odd(S) \cap Odd(T) = {}
      /\ Even(S \cup T) = Even(S) \cup Even(T) /\ Even(S) \cap Even(T) = {}
      /\ Odd(S) \in SUBSET S /\ Even(S) \in SUBSET S
      /\ Odd(T) \in SUBSET T /\ Even(T) \in SUBSET T
  BY Zenon DEF Odd, Even
<1>2. IsFiniteSet(Odd(S)) /\ IsFiniteSet(Odd(T)) /\ IsFiniteSet(Even(S)) /\ IsFiniteSet(Even(T))
  BY <1>1, FS_Subset
<1>3. /\ Cardinality(Odd(S) \cup Odd(T)) = Cardinality(Odd(S)) + Cardinality(Odd(T))
      /\ Cardinality(Odd(S)) \in Nat /\ Cardinality(Odd(T)) \in Nat
  BY <1>1, <1>2, DisjointUnion, Zenon
<1>4. /\ Cardinality(Even(S) \cup Even(T)) = Cardinality(Even(S)) + Cardinality(Even(T))
      /\ Cardinality(Even(S)) \in Nat /\ Cardinality(Even(T)) \in Nat
  BY <1>1, <1>2, DisjointUnion, Zenon
<1> QED
  BY <1>1, <1>3, <1>4, Zenon

\* putStream of streams that are not in the map.
LEMMA PutKeeps ==
    ASSUME NEW mm, Books(mm), NEW T \in SUBSET Ids, NEW ids, Listed(ids, T), T \cap Open(mm) = {},
           IsServer => /\ mm.numIncomingStreams + Cardinality(Odd(T)) <= MaxIncoming
                       /\ mm.numOutgoingStreams + Cardinality(Even(T)) <= MaxOutgoing
    PROVE  /\ Books(Put(mm, ids))
           /\ Open(Put(mm, ids)) = Open(mm) \cup T
           /\ \A id \in Open(mm) : Put(mm, ids).streams[id] = mm.streams[id]
           /\ Put(mm, ids).nextStream = mm.nextStream
           /\ Put(mm, ids).highestStreamOpenedByPeer = mm.highestStreamOpenedByPeer
           /\ Put(mm, ids).nextStreamToAccept = mm.nextStreamToAccept
           /\ Put(mm, ids).closed = mm.closed
           /\ Put(mm, ids).numOutgoingStreams = mm.numOutgoingStreams + Cardinality(Even(T))
<1> DEFINE new == {ids[i] : i \in DOMAIN ids}
           table == [id \in DOMAIN mm.streams \cup T |-> IF id \in T THEN "open" ELSE mm.streams[id]]
           list == mm.openStreams \o ids
           out == mm.numOutgoingStreams + Cardinality(Even(T))
           inc == mm.numIncomingStreams + Cardinality(Odd(T))
<1>1. mm \in Maps /\ Listed(mm.openStreams, Open(mm))
  BY DEF Books
<1>2. new = T
  BY DEF Listed
<1>3. Put(mm, ids) = [mm EXCEPT !.streams = table, !.openStreams = list,
                                !.numOutgoingStreams = out, !.numIncomingStreams = inc]
  <2>1. Even(T) = {id \in new : id % 2 = 0} /\ Odd(T) = {id \in new : id % 2 = 1}
    BY <1>2 DEF Even, Odd
  <2>2. table = [id \in DOMAIN mm.streams \cup new |-> IF id \in new THEN "open" ELSE mm.streams[id]]
    BY <1>2
  <2> HIDE DEF table
  <2> QED
    BY <2>1, <2>2 DEF Put
<1>4. Open(mm) \in SUBSET Ids /\ mm.streams \in [Open(mm) -> Status] /\ DOMAIN mm.streams = Open(mm)
  BY <1>1, MapStreams DEF Open
<1>5. table \in [Open(mm) \cup T -> Status] /\ table \in Tables /\ DOMAIN table = Open(mm) \cup T
  <2>1. table \in [Open(mm) \cup T -> Status]
    BY <1>4 DEF Status
  <2> HIDE DEF table
  <2> QED
    BY <1>4, <2>1, TableOf
<1>6. Listed(list, Open(mm) \cup T)
  BY <1>1, ListedConcat
<1>7. list \in Seq(Ids)
  BY <1>4, <1>6 DEF Listed
<1>8. IsFiniteSet(Open(mm)) /\ IsFiniteSet(T)
  BY <1>1, ListedLength
<1>9. /\ inc = Cardinality(Odd(Open(mm) \cup T)) /\ inc \in Nat
      /\ out = Cardinality(Even(Open(mm) \cup T)) /\ out \in Nat
  <2>1. Open(mm) \in SUBSET Int /\ T \in SUBSET Int
    BY <1>4 DEF Ids
  <2>2. /\ Cardinality(Odd(Open(mm) \cup T)) = Cardinality(Odd(Open(mm))) + Cardinality(Odd(T))
        /\ Cardinality(Even(Open(mm) \cup T)) = Cardinality(Even(Open(mm))) + Cardinality(Even(T))
        /\ Cardinality(Odd(Open(mm))) \in Nat /\ Cardinality(Odd(T)) \in Nat
        /\ Cardinality(Even(Open(mm))) \in Nat /\ Cardinality(Even(T)) \in Nat
    BY <1>8, <2>1, ParityUnion, Zenon
  <2> QED
    BY <2>2 DEF Books
<1>10. \A id \in Open(mm) : table[id] = mm.streams[id]
  BY <1>4
<1>11. IsServer => inc <= MaxIncoming /\ out <= MaxOutgoing
  OBVIOUS
<1> HIDE DEF table, list, inc, out
<1> DEFINE x == Put(mm, ids)
<1>12. /\ x \in Maps
       /\ x.streams = table /\ x.openStreams = list
       /\ x.numIncomingStreams = inc /\ x.numOutgoingStreams = out
       /\ x.nextStream = mm.nextStream /\ x.closed = mm.closed
       /\ x.highestStreamOpenedByPeer = mm.highestStreamOpenedByPeer
       /\ x.nextStreamToAccept = mm.nextStreamToAccept
  BY <1>1, <1>3, <1>5, <1>7, <1>9, ZenonT(30) DEF Maps
<1> HIDE DEF x
<1>13. Open(x) = Open(mm) \cup T
  BY <1>5, <1>12 DEF Open
<1>14. Books(x)
  BY <1>6, <1>9, <1>11, <1>12, <1>13 DEF Books
<1> QED
  BY <1>10, <1>12, <1>13, <1>14 DEF x, out

\* RemoveStream of streams in the map.
LEMMA RemoveKeeps ==
    ASSUME NEW mm, Books(mm), NEW gone \in SUBSET Open(mm)
    PROVE  /\ Books(RemoveStreams(mm, gone))
           /\ Open(RemoveStreams(mm, gone)) = Open(mm) \ gone
           /\ \A id \in Open(mm) \ gone : RemoveStreams(mm, gone).streams[id] = mm.streams[id]
           /\ RemoveStreams(mm, gone).nextStream = mm.nextStream
           /\ RemoveStreams(mm, gone).highestStreamOpenedByPeer = mm.highestStreamOpenedByPeer
           /\ RemoveStreams(mm, gone).nextStreamToAccept = mm.nextStreamToAccept
           /\ RemoveStreams(mm, gone).closed = mm.closed
           /\ RemoveStreams(mm, gone).numOutgoingStreams =
                  mm.numOutgoingStreams - Cardinality(Even(gone))
           /\ Cardinality(Even(gone)) \in Nat
           /\ IsFiniteSet(gone)
           /\ Cardinality(Even(gone)) <= Cardinality(gone)
<1> DEFINE S == Open(mm) \ gone
           table == [id \in DOMAIN mm.streams \ gone |-> mm.streams[id]]
           list == Without(mm.openStreams, gone)
           before == {i \in DOMAIN mm.openStreams :
                         i <= mm.roundRobinIndex /\ mm.openStreams[i] \in gone}
           index == mm.roundRobinIndex - Cardinality(before)
           out == mm.numOutgoingStreams - Cardinality(Even(gone))
           inc == mm.numIncomingStreams - Cardinality(Odd(gone))
<1>1. mm \in Maps /\ Listed(mm.openStreams, Open(mm))
  BY DEF Books
<1>2. RemoveStreams(mm, gone) =
          [mm EXCEPT !.streams = table, !.openStreams = list, !.roundRobinIndex = index,
                     !.numOutgoingStreams = out, !.numIncomingStreams = inc]
  BY DEF RemoveStreams, Even, Odd
<1>3. Open(mm) \in SUBSET Ids /\ mm.streams \in [Open(mm) -> Status] /\ DOMAIN mm.streams = Open(mm)
  BY <1>1, MapStreams DEF Open
<1>4. table \in Tables /\ DOMAIN table = S
  <2>1. table \in [S -> Status] /\ S \in SUBSET Ids
    BY <1>3
  <2> HIDE DEF table, S
  <2> QED
    BY <2>1, TableOf
<1>5. Listed(list, S) /\ list \in Seq(Ids)
  <2>1. Listed(list, S)
    BY <1>1, WithoutLists
  <2> HIDE DEF list
  <2> QED
    BY <1>3, <2>1 DEF Listed
<1>6. index \in Nat
  <2>1. mm.roundRobinIndex \in Nat /\ mm.openStreams \in Seq(Ids)
    BY <1>1, MapFields
  <2> DEFINE rr == mm.roundRobinIndex
  <2>2. before \in SUBSET (1 .. rr)
    BY <2>1
  <2>3. IsFiniteSet(1 .. rr) /\ Cardinality(1 .. rr) = rr
    <3>1. rr \in Nat
      BY <2>1
    <3> HIDE DEF rr
    <3> QED
      BY <3>1, FS_Interval
  <2>4. Cardinality(before) <= rr /\ Cardinality(before) \in Nat
    <3> HIDE DEF before, rr
    <3> QED
      BY <2>2, <2>3, FS_Subset, FS_CardinalityType, Zenon
  <2> HIDE DEF before
  <2> QED
    BY <2>1, <2>4
<1>7. IsFiniteSet(S) /\ IsFiniteSet(gone)
  <2>1. IsFiniteSet(Open(mm))
    BY <1>1, ListedLength
  <2>2. S \in SUBSET Open(mm)
    OBVIOUS
  <2> HIDE DEF S
  <2> QED
    BY <2>1, <2>2, FS_Subset
<1>8. /\ Cardinality(Odd(Open(mm))) = Cardinality(Odd(S)) + Cardinality(Odd(gone))
      /\ Cardinality(Even(Open(mm))) = Cardinality(Even(S)) + Cardinality(Even(gone))
      /\ Cardinality(Odd(S)) \in Nat /\ Cardinality(Odd(gone)) \in Nat
      /\ Cardinality(Even(S)) \in Nat /\ Cardinality(Even(gone)) \in Nat
  <2>1. S \in SUBSET Int /\ gone \in SUBSET Int /\ S \cap gone = {}
    BY <1>3 DEF Ids
  <2>2. S \cup gone = Open(mm)
    OBVIOUS
  <2> HIDE DEF S
  <2> QED
    BY <2>1, <2>2, <1>7, ParityUnion, Zenon
<1>9. /\ inc = Cardinality(Odd(S)) /\ inc \in Nat /\ inc <= mm.numIncomingStreams
      /\ out = Cardinality(Even(S)) /\ out \in Nat /\ out <= mm.numOutgoingStreams
  <2>1. /\ mm.numIncomingStreams = Cardinality(Odd(Open(mm)))
        /\ mm.numOutgoingStreams = Cardinality(Even(Open(mm)))
    BY DEF Books
  <2> HIDE DEF S
  <2> QED
    BY <1>8, <2>1
<1>10. IsServer => inc <= MaxIncoming /\ out <= MaxOutgoing
  <2>1. mm.numIncomingStreams \in Nat /\ mm.numOutgoingStreams \in Nat
    BY <1>1, MapFields
  <2>2. IsServer => mm.numIncomingStreams <= MaxIncoming /\ mm.numOutgoingStreams <= MaxOutgoing
    BY DEF Books
  <2> HIDE DEF inc, out
  <2> QED
    BY <2>1, <2>2, <1>9, MapAssumption
<1>11. \A id \in S : table[id] = mm.streams[id]
  BY <1>3
<1>12. Cardinality(Even(gone)) <= Cardinality(gone)
  <2>1. Even(gone) \in SUBSET gone
    BY DEF Even
  <2> QED
    BY <2>1, <1>7, FS_Subset
<1> HIDE DEF table, list, index, inc, out
<1> DEFINE x == RemoveStreams(mm, gone)
<1>13. /\ x \in Maps
       /\ x.streams = table /\ x.openStreams = list
       /\ x.numIncomingStreams = inc /\ x.numOutgoingStreams = out
       /\ x.nextStream = mm.nextStream /\ x.closed = mm.closed
       /\ x.highestStreamOpenedByPeer = mm.highestStreamOpenedByPeer
       /\ x.nextStreamToAccept = mm.nextStreamToAccept
  BY <1>1, <1>2, <1>4, <1>5, <1>6, <1>9, ZenonT(30) DEF Maps
<1> HIDE DEF x, S
<1>14. Open(x) = S
  BY <1>4, <1>13 DEF Open
<1>15. Books(x)
  BY <1>5, <1>9, <1>10, <1>13, <1>14 DEF Books
<1> QED
  BY <1>7, <1>8, <1>11, <1>12, <1>13, <1>14, <1>15 DEF x, out, S

\* Our streams are the even ones at the server and the odd ones at the client.
LEMMA SideOf ==
    ASSUME NEW id \in Nat
    PROVE  OpenedByUs(id) <=> id % 2 = IF IsServer THEN 0 ELSE 1
BY DEF OpenedByUs, IsServer

\* The streams that a frame opens implicitly are new and of the peer's side.
LEMMA SkippedIds ==
    ASSUME NEW mm \in Maps, NEW us, Sides(mm, us), NEW id \in Ids, ~OpenedByUs(id),
           id > mm.highestStreamOpenedByPeer
    PROVE  /\ Skipped(mm, id) \in Seq(Ids)
           /\ Len(Skipped(mm, id)) \in Nat
           /\ \A i \in 1 .. Len(Skipped(mm, id)) :
                 /\ Skipped(mm, id)[i] > mm.highestStreamOpenedByPeer
                 /\ Skipped(mm, id)[i] % 2 = IF IsServer THEN 1 ELSE 0
                 /\ \A j \in 1 .. Len(Skipped(mm, id)) :
                       j < i => Skipped(mm, id)[j] < Skipped(mm, id)[i]
<1> DEFINE high == mm.highestStreamOpenedByPeer
           first == IF high = 0 THEN IF IsServer THEN 1 ELSE 2 ELSE high + 2
           n == (id - first) \div 2 + 1
           ids == [i \in 1 .. n |-> first + 2 * (i - 1)]
<1>1. high \in Nat /\ high % 2 = IF IsServer THEN 1 ELSE 0
  BY MapFields DEF Sides
<1>2. id \in 1 .. LastId /\ LastId \in Nat /\ id \in Nat
  BY MapAssumption DEF Ids
<1>3. id % 2 = IF IsServer THEN 1 ELSE 0
  BY <1>2, SideOf
<1>4. Skipped(mm, id) = ids
  BY DEF Skipped
<1>5. first \in Nat /\ first > high /\ first % 2 = (IF IsServer THEN 1 ELSE 0) /\ first <= id
  <2>1. CASE high = 0
    BY <1>1, <1>2, <1>3, <2>1
  <2>2. CASE high # 0
    BY <1>1, <1>2, <1>3, <2>2
  <2> QED
    BY <2>1, <2>2
<1>6. high < id
  OBVIOUS
<1> HIDE DEF high, first
<1>7. n \in Nat /\ 2 * n <= id - first + 2
  BY <1>2, <1>5
<1> HIDE DEF n
<1>8. \A i \in 1 .. n : /\ first + 2 * (i - 1) \in Ids
                        /\ first + 2 * (i - 1) > high
                        /\ (first + 2 * (i - 1)) % 2 = IF IsServer THEN 1 ELSE 0
  BY <1>1, <1>2, <1>5, <1>7 DEF Ids
<1>9. \A i, j \in 1 .. n : j < i => first + 2 * (j - 1) < first + 2 * (i - 1)
  BY <1>5, <1>7
<1>10. ids \in Seq(Ids) /\ Len(ids) = n /\ \A i \in 1 .. n : ids[i] = first + 2 * (i - 1)
  BY <1>7, <1>8
<1> HIDE DEF ids
<1>11. \A i \in 1 .. n : /\ ids[i] > high
                         /\ ids[i] % 2 = IF IsServer THEN 1 ELSE 0
                         /\ \A j \in 1 .. n : j < i => ids[j] < ids[i]
  BY <1>8, <1>9, <1>10
<1> QED
  BY <1>4, <1>7, <1>10, <1>11 DEF high

\* openRemoteStream of some new streams of the peer's side, in order.
LEMMA RemoteKeeps ==
    ASSUME NEW mm, NEW us, Books(mm), Sides(mm, us), NEW ids \in Seq(Ids), ids # <<>>,
           IsServer => mm.numIncomingStreams + Len(ids) <= MaxIncoming,
           \A i \in 1 .. Len(ids) :
                 /\ ids[i] > mm.highestStreamOpenedByPeer
                 /\ ids[i] % 2 = IF IsServer THEN 1 ELSE 0
                 /\ \A j \in 1 .. Len(ids) : j < i => ids[j] < ids[i]
    PROVE  /\ Books(openRemoteStreams(mm, ids))
           /\ Sides(openRemoteStreams(mm, ids), us \cup Open(openRemoteStreams(mm, ids)))
           /\ Open(mm) \subseteq Open(openRemoteStreams(mm, ids))
           /\ Open(openRemoteStreams(mm, ids)) \cap us \subseteq Open(mm)
           /\ \A id \in Open(mm) : openRemoteStreams(mm, ids).streams[id] = mm.streams[id]
           /\ openRemoteStreams(mm, ids).nextStream = mm.nextStream
           /\ openRemoteStreams(mm, ids).nextStreamToAccept = mm.nextStreamToAccept
           /\ openRemoteStreams(mm, ids).closed = mm.closed
           /\ IsServer => openRemoteStreams(mm, ids).numOutgoingStreams = mm.numOutgoingStreams
<1> DEFINE high == mm.highestStreamOpenedByPeer
           n == Len(ids)
           T == {ids[i] : i \in 1 .. n}
           p == Put(mm, ids)
           x == openRemoteStreams(mm, ids)
<1>1. mm \in Maps /\ high \in Nat
  BY MapFields DEF Books
<1>2. n \in Nat /\ n # 0 /\ DOMAIN ids = 1 .. n /\ \A i \in 1 .. n : ids[i] \in Ids /\ ids[i] \in Nat
  <2>1. n \in Nat /\ DOMAIN ids = 1 .. n
    BY LenProperties
  <2>2. n # 0
    BY EmptySeq
  <2>3. \A i \in 1 .. n : ids[i] \in Ids
    BY ElementOfSeq
  <2>4. \A id \in Ids : id \in Nat
    BY MapAssumption DEF Ids
  <2> QED
    BY <2>1, <2>2, <2>3, <2>4
<1>3. Listed(ids, T)
  <2>1. ids \in Seq(T)
    BY <1>2
  <2>2. \A i, j \in 1 .. n : ids[i] = ids[j] => i = j
    BY <1>2
  <2> QED
    BY <1>2, <2>1, <2>2 DEF Listed
<1>4. T \in SUBSET Ids /\ \A id \in T : /\ id \in Nat /\ id > high
                                        /\ id % 2 = IF IsServer THEN 1 ELSE 0
  BY <1>2
<1>5. ids[n] \in T /\ \A id \in T : id <= ids[n]
  <2>1. \A i \in 1 .. n : ids[i] <= ids[n]
    BY <1>2
  <2> QED
    BY <1>2, <2>1
<1>6. Cardinality(T) = n /\ IsFiniteSet(T)
  BY <1>3, ListedLength
<1> HIDE DEF T, n
<1>7. \A id \in T : ~OpenedByUs(id)
  BY <1>4, SideOf
<1>8. T \cap us = {} /\ T \cap Open(mm) = {}
  <2>1. \A id \in us : id \notin T
    <3> TAKE id \in us
    <3>1. id \in Nat /\ (~OpenedByUs(id) => id <= high)
      BY MapAssumption DEF Sides, Ids
    <3> QED
      BY <3>1, <1>1, <1>4, <1>7
  <2> QED
    BY <2>1 DEF Sides
<1>9. /\ IsServer => Odd(T) = T /\ Even(T) = {}
      /\ Cardinality(Odd(T)) \in Nat /\ Cardinality(Odd(T)) <= n
  <2>1. IsServer => Odd(T) = T /\ Even(T) = {}
    BY <1>4 DEF Odd, Even
  <2>2. Odd(T) \in SUBSET T
    BY DEF Odd
  <2> QED
    BY <2>1, <2>2, <1>6, FS_Subset, FS_CardinalityType
<1>10. IsServer => Cardinality(Even(T)) = 0
  BY <1>9, FS_EmptySet, Zenon
<1>11. IsServer => /\ mm.numIncomingStreams + Cardinality(Odd(T)) <= MaxIncoming
                   /\ mm.numOutgoingStreams + Cardinality(Even(T)) <= MaxOutgoing
  <2>1. mm.numIncomingStreams \in Nat /\ mm.numOutgoingStreams \in Nat
    BY <1>1, MapFields
  <2>2. IsServer => mm.numOutgoingStreams <= MaxOutgoing /\ mm.numIncomingStreams + n <= MaxIncoming
    BY DEF Books, n
  <2> QED
    BY <2>1, <2>2, <1>2, <1>9, <1>10, MapAssumption
<1>12. /\ Books(p) /\ Open(p) = Open(mm) \cup T
       /\ \A id \in Open(mm) : p.streams[id] = mm.streams[id]
       /\ p.nextStream = mm.nextStream /\ p.nextStreamToAccept = mm.nextStreamToAccept
       /\ p.closed = mm.closed
       /\ p.numOutgoingStreams = mm.numOutgoingStreams + Cardinality(Even(T))
  <2>1. T \in SUBSET Ids /\ T \cap Open(mm) = {}
    BY <1>4, <1>8
  <2> HIDE DEF p
  <2> QED
    BY <1>3, <1>11, <2>1, PutKeeps DEF p
<1>13. x = [p EXCEPT !.highestStreamOpenedByPeer = ids[n]]
  BY DEF openRemoteStreams, n
<1>14. p \in Maps
  BY <1>12 DEF Books
<1> HIDE DEF p, x
<1>15. /\ x \in Maps /\ x.highestStreamOpenedByPeer = ids[n]
       /\ x.streams = p.streams /\ x.openStreams = p.openStreams
       /\ x.nextStream = p.nextStream /\ x.nextStreamToAccept = p.nextStreamToAccept
       /\ x.closed = p.closed /\ x.numOutgoingStreams = p.numOutgoingStreams
       /\ x.numIncomingStreams = p.numIncomingStreams
  <2>1. ids[n] \in Nat
    BY <1>4, <1>5
  <2> QED
    BY <2>1, <1>13, <1>14, Zenon DEF Maps
<1>16. Open(x) = Open(mm) \cup T
  BY <1>12, <1>15 DEF Open
<1>17. Books(x)
  <2>1. Open(x) = Open(p)
    BY <1>12, <1>16
  <2> QED
    BY <1>12, <1>15, <2>1, SameBooks, Zenon
<1>18. Sides(x, us \cup Open(x))
  <2>1. us \cup Open(x) = us \cup T /\ us \cup T \subseteq Ids /\ Crypto \in Open(x)
    BY <1>4, <1>16 DEF Sides
  <2>2. /\ ids[n] \in Nat /\ ids[n] <= LastId /\ ids[n] > high
        /\ ids[n] % 2 = IF IsServer THEN 1 ELSE 0
    <3>1. ids[n] \in Ids
      BY <1>4, <1>5
    <3>2. ids[n] <= LastId
      BY <3>1, MapAssumption DEF Ids
    <3> QED
      BY <3>2, <1>4, <1>5
  <2>3. ASSUME NEW id \in us \cup T
        PROVE  IF OpenedByUs(id) THEN id < x.nextStream ELSE id <= x.highestStreamOpenedByPeer
    <3>1. CASE id \in us
      <4>1. IF OpenedByUs(id) THEN id < mm.nextStream ELSE id <= high
        BY <3>1 DEF Sides
      <4>2. id \in Nat
        BY <3>1, MapAssumption DEF Sides, Ids
      <4> QED
        BY <4>1, <4>2, <1>1, <1>12, <1>15, <2>2
    <3>2. CASE id \in T
      BY <3>2, <1>5, <1>7, <1>15
    <3> QED
      BY <3>1, <3>2
  <2> QED
    BY <1>12, <1>15, <2>1, <2>2, <2>3 DEF Sides
<1>19. IsServer => x.numOutgoingStreams = mm.numOutgoingStreams
  <2>1. mm.numOutgoingStreams \in Nat
    BY <1>1, MapFields
  <2> QED
    BY <2>1, <1>10, <1>12, <1>15
<1> QED
  BY <1>8, <1>12, <1>15, <1>16, <1>17, <1>18, <1>19 DEF x

\* What every call of GetOrOpenStream leaves true of the map x it makes of mm.
Opened(mm, x, us) ==
    /\ Books(x)
    /\ Sides(x, us \cup Open(x))
    /\ Open(mm) \subseteq Open(x)
    /\ Open(x) \cap us \subseteq Open(mm)
    /\ \A id \in Open(mm) : x.streams[id] = mm.streams[id]
    /\ x.nextStream = mm.nextStream
    /\ x.nextStreamToAccept = mm.nextStreamToAccept
    /\ x.closed = mm.closed
    /\ IsServer => x.numOutgoingStreams = mm.numOutgoingStreams

\* GetOrOpenStream leaves the map alone.
LEMMA SameOpened ==
    ASSUME NEW mm, NEW us, Books(mm), Sides(mm, us)
    PROVE  Opened(mm, mm, us)
<1>1. us \cup Open(mm) = us
  BY DEF Sides
<1> QED
  BY <1>1 DEF Opened

\* GetOrOpenStream of a stream of the peer, or of one that we have opened.
LEMMA GetOrOpenKeeps ==
    ASSUME NEW mm, NEW us, Books(mm), Sides(mm, us), NEW id \in Ids,
           OpenedByUs(id) => id < mm.nextStream
    PROVE  /\ Opened(mm, GetOrOpenStream(mm, id).map, us)
           /\ GetOrOpenStream(mm, id).err \in {"none", "TooManyOpenStreams"}
<1> DEFINE r == GetOrOpenStream(mm, id)
<1>1. mm \in Maps /\ mm.highestStreamOpenedByPeer \in Nat /\ mm.nextStream \in Nat /\ id \in Nat
      /\ mm.numIncomingStreams \in Nat
  BY MapFields, MapAssumption DEF Books, Ids
<1>2. CASE id \in Open(mm) \/ WasClosed(mm, id)
  <2>1. r = [map |-> mm, err |-> "none"]
    BY <1>2 DEF GetOrOpenStream
  <2> QED
    BY <2>1, SameOpened
<1>3. CASE ~(id \in Open(mm) \/ WasClosed(mm, id))
  <2>1. ~OpenedByUs(id) /\ id > mm.highestStreamOpenedByPeer
    BY <1>1, <1>3 DEF WasClosed
  <2> DEFINE ids == Skipped(mm, id)
             room == Room(mm, ids)
             some == SubSeq(ids, 1, room)
  <2>2. r = [map |-> openRemoteStreams(mm, some),
             err |-> IF room < Len(ids) THEN "TooManyOpenStreams" ELSE "none"]
    BY <1>3, <2>1 DEF GetOrOpenStream
  <2>3. /\ ids \in Seq(Ids) /\ Len(ids) \in Nat
        /\ \A i \in 1 .. Len(ids) :
              /\ ids[i] > mm.highestStreamOpenedByPeer
              /\ ids[i] % 2 = IF IsServer THEN 1 ELSE 0
              /\ \A j \in 1 .. Len(ids) : j < i => ids[j] < ids[i]
    BY <1>1, <2>1, SkippedIds
  <2> HIDE DEF ids
  <2>4. /\ room \in Nat /\ room <= Len(ids)
        /\ IsServer => mm.numIncomingStreams + room <= MaxIncoming
    <3>1. CASE mm.numIncomingStreams >= MaxIncoming
      <4>1. room = 0
        BY <3>1 DEF Room
      <4>2. IsServer => mm.numIncomingStreams <= MaxIncoming
        BY DEF Books
      <4> HIDE DEF room
      <4> QED
        BY <4>1, <4>2, <2>3, <1>1, MapAssumption
    <3>2. CASE ~(mm.numIncomingStreams >= MaxIncoming)
      <4> DEFINE left == MaxIncoming - mm.numIncomingStreams
                 k == Len(ids)
      <4>1. left \in Nat /\ mm.numIncomingStreams + left = MaxIncoming
        BY <3>2, <1>1, MapAssumption
      <4>2. room = IF IsServer /\ k > left THEN left ELSE k
        BY <3>2 DEF Room
      <4>3. k \in Nat
        BY <2>3
      <4> HIDE DEF room, k
      <4>4. room \in Nat /\ room <= k /\ (IsServer => room <= left)
        <5> HIDE DEF left
        <5> QED
          BY <4>1, <4>2, <4>3
      <4> QED
        BY <4>1, <4>3, <4>4, <1>1, MapAssumption DEF k
    <3> QED
      BY <3>1, <3>2
  <2> HIDE DEF room
  <2>5. /\ some \in Seq(Ids) /\ Len(some) = room
        /\ \A i \in 1 .. room : some[i] = ids[i]
    <3> DEFINE k == Len(ids)
    <3>1. k \in Nat /\ room <= k
      BY <2>3, <2>4
    <3>2. \A i \in 1 .. room : i \in 1 .. Len(ids)
      <4> HIDE DEF k
      <4> QED
        BY <3>1, <2>4 DEF k
    <3>3. \A i \in 1 .. room : ids[i] \in Ids
      BY <3>2, <2>3, ElementOfSeq
    <3>4. some = [i \in 1 .. room |-> ids[i]]
      BY <2>4, <2>3
    <3> HIDE DEF some
    <3> QED
      BY <3>3, <3>4, <2>4
  <2>6. CASE some = <<>>
    <3>1. r.map = mm
      BY <2>2, <2>6 DEF openRemoteStreams
    <3> QED
      BY <2>2, <3>1, SameOpened
  <2>7. CASE some # <<>>
    <3> HIDE DEF some
    <3>1. \A i \in 1 .. Len(some) :
             /\ some[i] > mm.highestStreamOpenedByPeer
             /\ some[i] % 2 = IF IsServer THEN 1 ELSE 0
             /\ \A j \in 1 .. Len(some) : j < i => some[j] < some[i]
      <4>1. \A i \in 1 .. room : i \in 1 .. Len(ids)
        BY <2>3, <2>4
      <4> QED
        BY <4>1, <2>3, <2>5
    <3>2. IsServer => mm.numIncomingStreams + Len(some) <= MaxIncoming
      BY <2>4, <2>5
    <3>3. some \in Seq(Ids)
      BY <2>5
    <3> DEFINE x == openRemoteStreams(mm, some)
    <3>4. Opened(mm, x, us)
      BY <2>7, <3>1, <3>2, <3>3, RemoteKeeps, Zenon DEF Opened
    <3> HIDE DEF x
    <3> QED
      BY <2>2, <3>4 DEF x
  <2> QED
    BY <2>6, <2>7
<1> QED
  BY <1>2, <1>3

\* openStreamImpl, when it may open a stream.
LEMMA OpenImplKeeps ==
    ASSUME NEW mm, NEW us, Books(mm), Sides(mm, us), MayOpen(mm), mm.nextStream <= LastId
    PROVE  /\ Books(openStreamImpl(mm))
           /\ Open(openStreamImpl(mm)) = Open(mm) \cup {mm.nextStream}
           /\ Sides(openStreamImpl(mm), us \cup {mm.nextStream})
           /\ mm.nextStream \notin us
           /\ mm.nextStream # mm.nextStreamToAccept
           /\ openStreamImpl(mm).streams[Crypto] = mm.streams[Crypto]
           /\ openStreamImpl(mm).nextStreamToAccept = mm.nextStreamToAccept
           /\ openStreamImpl(mm).closed = mm.closed
           /\ IsServer => openStreamImpl(mm).numOutgoingStreams = mm.numOutgoingStreams + 1
<1> DEFINE id == mm.nextStream
           p == Put(mm, <<id>>)
           x == openStreamImpl(mm)
<1>1. /\ mm \in Maps /\ id \in Nat /\ id > 1 /\ id <= LastId
      /\ mm.highestStreamOpenedByPeer \in Nat /\ mm.nextStreamToAccept \in Nat
      /\ mm.numOutgoingStreams \in Nat /\ mm.numIncomingStreams \in Nat
  BY MapFields DEF Books, Sides
<1>2. id % 2 = IF IsServer THEN 0 ELSE 1
  BY DEF Sides
<1>3. id \in Ids /\ OpenedByUs(id) /\ id # mm.nextStreamToAccept
  <2>1. mm.nextStreamToAccept % 2 = IF IsServer THEN 1 ELSE 0
    BY DEF Sides
  <2> QED
    BY <1>1, <1>2, <2>1, SideOf, MapAssumption DEF Ids
<1>4. id \notin us /\ id \notin Open(mm) /\ Crypto \in Open(mm)
  <2>1. \A y \in us : OpenedByUs(y) => y < id
    BY DEF Sides
  <2> QED
    BY <1>1, <1>3, <2>1 DEF Sides
<1> HIDE DEF id
<1>5. Listed(<<id>>, {id}) /\ {id} \in SUBSET Ids /\ {id} \cap Open(mm) = {}
  BY <1>3, <1>4 DEF Listed
<1>6. IsServer => Cardinality(Even({id})) = 1 /\ Cardinality(Odd({id})) = 0
  <2>1. IsServer => Even({id}) = {id} /\ Odd({id}) = {}
    BY <1>2 DEF Even, Odd
  <2> QED
    BY <2>1, FS_EmptySet, FS_Singleton, Zenon
<1>7. IsServer => /\ mm.numIncomingStreams + Cardinality(Odd({id})) <= MaxIncoming
                  /\ mm.numOutgoingStreams + Cardinality(Even({id})) <= MaxOutgoing
  <2>1. IsServer => mm.numIncomingStreams <= MaxIncoming
    BY DEF Books
  <2> QED
    BY <2>1, <1>1, <1>6, MapAssumption DEF MayOpen
<1>8. /\ Books(p) /\ Open(p) = Open(mm) \cup {id}
      /\ \A y \in Open(mm) : p.streams[y] = mm.streams[y]
      /\ p.nextStream = mm.nextStream /\ p.nextStreamToAccept = mm.nextStreamToAccept
      /\ p.highestStreamOpenedByPeer = mm.highestStreamOpenedByPeer
      /\ p.closed = mm.closed
      /\ p.numOutgoingStreams = mm.numOutgoingStreams + Cardinality(Even({id}))
  <2> DEFINE T == {id}
             list == <<id>>
  <2>1. Listed(list, T) /\ T \in SUBSET Ids /\ T \cap Open(mm) = {}
    BY <1>5
  <2>2. IsServer => /\ mm.numIncomingStreams + Cardinality(Odd(T)) <= MaxIncoming
                    /\ mm.numOutgoingStreams + Cardinality(Even(T)) <= MaxOutgoing
    BY <1>7
  <2>3. p = Put(mm, list)
    OBVIOUS
  <2> HIDE DEF p, T, list
  <2>4. /\ Books(p) /\ Open(p) = Open(mm) \cup T
        /\ \A y \in Open(mm) : p.streams[y] = mm.streams[y]
        /\ p.nextStream = mm.nextStream /\ p.nextStreamToAccept = mm.nextStreamToAccept
        /\ p.highestStreamOpenedByPeer = mm.highestStreamOpenedByPeer
        /\ p.closed = mm.closed
        /\ p.numOutgoingStreams = mm.numOutgoingStreams + Cardinality(Even(T))
    BY <2>1, <2>2, <2>3, PutKeeps
  <2> QED
    BY <2>4 DEF T
<1> DEFINE next == id + 2
<1>9. p \in Maps /\ p.nextStream = id /\ next \in Nat
  BY <1>1, <1>8 DEF Books, id
<1>10. x = [p EXCEPT !.nextStream = next]
  <2>1. x = [p EXCEPT !.nextStream = @ + 2]
    BY DEF openStreamImpl, id
  <2> HIDE DEF p, x
  <2> QED
    BY <2>1, <1>9
<1> HIDE DEF p, x, next
<1>11. /\ x \in Maps /\ x.nextStream = next
       /\ x.streams = p.streams /\ x.openStreams = p.openStreams
       /\ x.highestStreamOpenedByPeer = p.highestStreamOpenedByPeer
       /\ x.nextStreamToAccept = p.nextStreamToAccept
       /\ x.closed = p.closed /\ x.numOutgoingStreams = p.numOutgoingStreams
       /\ x.numIncomingStreams = p.numIncomingStreams
  BY <1>9, <1>10 DEF Maps
<1>12. Open(x) = Open(mm) \cup {id}
  BY <1>8, <1>11 DEF Open
<1>13. Books(x)
  <2>1. Open(x) = Open(p)
    BY <1>8, <1>12
  <2> QED
    BY <1>8, <1>11, <2>1, SameBooks, Zenon
<1>14. Sides(x, us \cup {id})
  <2>1. us \cup {id} \subseteq Ids /\ Open(x) \subseteq us \cup {id} /\ Crypto \in Open(x)
    BY <1>3, <1>12 DEF Sides
  <2>2. x.nextStream > 1 /\ x.nextStream % 2 = IF IsServer THEN 0 ELSE 1
    BY <1>1, <1>2, <1>11 DEF next
  <2>3. ASSUME NEW y \in us \cup {id}
        PROVE  IF OpenedByUs(y) THEN y < x.nextStream ELSE y <= x.highestStreamOpenedByPeer
    <3>1. CASE y \in us
      <4>1. IF OpenedByUs(y) THEN y < id ELSE y <= mm.highestStreamOpenedByPeer
        BY <3>1 DEF Sides, id
      <4>2. y \in Nat
        BY <3>1, MapAssumption DEF Sides, Ids
      <4> QED
        BY <4>1, <4>2, <1>1, <1>8, <1>11 DEF next
    <3>2. CASE y = id
      BY <3>2, <1>1, <1>3, <1>11 DEF next
    <3> QED
      BY <3>1, <3>2
  <2> QED
    BY <1>8, <1>11, <2>1, <2>2, <2>3 DEF Sides
<1>15. IsServer => x.numOutgoingStreams = mm.numOutgoingStreams + 1
  BY <1>6, <1>8, <1>11
<1> QED
  BY <1>3, <1>4, <1>8, <1>11, <1>12, <1>13, <1>14, <1>15 DEF x, id

\* A stream of the map changes its state.
LEMMA SetState ==
    ASSUME NEW mm, NEW us, Books(mm), Sides(mm, us), NEW id \in Open(mm), NEW x,
           x = [mm EXCEPT !.streams[id] = "finished"]
    PROVE  /\ Books(x) /\ Sides(x, us) /\ Open(x) = Open(mm)
           /\ \A y \in Open(mm) \ {id} : x.streams[y] = mm.streams[y]
           /\ x.closed = mm.closed /\ x.nextStreamToAccept = mm.nextStreamToAccept
           /\ x.numOutgoingStreams = mm.numOutgoingStreams
<1> DEFINE table == [mm.streams EXCEPT ![id] = "finished"]
<1>1. mm \in Maps /\ x = [mm EXCEPT !.streams = table]
  BY DEF Books
<1>2. Open(mm) \in SUBSET Ids /\ mm.streams \in [Open(mm) -> Status]
  BY <1>1, MapStreams
<1>3. /\ table \in [Open(mm) -> Status] /\ DOMAIN table = Open(mm)
      /\ \A y \in Open(mm) \ {id} : table[y] = mm.streams[y]
  BY <1>2 DEF Status
<1> HIDE DEF table
<1>4. table \in Tables
  BY <1>2, <1>3, TableOf
<1>5. /\ x \in Maps /\ x.streams = table /\ x.openStreams = mm.openStreams
      /\ x.nextStream = mm.nextStream /\ x.nextStreamToAccept = mm.nextStreamToAccept
      /\ x.highestStreamOpenedByPeer = mm.highestStreamOpenedByPeer
      /\ x.closed = mm.closed /\ x.numOutgoingStreams = mm.numOutgoingStreams
      /\ x.numIncomingStreams = mm.numIncomingStreams
  BY <1>1, <1>4 DEF Maps
<1>6. Open(x) = Open(mm)
  BY <1>3, <1>5 DEF Open
<1>7. Books(x)
  BY <1>5, <1>6, SameBooks, Zenon
<1>8. Sides(x, us)
  BY <1>5, <1>6 DEF Sides
<1> QED
  BY <1>3, <1>5, <1>6, <1>7, <1>8

\* The index of RoundRobinIterate.
LEMMA RemainderNat ==
    ASSUME NEW a \in Nat, NEW b \in Nat \ {0}
    PROVE  a % b \in Nat
OBVIOUS
--------------------------------------------------------------------------
(***************************************************************************)
(* The invariant.                                                          *)
(***************************************************************************)
AcceptorAwake ==
    accepting = "waiting" =>
        ~m.closed /\ (m.nextStreamToAccept \in Open(m) => status # "open")

Woken == {o \in Openers : opening[o] = "woken"}

OpenersAwake ==
    (\E o \in Openers : opening[o] = "waiting") =>
        ~m.closed /\ (IsServer => MaxOutgoing - m.numOutgoingStreams <= Cardinality(Woken))

LEMMA WaitersSplit == WaitersNotForgotten <=> AcceptorAwake /\ OpenersAwake
BY DEF WaitersNotForgotten, AcceptorAwake, OpenersAwake, Woken

LEMMA WokenNumber == Cardinality(Woken) \in Nat /\ IsFiniteSet(Woken)
<1>1. Woken \in SUBSET Openers
  BY DEF Woken
<1> QED
  BY <1>1, MapAssumption, FS_Subset, FS_CardinalityType

\* The invariant after a step, from what holds of the map it leaves.
LEMMA Carry ==
    ASSUME perspective' = perspective, perspective \in {"client", "server"},
           accepting' \in Waiter, opening' \in [Openers -> Waiter], loop' \in {"frames", "collect"},
           Books(m'), Sides(m', used'), flow' = Open(m'),
           ~m'.closed => m'.streams[Crypto] = "open",
           m'.closed => loop' = "frames" /\ status' # "open",
           status' \notin {"InvalidStreamID", "errMapAccess"},
           AcceptorAwake', OpenersAwake'
    PROVE  IInv'
<1>1. Others' /\ Ends' /\ LateFramesHarmless'
  BY DEF Others, Ends, LateFramesHarmless
<1>2. Books(m)'
  BY DEF Books, IsServer, Open
<1>3. Sides(m, used)'
  BY DEF Sides, IsServer, OpenedByUs, Open
<1>4. (flow = Open(m))'
  BY DEF Open
<1>5. WaitersNotForgotten'
  BY DEF WaitersNotForgotten, AcceptorAwake, OpenersAwake, Woken
<1> QED
  BY <1>1, <1>2, <1>3, <1>4, <1>5 DEF IInv

\* The openers when no place becomes free.
LEMMA SameOpeners ==
    ASSUME OpenersAwake, opening' = opening, perspective' = perspective, m'.closed = m.closed,
           m.numOutgoingStreams \in Nat, m'.numOutgoingStreams \in Nat,
           IsServer => m'.numOutgoingStreams >= m.numOutgoingStreams
    PROVE  OpenersAwake'
<1>1. Woken' = Woken /\ (IsServer' <=> IsServer)
  BY DEF Woken, IsServer
<1>2. MaxOutgoing \in Nat /\ Cardinality(Woken) \in Nat
  BY MapAssumption, WokenNumber
<1> QED
  BY <1>1, <1>2 DEF OpenersAwake

\* A step that may open streams of the peer and set a stream's state.
LEMMA OpensKeeps ==
    ASSUME IInv, NEW x, Opened(m, x, used), Books(m'), Open(m') = Open(x),
           Sides(m', used \cup Open(x)),
           m'.closed = x.closed, m'.nextStreamToAccept = x.nextStreamToAccept,
           m'.numOutgoingStreams = x.numOutgoingStreams,
           m'.streams[Crypto] = x.streams[Crypto],
           flow' = flow \cup (Open(x) \ Open(m)), used' = used \cup Open(x),
           accepting' \in Waiter, accepting' = "waiting" => accepting = "waiting",
           accepting' = "waiting" /\ Open(x) # Open(m) => status' # "open",
           status # "open" => status' # "open",
           status' \notin {"InvalidStreamID", "errMapAccess"},
           UNCHANGED <<perspective, opening, loop>>
    PROVE  IInv'
<1>1. /\ m \in Maps /\ m' \in Maps /\ Crypto \in Open(m)
      /\ m.numOutgoingStreams \in Nat /\ m'.numOutgoingStreams \in Nat
  BY MapFields DEF IInv, Books, Sides
<1>2. flow' = Open(m')
  BY DEF IInv, Opened
<1>3. ~m'.closed => m'.streams[Crypto] = "open"
  BY <1>1 DEF IInv, Ends, Opened
<1>4. m'.closed => loop' = "frames" /\ status' # "open"
  BY DEF IInv, Ends, Opened
<1>5. AcceptorAwake /\ OpenersAwake
  BY WaitersSplit DEF IInv
<1>6. AcceptorAwake'
  <2> SUFFICES ASSUME accepting' = "waiting"
               PROVE  ~m'.closed /\ (m'.nextStreamToAccept \in Open(m') => status' # "open")
    BY DEF AcceptorAwake, Open
  <2>1. ~m.closed /\ (m.nextStreamToAccept \in Open(m) => status # "open")
    BY <1>5 DEF AcceptorAwake
  <2>2. m'.closed = m.closed /\ m'.nextStreamToAccept = m.nextStreamToAccept
    BY DEF Opened
  <2> QED
    BY <2>1, <2>2
<1>7. OpenersAwake'
  <2>1. m'.closed = m.closed /\ (IsServer => m'.numOutgoingStreams >= m.numOutgoingStreams)
    BY <1>1 DEF Opened
  <2> QED
    BY <1>1, <1>5, <2>1, SameOpeners
<1>8. perspective \in {"client", "server"} /\ opening' \in [Openers -> Waiter] /\ loop' \in {"frames", "collect"}
  BY DEF IInv, Others
<1> QED
  BY <1>2, <1>3, <1>4, <1>6, <1>7, <1>8, Carry

LEMMA HandleFrameKeeps ==
    ASSUME IInv, NEW id \in Ids, NEW kind \in {"STREAM", "RST_STREAM"}, HandleFrame(id, kind)
    PROVE  IInv' /\ Open(m') \cap used \subseteq Open(m)
<1> DEFINE r == GetOrOpenStream(m, id)
           x == r.map
           resets == kind = "RST_STREAM" /\ r.err = "none" /\ id \in Open(x)
<1>1. /\ status = "open" /\ (OpenedByUs(id) => id < m.nextStream)
      /\ id = Crypto => kind # "RST_STREAM"
      /\ m' = IF resets THEN [x EXCEPT !.streams[id] = "finished"] ELSE x
      /\ Opens(r)
      /\ status' = IF r.err # "none" THEN r.err
                   ELSE IF id \in Open(x) /\ id \notin flow' THEN "errMapAccess" ELSE status
      /\ UNCHANGED <<perspective, opening, loop>>
  BY DEF HandleFrame
<1>2. Books(m) /\ Sides(m, used) /\ flow = Open(m)
  BY DEF IInv
<1>3. Opened(m, x, used) /\ r.err \in {"none", "TooManyOpenStreams"}
  BY <1>1, <1>2, GetOrOpenKeeps
<1> HIDE DEF r
<1>4. flow' = flow \cup (Open(x) \ Open(m)) /\ used' = used \cup Open(x)
  BY <1>1 DEF Opens
<1>5. /\ accepting' \in Waiter /\ (accepting' = "waiting" => accepting = "waiting")
      /\ r.err = "none" /\ Open(x) # Open(m) => accepting' # "waiting"
  BY <1>1 DEF Opens, WakeAcceptor, Waiter, IInv, Others
<1>6. status' = IF r.err # "none" THEN r.err ELSE status
  BY <1>1, <1>2, <1>4
<1>7. /\ Books(x) /\ Sides(x, used \cup Open(x)) /\ Crypto \in Open(x)
      /\ Open(x) \cap used \subseteq Open(m)
  BY <1>3 DEF Opened, Sides
<1>8. /\ Books(m') /\ Sides(m', used \cup Open(x)) /\ Open(m') = Open(x)
      /\ m'.closed = x.closed /\ m'.nextStreamToAccept = x.nextStreamToAccept
      /\ m'.numOutgoingStreams = x.numOutgoingStreams
      /\ m'.streams[Crypto] = x.streams[Crypto]
  <2> HIDE DEF x
  <2>1. CASE resets
    <3>1. m' = [x EXCEPT !.streams[id] = "finished"] /\ id # Crypto /\ id \in Open(x)
      BY <1>1, <2>1
    <3> DEFINE y == m'
    <3>2. y = [x EXCEPT !.streams[id] = "finished"]
      BY <3>1
    <3> HIDE DEF y
    <3>3. /\ Books(y) /\ Sides(y, used \cup Open(x)) /\ Open(y) = Open(x)
          /\ \A z \in Open(x) \ {id} : y.streams[z] = x.streams[z]
          /\ y.closed = x.closed /\ y.nextStreamToAccept = x.nextStreamToAccept
          /\ y.numOutgoingStreams = x.numOutgoingStreams
      BY <1>7, <3>1, <3>2, SetState
    <3> QED
      BY <1>7, <3>1, <3>3 DEF y
  <2>2. CASE ~resets
    BY <1>1, <1>7, <2>2
  <2> QED
    BY <2>1, <2>2
<1>9. /\ accepting' = "waiting" /\ Open(x) # Open(m) => status' # "open"
      /\ status # "open" => status' # "open"
      /\ status' \notin {"InvalidStreamID", "errMapAccess"}
  BY <1>1, <1>3, <1>5, <1>6
<1> HIDE DEF x
<1>10. IInv'
  BY <1>1, <1>3, <1>4, <1>5, <1>8, <1>9, OpensKeeps
<1> QED
  BY <1>7, <1>8, <1>10

LEMMA AppGetOrOpenKeeps ==
    ASSUME IInv, NEW id \in Ids, AppGetOrOpenStream(id)
    PROVE  IInv' /\ Open(m') \cap used \subseteq Open(m)
<1> DEFINE r == GetOrOpenStream(m, id)
           x == r.map
<1>1. /\ ~OpenedByUs(id) /\ m' = x /\ Opens(r)
      /\ status' = IF r.err # "none" /\ status = "open" THEN r.err ELSE status
      /\ UNCHANGED <<perspective, opening, loop>>
  BY DEF AppGetOrOpenStream
<1>2. Books(m) /\ Sides(m, used) /\ status \notin {"InvalidStreamID", "errMapAccess"}
  BY DEF IInv, LateFramesHarmless
<1>3. Opened(m, x, used) /\ r.err \in {"none", "TooManyOpenStreams"}
  BY <1>1, <1>2, GetOrOpenKeeps
<1> HIDE DEF r
<1>4. flow' = flow \cup (Open(x) \ Open(m)) /\ used' = used \cup Open(x)
  BY <1>1 DEF Opens
<1>5. /\ accepting' \in Waiter /\ (accepting' = "waiting" => accepting = "waiting")
      /\ r.err = "none" /\ Open(x) # Open(m) => accepting' # "waiting"
  BY <1>1 DEF Opens, WakeAcceptor, Waiter, IInv, Others
<1>6. /\ Books(x) /\ Sides(x, used \cup Open(x))
      /\ Open(x) \cap used \subseteq Open(m)
  BY <1>3 DEF Opened
<1>7. /\ accepting' = "waiting" /\ Open(x) # Open(m) => status' # "open"
      /\ status # "open" => status' # "open"
      /\ status' \notin {"InvalidStreamID", "errMapAccess"}
  BY <1>1, <1>2, <1>3, <1>5
<1> HIDE DEF x
<1>8. IInv'
  BY <1>1, <1>3, <1>4, <1>5, <1>6, <1>7, OpensKeeps
<1> QED
  BY <1>1, <1>6, <1>8

\* A step that changes neither the streams nor who has been opened, and no
\* waiter: it may change the round-robin index, the state of one stream, the
\* acceptor and the status.
LEMMA SameStreams ==
    ASSUME IInv, Books(m'), Sides(m', used), Open(m') = Open(m), m'.closed = m.closed,
           m'.numOutgoingStreams = m.numOutgoingStreams,
           m'.streams[Crypto] = m.streams[Crypto],
           UNCHANGED <<perspective, flow, opening, used>>,
           accepting' \in Waiter, loop' \in {"frames", "collect"},
           m.closed => loop' = "frames" /\ status' # "open",
           status' \notin {"InvalidStreamID", "errMapAccess"},
           AcceptorAwake'
    PROVE  IInv'
<1>1. /\ m \in Maps /\ m.numOutgoingStreams \in Nat
  BY MapFields DEF IInv, Books
<1>2. flow' = Open(m') /\ used' = used
  BY DEF IInv
<1>3. /\ ~m'.closed => m'.streams[Crypto] = "open"
      /\ m'.closed => loop' = "frames" /\ status' # "open"
  BY DEF IInv, Ends
<1>4. OpenersAwake
  BY WaitersSplit DEF IInv
<1>5. OpenersAwake'
  <2>1. m'.numOutgoingStreams \in Nat /\ m'.numOutgoingStreams >= m.numOutgoingStreams
    BY <1>1
  <2> QED
    BY <1>1, <1>4, <2>1, SameOpeners
<1>6. perspective \in {"client", "server"} /\ opening' \in [Openers -> Waiter]
  BY DEF IInv, Others
<1> QED
  BY <1>2, <1>3, <1>5, <1>6, Carry

LEMMA RoundRobinKeeps ==
    ASSUME IInv, NEW k \in 0 .. LastId, RoundRobinIterate(k)
    PROVE  IInv' /\ Open(m') = Open(m)
<1> DEFINE n == Cardinality(Open(m))
           index == (m.roundRobinIndex + k) % n
<1>1. m \in Maps /\ Listed(m.openStreams, Open(m)) /\ Crypto \in Open(m) /\ m.roundRobinIndex \in Nat
  BY MapFields DEF IInv, Books, Sides
<1>2. index \in Nat
  <2>1. n \in Nat \ {0}
    <3>1. IsFiniteSet(Open(m)) /\ n \in Nat
      BY <1>1, ListedLength
    <3> QED
      BY <3>1, <1>1, FS_EmptySet
  <2>2. m.roundRobinIndex + k \in Nat
    BY <1>1, MapAssumption
  <2> QED
    BY <2>1, <2>2, RemainderNat
<1>3. m' = m \/ m' = [m EXCEPT !.roundRobinIndex = index]
  BY DEF RoundRobinIterate
<1> HIDE DEF index
<1> DEFINE x == m'
<1>4. x = m \/ x = [m EXCEPT !.roundRobinIndex = index]
  BY <1>3
<1> HIDE DEF x
<1>5. /\ x \in Maps /\ x.streams = m.streams /\ x.openStreams = m.openStreams
      /\ x.nextStream = m.nextStream /\ x.nextStreamToAccept = m.nextStreamToAccept
      /\ x.highestStreamOpenedByPeer = m.highestStreamOpenedByPeer
      /\ x.closed = m.closed /\ x.numOutgoingStreams = m.numOutgoingStreams
      /\ x.numIncomingStreams = m.numIncomingStreams
  BY <1>1, <1>2, <1>4 DEF Maps
<1>6. Open(x) = Open(m)
  BY <1>5 DEF Open
<1>7. Books(x) /\ Sides(x, used)
  <2>1. Books(m) /\ Sides(m, used)
    BY DEF IInv
  <2>2. Books(x)
    BY <2>1, <1>5, <1>6, SameBooks
  <2> QED
    BY <2>1, <2>2, <1>5, <1>6 DEF Sides
<1>8. /\ loop' = "collect" /\ status = "open" /\ status' = status
      /\ UNCHANGED <<perspective, flow, accepting, opening, used>>
  BY DEF RoundRobinIterate
<1>9. ~m.closed /\ accepting' \in Waiter
  BY <1>8 DEF IInv, Ends, Others
<1>10. AcceptorAwake'
  <2>1. AcceptorAwake
    BY WaitersSplit DEF IInv
  <2>2. m'.closed = m.closed /\ m'.nextStreamToAccept = m.nextStreamToAccept /\ Open(m') = Open(m)
    BY <1>5, <1>6 DEF x
  <2>3. Open(m)' = Open(m)
    BY <2>2 DEF Open
  <2> QED
    BY <2>1, <2>2, <2>3, <1>8 DEF AcceptorAwake
<1>11. IInv'
  BY <1>5, <1>6, <1>7, <1>8, <1>9, <1>10, SameStreams DEF x
<1> QED
  BY <1>6, <1>11 DEF x

LEMMA CloseKeeps ==
    ASSUME IInv, Close
    PROVE  IInv' /\ Open(m') = Open(m)
<1>1. /\ status = "open" /\ status' = "closed by the application" /\ m' = m
      /\ UNCHANGED <<perspective, flow, accepting, opening, loop, used>>
  BY DEF Close
<1>2. Books(m') /\ Sides(m', used) /\ Open(m') = Open(m) /\ accepting' \in Waiter /\ loop' \in {"frames", "collect"}
  BY <1>1 DEF IInv, Others
<1>3. AcceptorAwake
  BY WaitersSplit DEF IInv
<1>4. AcceptorAwake'
  BY <1>1, <1>3 DEF AcceptorAwake
<1>5. m.closed => loop' = "frames" /\ status' # "open"
  BY <1>1 DEF IInv, Ends
<1> QED
  BY <1>1, <1>2, <1>4, <1>5, SameStreams

LEMMA FinishKeeps ==
    ASSUME IInv, NEW id \in Ids, Finish(id)
    PROVE  IInv' /\ Open(m') = Open(m)
<1> DEFINE x == m'
<1>1. /\ id \in Open(m) /\ id # Crypto /\ x = [m EXCEPT !.streams[id] = "finished"]
      /\ UNCHANGED <<perspective, flow, accepting, opening, loop, status, used>>
  BY DEF Finish
<1>2. Books(m) /\ Sides(m, used) /\ Crypto \in Open(m) /\ AcceptorAwake
      /\ status \notin {"InvalidStreamID", "errMapAccess"}
  BY WaitersSplit DEF IInv, Sides, LateFramesHarmless
<1> HIDE DEF x
<1>3. /\ Books(x) /\ Sides(x, used) /\ Open(x) = Open(m)
      /\ \A y \in Open(m) \ {id} : x.streams[y] = m.streams[y]
      /\ x.closed = m.closed /\ x.nextStreamToAccept = m.nextStreamToAccept
      /\ x.numOutgoingStreams = m.numOutgoingStreams
  BY <1>1, <1>2, SetState
<1>4. x.streams[Crypto] = m.streams[Crypto]
  BY <1>1, <1>2, <1>3
<1>5. AcceptorAwake'
  <2>1. Open(m)' = Open(m)
    BY <1>3 DEF Open, x
  <2> QED
    BY <1>1, <1>2, <1>3, <2>1 DEF AcceptorAwake, x
<1>6. /\ accepting' \in Waiter /\ loop' \in {"frames", "collect"}
      /\ m.closed => loop' = "frames" /\ status' # "open"
  BY <1>1 DEF IInv, Others, Ends
<1> QED
  BY <1>1, <1>2, <1>3, <1>4, <1>5, <1>6, SameStreams DEF x

LEMMA AcceptKeeps ==
    ASSUME IInv, AcceptStream
    PROVE  IInv' /\ Open(m') = Open(m)
<1> DEFINE x == m'
           next == m.nextStreamToAccept + 2
           found == m.nextStreamToAccept \in Open(m)
<1>1. /\ x = IF ~m.closed /\ found THEN [m EXCEPT !.nextStreamToAccept = next] ELSE m
      /\ accepting' = IF m.closed \/ found THEN "running" ELSE "waiting"
      /\ UNCHANGED <<perspective, flow, opening, loop, status, used>>
  BY DEF AcceptStream
<1>2. /\ m \in Maps /\ Books(m) /\ Sides(m, used) /\ m.nextStreamToAccept \in Nat
      /\ m.closed \in BOOLEAN
      /\ status \notin {"InvalidStreamID", "errMapAccess"}
  BY MapFields DEF IInv, Books, LateFramesHarmless
<1>3. next \in Nat /\ next % 2 = IF IsServer THEN 1 ELSE 0
  <2>1. m.nextStreamToAccept % 2 = IF IsServer THEN 1 ELSE 0
    BY <1>2 DEF Sides
  <2> QED
    BY <1>2, <2>1
<1> HIDE DEF x, next
<1>4. /\ x \in Maps /\ x.streams = m.streams /\ x.openStreams = m.openStreams
      /\ x.nextStream = m.nextStream
      /\ x.highestStreamOpenedByPeer = m.highestStreamOpenedByPeer
      /\ x.closed = m.closed /\ x.numOutgoingStreams = m.numOutgoingStreams
      /\ x.numIncomingStreams = m.numIncomingStreams
      /\ x.nextStreamToAccept = next \/ x = m
  BY <1>1, <1>2, <1>3 DEF Maps
<1>5. Open(x) = Open(m)
  BY <1>4 DEF Open
<1>6. Books(x)
  BY <1>2, <1>4, <1>5, SameBooks
<1>7. Sides(x, used)
  <2>1. x.nextStreamToAccept % 2 = IF IsServer THEN 1 ELSE 0
    BY <1>2, <1>3, <1>4 DEF Sides
  <2> QED
    BY <1>2, <1>4, <1>5, <2>1 DEF Sides
<1>8. AcceptorAwake'
  <2> SUFFICES ASSUME accepting' = "waiting"
               PROVE  ~m'.closed /\ m'.nextStreamToAccept \notin Open(m')
    BY DEF AcceptorAwake, Open
  <2>1. ~m.closed /\ ~found
    BY <1>1
  <2>2. x = m
    BY <1>1, <2>1
  <2> QED
    BY <2>1, <2>2 DEF x
<1>9. /\ accepting' \in Waiter /\ loop' \in {"frames", "collect"}
      /\ m.closed => loop' = "frames" /\ status' # "open"
  BY <1>1 DEF IInv, Others, Ends, Waiter
<1> QED
  BY <1>1, <1>2, <1>4, <1>5, <1>6, <1>7, <1>8, <1>9, SameStreams DEF x

\* A stream of ours is opened; at most one opener stops being woken.
LEMMA OpensOursKeeps ==
    ASSUME IInv, ~m.closed, MayOpen(m), m.nextStream <= LastId, m' = openStreamImpl(m),
           flow' = flow \cup {m.nextStream}, used' = used \cup {m.nextStream},
           opening' \in [Openers -> Waiter],
           NEW o, \A p \in Openers \ {o} : opening'[p] = opening[p],
           o \in Openers => opening'[o] = "running",
           UNCHANGED <<perspective, accepting, loop, status>>
    PROVE  IInv' /\ Open(m') \cap used \subseteq Open(m)
<1>1. Books(m) /\ Sides(m, used) /\ flow = Open(m) /\ Crypto \in Open(m)
  BY DEF IInv, Sides
<1> DEFINE x == m'
<1>2. x = openStreamImpl(m)
  OBVIOUS
<1> HIDE DEF x
<1>3. /\ Books(x) /\ Open(x) = Open(m) \cup {m.nextStream}
      /\ Sides(x, used \cup {m.nextStream})
      /\ m.nextStream \notin used /\ m.nextStream # m.nextStreamToAccept
      /\ x.streams[Crypto] = m.streams[Crypto]
      /\ x.nextStreamToAccept = m.nextStreamToAccept /\ x.closed = m.closed
      /\ IsServer => x.numOutgoingStreams = m.numOutgoingStreams + 1
  BY <1>1, <1>2, OpenImplKeeps
<1>4. AcceptorAwake /\ OpenersAwake
  BY WaitersSplit DEF IInv
<1>5. AcceptorAwake'
  <2>1. Open(m)' = Open(m) \cup {m.nextStream}
    BY <1>3 DEF Open, x
  <2> QED
    BY <1>3, <1>4, <2>1 DEF AcceptorAwake, x
<1>6. OpenersAwake'
  <2> SUFFICES ASSUME NEW p \in Openers, opening'[p] = "waiting"
               PROVE  /\ ~x.closed
                      /\ IsServer => MaxOutgoing - x.numOutgoingStreams <= Cardinality(Woken')
    BY DEF OpenersAwake, IsServer, x
  <2>1. opening[p] = "waiting"
    OBVIOUS
  <2>2. IsServer => MaxOutgoing - m.numOutgoingStreams <= Cardinality(Woken)
    BY <1>4, <2>1 DEF OpenersAwake
  <2>3. IsFiniteSet(Woken) /\ Cardinality(Woken) \in Nat
    BY WokenNumber
  <2>4. Woken' = Woken \ {o}
    BY DEF Woken
  <2>5. Cardinality(Woken') \in Nat /\ Cardinality(Woken') >= Cardinality(Woken) - 1
    <3>1. Cardinality(Woken \ {o}) = IF o \in Woken THEN Cardinality(Woken) - 1 ELSE Cardinality(Woken)
      BY <2>3, FS_RemoveElement, ZenonT(30)
    <3>2. IsFiniteSet(Woken \ {o})
      BY <2>3, FS_RemoveElement
    <3>3. Cardinality(Woken \ {o}) \in Nat
      BY <3>2, FS_CardinalityType
    <3> QED
      BY <2>3, <2>4, <3>1, <3>3
  <2>6. m.numOutgoingStreams \in Nat
    BY <1>1, MapFields DEF Books
  <2> QED
    BY <1>3, <2>2, <2>3, <2>5, <2>6, MapAssumption
<1>7. /\ accepting' \in Waiter /\ loop' \in {"frames", "collect"} /\ perspective \in {"client", "server"}
      /\ ~x.closed => x.streams[Crypto] = "open"
      /\ x.closed => loop' = "frames" /\ status' # "open"
      /\ status' \notin {"InvalidStreamID", "errMapAccess"}
  BY <1>3 DEF IInv, Others, Ends, LateFramesHarmless
<1>8. flow' = Open(x) /\ Sides(x, used')
  BY <1>1, <1>3
<1>9. IInv'
  BY <1>3, <1>5, <1>6, <1>7, <1>8, Carry DEF x
<1> QED
  BY <1>3, <1>9 DEF x

LEMMA OpenStreamKeeps ==
    ASSUME IInv, OpenStream
    PROVE  IInv' /\ Open(m') \cap used \subseteq Open(m)
<1>1. /\ ~m.closed /\ MayOpen(m) /\ m.nextStream <= LastId /\ m' = openStreamImpl(m)
      /\ flow' = flow \cup {m.nextStream} /\ used' = used \cup {m.nextStream}
      /\ UNCHANGED <<perspective, accepting, opening, loop, status>>
  BY DEF OpenStream
<1>2. opening' \in [Openers -> Waiter]
  BY <1>1 DEF IInv, Others
<1>3. PICK o : o \notin Openers
  BY NoSetContainsEverything
<1> QED
  BY <1>1, <1>2, <1>3, OpensOursKeeps

LEMMA OpenStreamSyncKeeps ==
    ASSUME IInv, NEW o \in Openers, OpenStreamSync(o)
    PROVE  IInv' /\ Open(m') \cap used \subseteq Open(m)
<1> DEFINE opens == ~m.closed /\ MayOpen(m)
<1>1. /\ m.nextStream <= LastId /\ opening[o] # "waiting"
      /\ m' = IF opens THEN openStreamImpl(m) ELSE m
      /\ flow' = IF opens THEN flow \cup {m.nextStream} ELSE flow
      /\ used' = used \cup Open(m')
      /\ opening' = [opening EXCEPT ![o] = IF m.closed \/ opens THEN "running" ELSE "waiting"]
      /\ UNCHANGED <<perspective, accepting, loop, status>>
  BY DEF OpenStreamSync, Open
<1>2. Books(m) /\ Sides(m, used) /\ Open(m) \subseteq used /\ opening \in [Openers -> Waiter]
  BY DEF IInv, Sides, Others
<1>3. /\ opening' \in [Openers -> Waiter]
      /\ \A p \in Openers \ {o} : opening'[p] = opening[p]
      /\ opening'[o] = IF m.closed \/ opens THEN "running" ELSE "waiting"
  BY <1>1, <1>2 DEF Waiter
<1>4. CASE opens
  <2>1. m' = openStreamImpl(m) /\ opening'[o] = "running" /\ flow' = flow \cup {m.nextStream}
    BY <1>1, <1>3, <1>4
  <2>2. Open(openStreamImpl(m)) = Open(m) \cup {m.nextStream}
    BY <1>1, <1>2, <1>4, OpenImplKeeps, Zenon
  <2>3. used' = used \cup {m.nextStream}
    BY <1>1, <1>2, <2>1, <2>2
  <2> QED
    BY <1>1, <1>3, <1>4, <2>1, <2>3, OpensOursKeeps
<1>5. CASE ~opens
  <2>1. m' = m /\ flow' = flow /\ used' = used
    BY <1>1, <1>2, <1>5
  <2>2. Books(m') /\ Sides(m', used') /\ flow' = Open(m')
    BY <1>2, <2>1 DEF IInv
  <2>3. AcceptorAwake /\ OpenersAwake
    BY WaitersSplit DEF IInv
  <2>4. AcceptorAwake'
    BY <1>1, <2>1, <2>3 DEF AcceptorAwake
  <2>5. OpenersAwake'
    <3> SUFFICES ASSUME NEW p \in Openers, opening'[p] = "waiting"
                 PROVE  ~m.closed /\ (IsServer => MaxOutgoing - m.numOutgoingStreams <= Cardinality(Woken'))
      BY <1>1, <2>1 DEF OpenersAwake, IsServer
    <3>1. CASE m.closed
      <4>1. opening[p] = "waiting"
        BY <1>3, <3>1
      <4> QED
        BY <4>1, <3>1, <2>3 DEF OpenersAwake
    <3>2. CASE ~m.closed
      <4>1. ~(m.numOutgoingStreams < MaxOutgoing)
        BY <1>5, <3>2 DEF MayOpen
      <4>2. m.numOutgoingStreams \in Nat
        BY <1>2, MapFields DEF Books
      <4>3. Cardinality(Woken') \in Nat
        <5>1. Woken' \in SUBSET Openers
          BY DEF Woken
        <5> QED
          BY <5>1, MapAssumption, FS_Subset, FS_CardinalityType
      <4> QED
        BY <3>2, <4>1, <4>2, <4>3, MapAssumption
    <3> QED
      BY <3>1, <3>2
  <2>6. /\ accepting' \in Waiter /\ loop' \in {"frames", "collect"} /\ perspective \in {"client", "server"}
        /\ ~m'.closed => m'.streams[Crypto] = "open"
        /\ m'.closed => loop' = "frames" /\ status' # "open"
        /\ status' \notin {"InvalidStreamID", "errMapAccess"}
    BY <1>1, <2>1 DEF IInv, Others, Ends, LateFramesHarmless
  <2>7. IInv'
    BY <1>1, <1>3, <2>2, <2>4, <2>5, <2>6, Carry
  <2> QED
    BY <2>1, <2>7
<1> QED
  BY <1>4, <1>5

\* n signals wake n openers, or everyone who waits.
LEMMA SignalWakes ==
    ASSUME opening \in [Openers -> Waiter], NEW n \in Nat, SignalOpeners(n)
    PROVE  /\ opening' \in [Openers -> Waiter]
           /\ \A o \in Openers : opening'[o] = "waiting" =>
                 /\ opening[o] = "waiting"
                 /\ Cardinality(Woken') = Cardinality(Woken) + n
                 /\ n < Cardinality(Openers)
<1>1. PICK w \in SUBSET {o \in Openers : opening[o] = "waiting"} :
        /\ \/ Cardinality(w) = n
           \/ Cardinality(w) < n /\ \A o \in Openers \ w : opening[o] # "waiting"
        /\ opening' = [o \in Openers |-> IF o \in w THEN "woken" ELSE opening[o]]
  BY DEF SignalOpeners
<1>2. /\ opening' \in [Openers -> Waiter]
      /\ \A o \in Openers : opening'[o] = IF o \in w THEN "woken" ELSE opening[o]
  BY <1>1 DEF Waiter
<1> SUFFICES ASSUME NEW o \in Openers, opening'[o] = "waiting"
             PROVE  /\ opening[o] = "waiting"
                    /\ Cardinality(Woken') = Cardinality(Woken) + n
                    /\ n < Cardinality(Openers)
  BY <1>2
<1>3. o \notin w /\ opening[o] = "waiting"
  BY <1>2
<1>4. Cardinality(w) = n
  BY <1>1, <1>3
<1>5. Woken' = Woken \cup w /\ Woken \cap w = {}
  BY <1>1, <1>2 DEF Woken
<1>6. w \in SUBSET Openers /\ IsFiniteSet(Openers) /\ w # Openers
  BY <1>1, <1>3, MapAssumption
<1>7. IsFiniteSet(w) /\ Cardinality(w) <= Cardinality(Openers) /\ Cardinality(w) # Cardinality(Openers)
      /\ Cardinality(Openers) \in Nat
  BY <1>6, FS_Subset, FS_CardinalityType
<1>8. Cardinality(Woken \cup w) = Cardinality(Woken) + Cardinality(w)
  BY <1>5, <1>7, WokenNumber, DisjointUnion
<1> QED
  BY <1>3, <1>4, <1>5, <1>7, <1>8

LEMMA CollectKeeps ==
    ASSUME IInv, garbageCollectStreams
    PROVE  IInv' /\ Open(m') \subseteq Open(m)
<1> DEFINE gone == {id \in Open(m) : m.streams[id] # "open"}
           n == Cardinality(gone)
           x == m'
<1>1. /\ loop = "collect" /\ loop' = "frames" /\ x = RemoveStreams(m, gone)
      /\ flow' = flow \ gone /\ SignalOpeners(n)
      /\ UNCHANGED <<perspective, accepting, status, used>>
  BY DEF garbageCollectStreams
<1>2. /\ Books(m) /\ Sides(m, used) /\ flow = Open(m) /\ Crypto \in Open(m)
      /\ opening \in [Openers -> Waiter]
  BY DEF IInv, Sides, Others
<1>3. ~m.closed /\ Crypto \notin gone /\ gone \in SUBSET Open(m)
  BY <1>1 DEF IInv, Ends
<1> HIDE DEF gone, x
<1>4. /\ Books(x) /\ Open(x) = Open(m) \ gone
      /\ \A id \in Open(m) \ gone : x.streams[id] = m.streams[id]
      /\ x.nextStream = m.nextStream
      /\ x.highestStreamOpenedByPeer = m.highestStreamOpenedByPeer
      /\ x.nextStreamToAccept = m.nextStreamToAccept /\ x.closed = m.closed
      /\ x.numOutgoingStreams = m.numOutgoingStreams - Cardinality(Even(gone))
      /\ Cardinality(Even(gone)) \in Nat /\ IsFiniteSet(gone)
      /\ Cardinality(Even(gone)) <= Cardinality(gone)
  BY <1>1, <1>2, <1>3, RemoveKeeps
<1>5. n \in Nat
  BY <1>4, FS_CardinalityType
<1>6. /\ opening' \in [Openers -> Waiter]
      /\ \A o \in Openers : opening'[o] = "waiting" =>
            opening[o] = "waiting" /\ Cardinality(Woken') = Cardinality(Woken) + n
  <2> HIDE DEF n
  <2> QED
    BY <1>1, <1>2, <1>5, SignalWakes
<1>7. AcceptorAwake /\ OpenersAwake
  BY WaitersSplit DEF IInv
<1>8. AcceptorAwake'
  <2>1. Open(m)' = Open(m) \ gone
    BY <1>4 DEF Open, x
  <2> QED
    BY <1>1, <1>4, <1>7, <2>1 DEF AcceptorAwake, x
<1>9. OpenersAwake'
  <2> SUFFICES ASSUME NEW p \in Openers, opening'[p] = "waiting"
               PROVE  /\ ~x.closed
                      /\ IsServer => MaxOutgoing - x.numOutgoingStreams <= Cardinality(Woken')
    BY <1>1 DEF OpenersAwake, IsServer, x
  <2>1. opening[p] = "waiting" /\ Cardinality(Woken') = Cardinality(Woken) + n
    BY <1>6
  <2>2. IsServer => MaxOutgoing - m.numOutgoingStreams <= Cardinality(Woken)
    BY <1>7, <2>1 DEF OpenersAwake
  <2>3. Cardinality(Woken) \in Nat /\ m.numOutgoingStreams \in Nat
    BY <1>2, WokenNumber, MapFields DEF Books
  <2> QED
    BY <1>3, <1>4, <1>5, <2>1, <2>2, <2>3, MapAssumption
<1>10. Sides(x, used') /\ flow' = Open(x)
  <2>1. Open(x) \subseteq used /\ Crypto \in Open(x) /\ used' = used
    BY <1>1, <1>2, <1>3, <1>4 DEF Sides
  <2>2. Sides(x, used)
    BY <1>2, <1>4, <2>1 DEF Sides
  <2> QED
    BY <1>1, <1>2, <1>4, <2>1, <2>2
<1>11. /\ accepting' \in Waiter /\ loop' \in {"frames", "collect"} /\ perspective \in {"client", "server"}
       /\ ~x.closed => x.streams[Crypto] = "open"
       /\ x.closed => loop' = "frames" /\ status' # "open"
       /\ status' \notin {"InvalidStreamID", "errMapAccess"}
  BY <1>1, <1>2, <1>3, <1>4 DEF IInv, Others, Ends, LateFramesHarmless
<1>12. IInv'
  BY <1>1, <1>4, <1>6, <1>8, <1>9, <1>10, <1>11, Carry DEF x
<1> QED
  BY <1>4, <1>12 DEF x

LEMMA CloseWithErrorKeeps ==
    ASSUME IInv, CloseWithError
    PROVE  IInv' /\ Open(m') = Open(m)
<1> DEFINE table == [id \in DOMAIN m.streams |-> "cancelled"]
           n == Cardinality(Openers)
           x == m'
<1>1. /\ loop = "frames" /\ status # "open"
      /\ x = [m EXCEPT !.closed = TRUE, !.streams = table]
      /\ WakeAcceptor(m) /\ SignalOpeners(n)
      /\ UNCHANGED <<perspective, flow, loop, status, used>>
  BY DEF CloseWithError
<1>2. /\ m \in Maps /\ Books(m) /\ Sides(m, used) /\ flow = Open(m)
      /\ opening \in [Openers -> Waiter]
  BY DEF IInv, Books, Others
<1>3. table \in Tables /\ DOMAIN table = Open(m)
  <2>1. Open(m) \in SUBSET Ids /\ table \in [Open(m) -> Status] /\ DOMAIN table = Open(m)
    BY <1>2, MapStreams DEF Open, Status
  <2> HIDE DEF table
  <2> QED
    BY <2>1, TableOf
<1> HIDE DEF table, x
<1>4. /\ x \in Maps /\ x.streams = table /\ x.openStreams = m.openStreams
      /\ x.nextStream = m.nextStream /\ x.nextStreamToAccept = m.nextStreamToAccept
      /\ x.highestStreamOpenedByPeer = m.highestStreamOpenedByPeer
      /\ x.closed = TRUE /\ x.numOutgoingStreams = m.numOutgoingStreams
      /\ x.numIncomingStreams = m.numIncomingStreams
  BY <1>1, <1>2, <1>3, Zenon DEF Maps
<1>5. Open(x) = Open(m)
  BY <1>3, <1>4 DEF Open
<1>6. Books(x) /\ Sides(x, used')
  <2>1. Books(x)
    BY <1>2, <1>4, <1>5, SameBooks
  <2> QED
    BY <2>1, <1>1, <1>2, <1>4, <1>5 DEF Sides
<1>7. opening' \in [Openers -> Waiter] /\ \A o \in Openers : opening'[o] # "waiting"
  <2>1. n \in Nat
    BY MapAssumption, FS_CardinalityType
  <2>2. /\ opening' \in [Openers -> Waiter]
        /\ \A o \in Openers : opening'[o] = "waiting" => n < Cardinality(Openers)
    <3> HIDE DEF n
    <3> QED
      BY <1>1, <1>2, <2>1, SignalWakes
  <2> QED
    BY <2>1, <2>2
<1>8. accepting' \in Waiter /\ accepting' # "waiting"
  BY <1>1 DEF WakeAcceptor, Waiter, IInv, Others
<1>9. AcceptorAwake' /\ OpenersAwake'
  BY <1>7, <1>8 DEF AcceptorAwake, OpenersAwake
<1>10. /\ loop' \in {"frames", "collect"} /\ perspective \in {"client", "server"}
       /\ x.closed => loop' = "frames" /\ status' # "open"
       /\ status' \notin {"InvalidStreamID", "errMapAccess"}
  BY <1>1 DEF IInv, Others, LateFramesHarmless
<1>11. IInv'
  BY <1>1, <1>2, <1>4, <1>5, <1>6, <1>7, <1>8, <1>9, <1>10, Carry DEF x
<1> QED
  BY <1>5, <1>11 DEF x

LEMMA InitKeeps ==
    ASSUME Init
    PROVE  IInv
<1> DEFINE table == [id \in {Crypto} |-> "open"]
           list == <<Crypto>>
<1>1. /\ perspective \in {"client", "server"} /\ flow = {Crypto} /\ used = {Crypto}
      /\ accepting = "running" /\ opening = [o \in Openers |-> "running"]
      /\ loop = "frames" /\ status = "open"
      /\ m = newStreamsMap(perspective)
  BY DEF Init
<1>2. Crypto \in Ids /\ Crypto = 1
  BY MapAssumption DEF Crypto, Ids
<1>3. table \in Tables /\ DOMAIN table = {Crypto} /\ table[Crypto] = "open"
  <2>1. table \in [{Crypto} -> Status] /\ {Crypto} \in SUBSET Ids /\ DOMAIN table = {Crypto} /\ table[Crypto] = "open"
    BY <1>2 DEF Status
  <2> HIDE DEF table
  <2> QED
    BY <2>1, TableOf
<1>4. list \in Seq(Ids) /\ Listed(list, {Crypto})
  BY <1>2 DEF Listed
<1> HIDE DEF table, list
<1>5. m = [streams |-> table, openStreams |-> list, roundRobinIndex |-> 0,
           nextStream |-> IF IsServer THEN 2 ELSE 3,
           highestStreamOpenedByPeer |-> IF IsServer THEN 1 ELSE 0,
           nextStreamToAccept |-> IF IsServer THEN 3 ELSE 2,
           numOutgoingStreams |-> 0, numIncomingStreams |-> 1, closed |-> FALSE]
  BY <1>1 DEF newStreamsMap, IsServer, table, list
<1>6. /\ m \in Maps /\ m.streams = table /\ m.openStreams = list /\ m.closed = FALSE
      /\ m.nextStream = (IF IsServer THEN 2 ELSE 3)
      /\ m.highestStreamOpenedByPeer = (IF IsServer THEN 1 ELSE 0)
      /\ m.nextStreamToAccept = (IF IsServer THEN 3 ELSE 2)
      /\ m.numOutgoingStreams = 0 /\ m.numIncomingStreams = 1
  BY <1>3, <1>4, <1>5 DEF Maps
<1>7. Open(m) = {Crypto}
  BY <1>3, <1>6 DEF Open
<1>8. Cardinality(Odd({Crypto})) = 1 /\ Cardinality(Even({Crypto})) = 0
  <2>1. Odd({Crypto}) = {Crypto} /\ Even({Crypto}) = {}
    BY <1>2 DEF Odd, Even
  <2> QED
    BY <2>1, FS_EmptySet, FS_Singleton
<1>9. Books(m)
  BY <1>4, <1>6, <1>7, <1>8, MapAssumption DEF Books
<1>10. Sides(m, used)
  <2>1. OpenedByUs(Crypto) <=> ~IsServer
    BY <1>2, SideOf
  <2>2. m.highestStreamOpenedByPeer <= LastId
    BY <1>6, MapAssumption
  <2>3. m.nextStream % 2 = (IF IsServer THEN 0 ELSE 1) /\ m.nextStream > 1
    BY <1>6
  <2>4. /\ m.highestStreamOpenedByPeer % 2 = (IF IsServer THEN 1 ELSE 0)
        /\ m.nextStreamToAccept % 2 = (IF IsServer THEN 1 ELSE 0)
    BY <1>6
  <2>5. IF OpenedByUs(Crypto) THEN Crypto < m.nextStream ELSE Crypto <= m.highestStreamOpenedByPeer
    BY <1>2, <1>6, <2>1
  <2> QED
    BY <1>1, <1>2, <1>7, <2>2, <2>3, <2>4, <2>5 DEF Sides
<1>11. Others /\ Ends /\ LateFramesHarmless /\ flow = Open(m)
  BY <1>1, <1>3, <1>6, <1>7 DEF Others, Ends, LateFramesHarmless, Waiter
<1>12. WaitersNotForgotten
  BY <1>1 DEF WaitersNotForgotten
<1> QED
  BY <1>9, <1>10, <1>11, <1>12 DEF IInv

\* Every step keeps the invariant and brings no stream back.
LEMMA NextKeeps ==
    ASSUME IInv, [Next]_vars
    PROVE  IInv' /\ Open(m') \cap used \subseteq Open(m)
<1>1. CASE Next
  <2>1. ASSUME NEW k \in 0 .. LastId, RoundRobinIterate(k) PROVE IInv' /\ Open(m') \cap used \subseteq Open(m)
    BY <2>1, RoundRobinKeeps
  <2>2. CASE garbageCollectStreams
    BY <2>2, CollectKeeps
  <2>3. CASE CloseWithError
    BY <2>3, CloseWithErrorKeeps
  <2>4. ASSUME NEW id \in Ids, NEW kind \in {"STREAM", "RST_STREAM"}, HandleFrame(id, kind)
        PROVE  IInv' /\ Open(m') \cap used \subseteq Open(m)
    BY <2>4, HandleFrameKeeps
  <2>5. CASE Close
    BY <2>5, CloseKeeps
  <2>6. ASSUME NEW id \in Ids, Finish(id) PROVE IInv' /\ Open(m') \cap used \subseteq Open(m)
    BY <2>6, FinishKeeps
  <2>7. ASSUME NEW id \in Ids, AppGetOrOpenStream(id)
        PROVE  IInv' /\ Open(m') \cap used \subseteq Open(m)
    BY <2>7, AppGetOrOpenKeeps
  <2>8. CASE AcceptStream
    BY <2>8, AcceptKeeps
  <2>9. CASE OpenStream
    BY <2>9, OpenStreamKeeps
  <2>10. ASSUME NEW o \in Openers, OpenStreamSync(o)
         PROVE  IInv' /\ Open(m') \cap used \subseteq Open(m)
    BY <2>10, OpenStreamSyncKeeps
  <2> QED
    BY <1>1, <2>1, <2>2, <2>3, <2>4, <2>5, <2>6, <2>7, <2>8, <2>9, <2>10, Zenon
       DEF Next, SessionLoop
<1>2. CASE UNCHANGED vars
  <2>1. /\ m' = m /\ perspective' = perspective /\ flow' = flow /\ accepting' = accepting
        /\ opening' = opening /\ loop' = loop /\ status' = status /\ used' = used
    BY <1>2 DEF vars
  <2>2. AcceptorAwake' /\ OpenersAwake'
    BY <2>1, WaitersSplit DEF IInv, AcceptorAwake, OpenersAwake, IsServer, Woken, Open
  <2>3. IInv'
    BY <2>1, <2>2, Carry DEF IInv, Others, Ends, LateFramesHarmless
  <2> QED
    BY <2>1, <2>3
<1> QED
  BY <1>1, <1>2

\* The inductive invariant: the books of the map, the sides of the stream IDs, and
\* the waiters.
THEOREM Invariance == Spec => []IInv
<1>1. Init => IInv
  BY InitKeeps
<1>2. IInv /\ [Next]_vars => IInv'
  BY NextKeeps
<1> QED
  BY <1>1, <1>2, PTL DEF Spec

LEMMA BooksAgree ==
    ASSUME IInv
    PROVE  Bookkeeping
<1>1. /\ m \in Maps /\ Listed(m.openStreams, Open(m)) /\ used \subseteq Ids
      /\ m.highestStreamOpenedByPeer <= LastId /\ flow = Open(m)
  BY DEF IInv, Books, Sides
<1>2. Open(m) \in SUBSET Ids /\ m.streams \in [Open(m) -> Status]
  BY <1>1, MapStreams
<1>3. m.highestStreamOpenedByPeer \in 0 .. LastId
  BY <1>1, MapFields, MapAssumption
<1>4. TypeOK
  BY <1>1, <1>2, <1>3, MapFields DEF TypeOK, IInv, Others, Status
<1>5. Len(m.openStreams) = Cardinality(Open(m))
  BY <1>1, ListedLength
<1>6. {m.openStreams[i] : i \in DOMAIN m.openStreams} = Open(m)
  BY <1>1 DEF Listed
<1>7. /\ m.numIncomingStreams = Cardinality({id \in Open(m) : id % 2 = 1})
      /\ m.numOutgoingStreams = Cardinality({id \in Open(m) : id % 2 = 0})
      /\ IsServer => m.numIncomingStreams <= MaxIncoming /\ m.numOutgoingStreams <= MaxOutgoing
  BY DEF IInv, Books, Odd, Even
<1> QED
  BY <1>1, <1>4, <1>5, <1>6, <1>7 DEF Bookkeeping

(***************************************************************************)
(* For any limits and any stream IDs, after any sequence of openings,      *)
(* resets and removals: the list openStreams, the counters of incoming and *)
(* outgoing streams and the flow control manager agree with the streams in *)
(* the map, and the server keeps its limits (putStream, RemoveStream,      *)
(* openRemoteStream, openStreamImpl).                                      *)
(***************************************************************************)
THEOREM BooksOfTheMapAgree == Spec => []Bookkeeping
<1>1. IInv => Bookkeeping
  BY BooksAgree
<1> QED
  BY <1>1, Invariance, PTL

(***************************************************************************)
(* Frames for streams that were collected or never opened by a frame close *)
(* no session: GetOrOpenStream does not return InvalidStreamID for them,   *)
(* and flow control knows every stream that it returns.                    *)
(***************************************************************************)
THEOREM LateFramesAreHarmless == Spec => []LateFramesHarmless
<1>1. IInv => LateFramesHarmless
  BY DEF IInv
<1> QED
  BY <1>1, Invariance, PTL

(***************************************************************************)
(* AcceptStream and OpenStreamSync lose no wake-up, for any number of      *)
(* goroutines in OpenStreamSync and any limit of outgoing streams: the     *)
(* Signal of each RemoveStream and the Broadcasts of openRemoteStream's    *)
(* caller and of CloseWithError are enough.                                *)
(***************************************************************************)
THEOREM WaitersAreNotForgotten == Spec => []WaitersNotForgotten
<1>1. IInv => WaitersNotForgotten
  BY DEF IInv
<1> QED
  BY <1>1, Invariance, PTL

(***************************************************************************)
(* No stream that was collected is opened again, by either side.           *)
(***************************************************************************)
THEOREM StreamsAreNeverReopened == Spec => NeverReopened
<1>1. IInv /\ [Next]_vars => [Open(m') \cap used \subseteq Open(m)]_vars
  BY NextKeeps
<1> QED
  BY <1>1, Invariance, PTL DEF Spec, NeverReopened
=============================================================================
