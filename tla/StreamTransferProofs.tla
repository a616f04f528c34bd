----------------------- MODULE StreamTransferProofs -----------------------
(***************************************************************************)
(* Proofs about one direction of a stream: the gaps of the sorter are      *)
(* exact, Read pops the frame it read, and reassembly implements the       *)
(* reliable stream when the application closes after its data was packed.  *)
(***************************************************************************)
EXTENDS StreamTransfer, WellFoundedInduction, TLAPS

\* The provers of a leaf that names none: a step may need Zenon, or SMT at length.
USE SMTT(10), ZenonT(20), SMTT(30)

GapSet == [Start : Offsets, End : Offsets \cup {MaxByteCount}]

\* Gaps are non-empty, ascending and apart.
Separate(gaps) ==
    /\ \A i \in DOMAIN gaps : gaps[i].Start < gaps[i].End
    /\ \A i, j \in DOMAIN gaps : i < j => gaps[i].End < gaps[j].Start

InGaps(gaps, b) == \E i \in DOMAIN gaps : gaps[i].Start <= b /\ b < gaps[i].End

\* What every frame of the writer respects.
SentFrame(ww, frame) ==
    /\ EndOf(frame) <= ww.writeOffset
    /\ frame.Len = 0 => frame.FinBit
    /\ frame.FinBit => ww.finSent /\ EndOf(frame) = ww.writeOffset
    /\ LateClose /\ frame.FinBit => frame.Len = 0

\* A sorter whose frames and gaps agree with the bytes that arrived.
Sound(s, have) ==
    /\ s = Sorter(s.queuedFrames, s.readPosition, s.gaps)
    /\ s.queuedFrames \in [DOMAIN s.queuedFrames -> Frames]
    /\ s.readPosition \in Offsets /\ 0 .. s.readPosition - 1 \subseteq have
    /\ s.gaps \in Seq(GapSet) /\ Separate(s.gaps)
    /\ \A o \in DOMAIN s.queuedFrames :
          s.queuedFrames[o].Offset = o /\ Bytes(s.queuedFrames[o]) \subseteq have

Exact(s, have) == \A b \in 0 .. MaxByteCount - 1 : b \notin have <=> InGaps(s.gaps, b)

(***************************************************************************)
(* The frames that Read will come by, as offsets: the one at the read      *)
(* position, the one behind each gap, and after each of them the one at    *)
(* its end.  Push may leave others in the queue, whose bytes a longer      *)
(* frame brought again.                                                    *)
(***************************************************************************)
Live(s, have, S) ==
    /\ S \subseteq DOMAIN s.queuedFrames
    /\ \A o \in S : s.queuedFrames[o].Len > 0
    /\ s.readPosition \in have => s.readPosition \in S
    /\ \A i \in DOMAIN s.gaps : s.gaps[i].End \in have => s.gaps[i].End \in S
    /\ \A o \in S : EndOf(s.queuedFrames[o]) \in have => EndOf(s.queuedFrames[o]) \in S

SorterInv ==
    /\ Sound(q, got)
    /\ err = "ok" => Exact(q, got) /\ \E S \in SUBSET DOMAIN q.queuedFrames : Live(q, got, S)

Writers == [written : Offsets, writeOffset : Offsets, finishedWriting : BOOLEAN,
            finSent : BOOLEAN, retransmissionQueue : Seq(Frames)]

WriterInv ==
    /\ w \in Writers
    /\ w.writeOffset <= w.written
    /\ w.finSent => w.finishedWriting /\ w.written = w.writeOffset
    /\ LateClose /\ w.finishedWriting => w.written = w.writeOffset
    /\ wire \subseteq Frames /\ tracked \subseteq wire
    /\ \A frame \in wire : SentFrame(w, frame)
    /\ \A i \in DOMAIN w.retransmissionQueue : SentFrame(w, w.retransmissionQueue[i])

\* What arrived was sent.
ArrivedInv ==
    /\ got \subseteq 0 .. w.writeOffset - 1
    /\ \A o \in DOMAIN q.queuedFrames :
          LET frame == q.queuedFrames[o]
          IN  /\ EndOf(frame) <= w.writeOffset
              /\ frame.Len = 0 => frame.FinBit /\ w.finSent /\ o = w.writeOffset
              /\ LateClose /\ frame.FinBit => w.finSent /\ frame.Len = 0 /\ o = w.writeOffset

Readers == [readOffset : Offsets, finishedReading : BOOLEAN, consumed : BOOLEAN, frame : Frames]

ReaderInv ==
    /\ r \in Readers
    /\ HasHead(q) => r.readOffset \in q.readPosition .. EndOf(HeadFrame(q))
    /\ ~ HasHead(q) => r.readOffset = q.readPosition
    /\ r.consumed => HasHead(q) /\ HeadFrame(q) = r.frame
    /\ r.consumed => r.readOffset = EndOf(r.frame) /\ ~ r.finishedReading
    /\ LateClose /\ r.finishedReading => w.finSent /\ r.readOffset = w.writeOffset

\* The inductive invariant.
IInv == WriterInv /\ SorterInv /\ ArrivedInv /\ ReaderInv
--------------------------------------------------------------------------
\* The least element of a set of naturals, which Min chooses.
LEMMA MinOfNats ==
    ASSUME NEW I \in SUBSET Nat, I # {}
    PROVE  Min(I) \in I /\ \A i \in I : Min(I) <= i
<1>1. IsWellFoundedOn(OpToRel(<, Nat), Nat)
  BY NatLessThanWellFounded
<1>2. PICK x \in I : \A y \in I : ~ (<<y, x>> \in OpToRel(<, Nat))
  BY <1>1, WFMin
<1>3. ASSUME NEW y \in I PROVE x <= y
  <2>1. y < x => <<y, x>> \in OpToRel(<, Nat)
    BY Zenon DEF OpToRel
  <2>2. ~ (y < x)
    BY <1>2, <2>1
  <2> QED
    BY <2>2
<1> QED
  BY <1>3, Zenon DEF Min

\* The greatest element of a bounded set of naturals, which Max chooses.
LEMMA MaxOfNats ==
    ASSUME NEW n \in Nat, NEW I \in SUBSET (0 .. n), I # {}
    PROVE  Max(I) \in I /\ \A i \in I : i <= Max(I)
<1> DEFINE J == {n - i : i \in I}
<1>1. J \in SUBSET Nat /\ J # {}
  <2>1. \A i \in I : n - i \in Nat
    OBVIOUS
  <2> QED
    BY <2>1, Zenon
<1>2. Min(J) \in J /\ \A j \in J : Min(J) <= j
  BY <1>1, MinOfNats, Zenon
<1>3. PICK x \in I : Min(J) = n - x
  BY <1>2, Zenon
<1>4. ASSUME NEW i \in I PROVE i <= x
  <2>1. n - i \in J
    BY Zenon
  <2>2. n - x <= n - i
    BY <1>2, <1>3, <2>1, Zenon
  <2> HIDE DEF J
  <2>3. i \in 0 .. n /\ x \in 0 .. n
    OBVIOUS
  <2> QED
    BY <2>2, <2>3
<1> QED
  BY <1>4, Zenon DEF Max

--------------------------------------------------------------------------
\* FirstGap finds the first gap that is not before the frame.
LEMMA FirstGapIs ==
    ASSUME NEW gaps \in Seq(GapSet), NEW frame \in [Offset : Int, Len : Int, FinBit : BOOLEAN],
           NEW k \in DOMAIN gaps, frame.Offset <= gaps[k].End
    PROVE  /\ FirstGap(gaps, frame) \in DOMAIN gaps
           /\ \/ EndOf(frame) <= gaps[FirstGap(gaps, frame)].Start
              \/ frame.Offset <= gaps[FirstGap(gaps, frame)].End
           /\ \A i \in 1 .. FirstGap(gaps, frame) - 1 :
                 ~ (EndOf(frame) <= gaps[i].Start) /\ ~ (frame.Offset <= gaps[i].End)
<1> DEFINE I == {i \in 1 .. Len(gaps) : EndOf(frame) <= gaps[i].Start \/ frame.Offset <= gaps[i].End}
<1>1. I \in SUBSET Nat /\ k \in I /\ DOMAIN gaps = 1 .. Len(gaps) /\ Len(gaps) \in Nat
  OBVIOUS
<1>2. FirstGap(gaps, frame) = Min(I)
  BY <1>1 DEF FirstGap
<1>3. Min(I) \in I /\ \A i \in I : Min(I) <= i
  BY <1>1, MinOfNats, Zenon
<1>4. \A i \in 1 .. Min(I) - 1 : i \in 1 .. Len(gaps) /\ i \notin I
  BY <1>1, <1>3
<1> QED
  BY <1>1, <1>2, <1>3, <1>4

\* LastGap finds the last gap that starts before the end of the frame.
LEMMA LastGapIs ==
    ASSUME NEW gaps \in Seq(GapSet), NEW frame \in [Offset : Int, Len : Int, FinBit : BOOLEAN],
           NEW k \in DOMAIN gaps, gaps[k].Start < EndOf(frame)
    PROVE  /\ LastGap(gaps, frame) \in k .. Len(gaps)
           /\ gaps[LastGap(gaps, frame)].Start < EndOf(frame)
           /\ \A i \in LastGap(gaps, frame) + 1 .. Len(gaps) : ~ (gaps[i].Start < EndOf(frame))
<1> DEFINE I == {i \in 1 .. Len(gaps) : gaps[i].Start < EndOf(frame)}
           n == Len(gaps)
<1>1. k \in I /\ DOMAIN gaps = 1 .. n /\ n \in Nat /\ I \in SUBSET (0 .. n)
  OBVIOUS
<1>2. LastGap(gaps, frame) = Max(I)
  BY <1>1 DEF LastGap
<1> HIDE DEF n
<1>3. Max(I) \in I /\ \A i \in I : i <= Max(I)
  BY <1>1, MaxOfNats, Zenon
<1> USE DEF n
<1>4. \A i \in Max(I) + 1 .. Len(gaps) : i \in 1 .. Len(gaps) /\ i \notin I
  BY <1>1, <1>3
<1> QED
  BY <1>1, <1>2, <1>3, <1>4

\* The ends of a gap are naturals.
LEMMA GapNat == \A g \in GapSet : g.Start \in Nat /\ g.End \in Nat
BY TransferAssumption DEF GapSet, Offsets

\* Two lists of gaps, the second behind the first, make one.
LEMMA CatSeparate ==
    ASSUME NEW s \in Seq(GapSet), NEW t \in Seq(GapSet), Separate(s), Separate(t),
           \A i \in DOMAIN s, j \in DOMAIN t : s[i].End < t[j].Start
    PROVE  /\ s \o t \in Seq(GapSet)
           /\ Separate(s \o t)
           /\ \A b \in Int : InGaps(s \o t, b) <=> InGaps(s, b) \/ InGaps(t, b)
           /\ \A k \in DOMAIN (s \o t) :
                 \/ \E i \in DOMAIN s : (s \o t)[k] = s[i]
                 \/ \E i \in DOMAIN t : (s \o t)[k] = t[i]
<1> DEFINE u == s \o t
           m == Len(s)
           n == Len(t)
<1>1. /\ m \in Nat /\ n \in Nat /\ DOMAIN s = 1 .. m /\ DOMAIN t = 1 .. n
      /\ u \in Seq(GapSet) /\ DOMAIN u = 1 .. m + n
      /\ \A i \in 1 .. m : u[i] = s[i]
      /\ \A i \in m + 1 .. m + n : u[i] = t[i - m]
  OBVIOUS
<1>2. \A i \in 1 .. n : u[m + i] = t[i] /\ m + i \in 1 .. m + n
  BY <1>1
<1>3. \A i \in m + 1 .. m + n : i - m \in 1 .. n
  BY <1>1
<1>4. \A k \in 1 .. m + n : k \in 1 .. m \/ k \in m + 1 .. m + n
  BY <1>1
<1>5. \A k \in 1 .. m : k \in 1 .. m + n
  BY <1>1
<1> HIDE DEF u, m, n
<1>6. \A b \in Int : InGaps(u, b) <=> InGaps(s, b) \/ InGaps(t, b)
  <2> TAKE b \in Int
  <2>1. InGaps(s, b) => InGaps(u, b)
    BY <1>1, <1>5 DEF InGaps
  <2>2. InGaps(t, b) => InGaps(u, b)
    BY <1>1, <1>2, Zenon DEF InGaps
  <2>3. InGaps(u, b) => InGaps(s, b) \/ InGaps(t, b)
    BY <1>1, <1>3, <1>4, Zenon DEF InGaps
  <2> QED
    BY <2>1, <2>2, <2>3
<1>7. \A i \in DOMAIN u : u[i].Start < u[i].End
  BY <1>1, <1>3, <1>4, Zenon DEF Separate
<1>8. ASSUME NEW i \in DOMAIN u, NEW j \in DOMAIN u, i < j PROVE u[i].End < u[j].Start
  <2>1. CASE i \in 1 .. m /\ j \in 1 .. m
    BY <1>1, <1>8, <2>1 DEF Separate
  <2>2. CASE i \in 1 .. m /\ j \in m + 1 .. m + n
    BY <1>1, <1>3, <2>2
  <2>3. CASE i \in m + 1 .. m + n /\ j \in m + 1 .. m + n
    <3>1. i - m \in 1 .. n /\ j - m \in 1 .. n /\ i - m < j - m
      BY <1>1, <1>3, <1>8, <2>3
    <3> QED
      BY <1>1, <2>3, <3>1 DEF Separate
  <2> QED
    BY <1>1, <1>4, <1>8, <2>1, <2>2, <2>3
<1>9. \A k \in DOMAIN u : (\E i \in DOMAIN s : u[k] = s[i]) \/ (\E i \in DOMAIN t : u[k] = t[i])
  BY <1>1, <1>3, <1>4, Zenon
<1> QED
  BY <1>1, <1>6, <1>7, <1>8, <1>9, Zenon DEF Separate, u

\* A part of a list of gaps.
LEMMA SubSeparate ==
    ASSUME NEW gaps \in Seq(GapSet), Separate(gaps),
           NEW m \in Nat \ {0}, NEW n \in Nat, n <= Len(gaps)
    PROVE  /\ SubSeq(gaps, m, n) \in Seq(GapSet)
           /\ Separate(SubSeq(gaps, m, n))
           /\ \A k \in DOMAIN SubSeq(gaps, m, n) :
                 k + m - 1 \in m .. n /\ SubSeq(gaps, m, n)[k] = gaps[k + m - 1]
           /\ \A b \in Int : InGaps(SubSeq(gaps, m, n), b) <=>
                 \E i \in m .. n : gaps[i].Start <= b /\ b < gaps[i].End
<1> DEFINE u == SubSeq(gaps, m, n)
           d == IF m <= n THEN n - m + 1 ELSE 0
<1>1. /\ u \in Seq(GapSet) /\ d \in Nat /\ DOMAIN u = 1 .. d
      /\ \A k \in 1 .. d : u[k] = gaps[k + m - 1] /\ k + m - 1 \in m .. n /\ k + m - 1 \in DOMAIN gaps
  OBVIOUS
<1>2. \A i \in m .. n : i - m + 1 \in 1 .. d /\ u[i - m + 1] = gaps[i]
  OBVIOUS
<1> HIDE DEF u, d
<1>3. Separate(u)
  <2>1. \A k \in DOMAIN u : u[k].Start < u[k].End
    BY <1>1 DEF Separate
  <2>2. ASSUME NEW i \in DOMAIN u, NEW j \in DOMAIN u, i < j PROVE u[i].End < u[j].Start
    <3>1. i + m - 1 \in DOMAIN gaps /\ j + m - 1 \in DOMAIN gaps /\ i + m - 1 < j + m - 1
      BY <1>1, <2>2
    <3> QED
      BY <1>1, <3>1 DEF Separate
  <2> QED
    BY <2>1, <2>2 DEF Separate
<1>4. \A b \in Int : InGaps(u, b) <=> \E i \in m .. n : gaps[i].Start <= b /\ b < gaps[i].End
  BY <1>1, <1>2, Zenon DEF InGaps
<1> QED
  BY <1>1, <1>3, <1>4 DEF u

(***************************************************************************)
(* A frame that starts in one gap and ends in a later one, or in the same, *)
(* takes its bytes out of the gaps and leaves the others.  The new gaps    *)
(* end where the frame starts or where a gap it did not close ends.        *)
(***************************************************************************)
LEMMA FillGapsFills ==
    ASSUME NEW gaps \in Seq(GapSet), Separate(gaps),
           NEW first \in DOMAIN gaps, NEW last \in first .. Len(gaps),
           NEW frame \in Frames, frame.Len > 0, EndOf(frame) \in Offsets,
           gaps[first].Start <= frame.Offset, frame.Offset <= gaps[first].End,
           gaps[last].Start <= EndOf(frame), EndOf(frame) <= gaps[last].End
    PROVE  /\ FillGaps(gaps, first, last, frame) \in Seq(GapSet)
           /\ Separate(FillGaps(gaps, first, last, frame))
           /\ \A b \in Int : InGaps(FillGaps(gaps, first, last, frame), b) <=>
                 InGaps(gaps, b) /\ ~ (frame.Offset <= b /\ b < EndOf(frame))
           /\ \A k \in DOMAIN FillGaps(gaps, first, last, frame) :
                 \/ FillGaps(gaps, first, last, frame)[k].End = frame.Offset
                 \/ \E i \in DOMAIN gaps :
                       /\ i \notin first .. last - 1
                       /\ FillGaps(gaps, first, last, frame)[k].End = gaps[i].End
<1> DEFINE lo == frame.Offset
           hi == EndOf(frame)
           n == Len(gaps)
           gf == gaps[first]
           gl == gaps[last]
           A == SubSeq(gaps, 1, first - 1)
           B == IF lo > gf.Start THEN <<Gap(gf.Start, lo)>> ELSE <<>>
           C == IF hi < gl.End THEN <<Gap(hi, gl.End)>> ELSE <<>>
           D == SubSeq(gaps, last + 1, n)
           AB == A \o B
           ABC == AB \o C
           All == ABC \o D
<1>1. /\ n \in Nat /\ DOMAIN gaps = 1 .. n /\ first \in 1 .. n /\ last \in 1 .. n /\ first <= last
      /\ lo \in Nat /\ hi \in Nat /\ lo < hi /\ lo \in Offsets /\ hi \in Offsets
      /\ gf \in GapSet /\ gl \in GapSet
      /\ gf.Start \in Nat /\ gf.End \in Nat /\ gl.Start \in Nat /\ gl.End \in Nat
  <2>1. n \in Nat /\ DOMAIN gaps = 1 .. n /\ first \in 1 .. n /\ last \in 1 .. n /\ first <= last
    OBVIOUS
  <2>2. gf \in GapSet /\ gl \in GapSet
    BY <2>1
  <2>3. lo \in Nat /\ hi \in Nat /\ lo < hi /\ lo \in Offsets /\ hi \in Offsets
    BY TransferAssumption DEF Frames, Offsets, EndOf
  <2> QED
    BY <2>1, <2>2, <2>3, GapNat
<1>2. \A i \in 1 .. n : gaps[i] \in GapSet /\ gaps[i].Start \in Nat /\ gaps[i].End \in Nat
  BY <1>1, GapNat
<1>3. gf.Start <= lo /\ lo <= gf.End /\ gl.Start <= hi /\ hi <= gl.End
  OBVIOUS
<1>4. /\ \A i \in 1 .. n : gaps[i].Start < gaps[i].End
      /\ \A i, j \in 1 .. n : i < j => gaps[i].End < gaps[j].Start
  BY <1>1, Zenon DEF Separate
<1>5. FillGaps(gaps, first, last, frame) = All
  BY DEF FillGaps
<1>6. /\ A \in Seq(GapSet) /\ Separate(A)
      /\ \A k \in DOMAIN A : k + 1 - 1 \in 1 .. first - 1 /\ A[k] = gaps[k + 1 - 1]
      /\ \A b \in Int : InGaps(A, b) <=>
            \E i \in 1 .. first - 1 : gaps[i].Start <= b /\ b < gaps[i].End
  <2> HIDE DEF A
  <2>1. 1 \in Nat \ {0} /\ first - 1 \in Nat /\ first - 1 <= Len(gaps)
    BY <1>1
  <2> QED
    BY <2>1, SubSeparate, Zenon DEF A
<1>7. /\ D \in Seq(GapSet) /\ Separate(D)
      /\ \A k \in DOMAIN D : k + (last + 1) - 1 \in last + 1 .. n /\ D[k] = gaps[k + (last + 1) - 1]
      /\ \A b \in Int : InGaps(D, b) <=>
            \E i \in last + 1 .. n : gaps[i].Start <= b /\ b < gaps[i].End
  <2> HIDE DEF D
  <2>1. last + 1 \in Nat \ {0} /\ n \in Nat /\ n <= Len(gaps)
    BY <1>1
  <2> HIDE DEF n
  <2> QED
    BY <2>1, SubSeparate, Zenon DEF D
<1>8. /\ B \in Seq(GapSet) /\ Separate(B)
      /\ \A k \in DOMAIN B : lo > gf.Start /\ B[k] = Gap(gf.Start, lo)
      /\ \A b \in Int : InGaps(B, b) <=> gf.Start <= b /\ b < lo
  <2>1. CASE lo > gf.Start
    <3>1. B = <<Gap(gf.Start, lo)>> /\ Gap(gf.Start, lo) \in GapSet
      BY <1>1, <2>1 DEF Gap, GapSet
    <3>2. DOMAIN B = {1} /\ B[1] = Gap(gf.Start, lo) /\ B \in Seq(GapSet)
      BY <3>1
    <3>3. B[1].Start = gf.Start /\ B[1].End = lo
      BY <3>2 DEF Gap
    <3> HIDE DEF B
    <3> QED
      BY <1>1, <2>1, <3>2, <3>3 DEF Separate, InGaps
  <2>2. CASE ~ (lo > gf.Start)
    <3>1. B = << >> /\ B \in Seq(GapSet) /\ DOMAIN B = {}
      BY <2>2
    <3> HIDE DEF B
    <3> QED
      BY <1>1, <1>3, <2>2, <3>1 DEF Separate, InGaps
  <2> QED
    BY <2>1, <2>2
<1>9. /\ C \in Seq(GapSet) /\ Separate(C)
      /\ \A k \in DOMAIN C : hi < gl.End /\ C[k] = Gap(hi, gl.End)
      /\ \A b \in Int : InGaps(C, b) <=> hi <= b /\ b < gl.End
  <2>1. CASE hi < gl.End
    <3>1. C = <<Gap(hi, gl.End)>> /\ Gap(hi, gl.End) \in GapSet
      BY <1>1, <2>1 DEF Gap, GapSet
    <3>2. DOMAIN C = {1} /\ C[1] = Gap(hi, gl.End) /\ C \in Seq(GapSet)
      BY <3>1
    <3>3. C[1].Start = hi /\ C[1].End = gl.End
      BY <3>2 DEF Gap
    <3> HIDE DEF C
    <3> QED
      BY <1>1, <2>1, <3>2, <3>3 DEF Separate, InGaps
  <2>2. CASE ~ (hi < gl.End)
    <3>1. C = << >> /\ C \in Seq(GapSet) /\ DOMAIN C = {}
      BY <2>2
    <3> HIDE DEF C
    <3> QED
      BY <1>1, <1>3, <2>2, <3>1 DEF Separate, InGaps
  <2> QED
    BY <2>1, <2>2
<1>10. /\ \A k \in DOMAIN A : \E i \in 1 .. first - 1 : A[k] = gaps[i]
       /\ \A k \in DOMAIN D : \E i \in last + 1 .. n : D[k] = gaps[i]
  BY <1>6, <1>7
<1>11. /\ \A k \in DOMAIN B : B[k].Start = gf.Start /\ B[k].End = lo /\ lo > gf.Start
       /\ \A k \in DOMAIN C : C[k].Start = hi /\ C[k].End = gl.End /\ hi < gl.End
  BY <1>8, <1>9 DEF Gap
<1>12. first < last => gf.End < gl.Start
  BY <1>1, <1>4
<1>13. \A i \in 1 .. first - 1 : i \in 1 .. n /\ gaps[i].End < gf.Start /\ gaps[i].Start < gaps[i].End
  BY <1>1, <1>4
<1>14. \A i \in last + 1 .. n : i \in 1 .. n /\ gl.End < gaps[i].Start /\ gaps[i].Start < gaps[i].End
  BY <1>1, <1>4
<1> HIDE DEF A, B, C, D, lo, hi, gf, gl, n
<1>16. \A i \in DOMAIN A, j \in DOMAIN B : A[i].End < B[j].Start
  BY <1>10, <1>11, <1>13
<1>17. /\ AB \in Seq(GapSet) /\ Separate(AB)
       /\ \A b \in Int : InGaps(AB, b) <=> InGaps(A, b) \/ InGaps(B, b)
       /\ \A k \in DOMAIN AB : (\E i \in DOMAIN A : AB[k] = A[i]) \/ (\E i \in DOMAIN B : AB[k] = B[i])
  BY <1>6, <1>8, <1>16, CatSeparate, Zenon
<1>18. \A k \in DOMAIN AB : AB[k].End <= lo /\ (AB[k].End = lo \/ \E i \in 1 .. first - 1 : AB[k].End = gaps[i].End)
  <2> TAKE k \in DOMAIN AB
  <2>1. CASE \E i \in DOMAIN A : AB[k] = A[i]
    <3>1. PICK i \in 1 .. first - 1 : AB[k] = gaps[i]
      BY <1>10, <2>1
    <3>2. gaps[i].End < gf.Start /\ gaps[i].End \in Nat
      BY <1>2, <1>13, <3>1
    <3> QED
      BY <1>1, <1>3, <3>1, <3>2
  <2>2. CASE \E i \in DOMAIN B : AB[k] = B[i]
    BY <1>1, <1>11, <2>2
  <2> QED
    BY <1>17, <2>1, <2>2
<1> HIDE DEF AB
<1>19. \A i \in DOMAIN AB, j \in DOMAIN C : AB[i].End < C[j].Start
  <2> TAKE i \in DOMAIN AB, j \in DOMAIN C
  <2>1. C[j].Start = hi
    BY <1>11
  <2>2. AB[i].End <= lo /\ AB[i].End \in Nat
    BY <1>1, <1>2, <1>13, <1>18, Zenon
  <2> QED
    BY <1>1, <2>1, <2>2
<1>20. /\ ABC \in Seq(GapSet) /\ Separate(ABC)
       /\ \A b \in Int : InGaps(ABC, b) <=> InGaps(AB, b) \/ InGaps(C, b)
       /\ \A k \in DOMAIN ABC : (\E i \in DOMAIN AB : ABC[k] = AB[i]) \/ (\E i \in DOMAIN C : ABC[k] = C[i])
  BY <1>9, <1>17, <1>19, CatSeparate, Zenon
<1> HIDE DEF ABC
<1>21. \A i \in DOMAIN ABC, j \in DOMAIN D : ABC[i].End < D[j].Start
  <2> TAKE i \in DOMAIN ABC, j \in DOMAIN D
  <2>1. PICK d \in last + 1 .. n : D[j] = gaps[d]
    BY <1>10
  <2>2. gl.End < D[j].Start /\ D[j].Start \in Nat
    BY <1>2, <1>14, <2>1
  <2>3. ABC[i].End <= gl.End /\ ABC[i].End \in Nat
    <3>1. CASE \E k \in DOMAIN C : ABC[i] = C[k]
      BY <1>1, <1>11, <3>1
    <3>2. CASE \E k \in DOMAIN AB : ABC[i] = AB[k]
      <4>1. ABC[i].End <= lo /\ ABC[i].End \in Nat
        BY <1>1, <1>2, <1>13, <1>18, <3>2, Zenon
      <4> QED
        BY <1>1, <1>3, <4>1
    <3> QED
      BY <1>20, <3>1, <3>2
  <2> QED
    BY <1>1, <2>2, <2>3
<1>22. /\ All \in Seq(GapSet) /\ Separate(All)
       /\ \A b \in Int : InGaps(All, b) <=> InGaps(ABC, b) \/ InGaps(D, b)
       /\ \A k \in DOMAIN All : (\E i \in DOMAIN ABC : All[k] = ABC[i]) \/ (\E i \in DOMAIN D : All[k] = D[i])
  BY <1>7, <1>20, <1>21, CatSeparate
<1> HIDE DEF All
<1>23. ASSUME NEW k \in DOMAIN All
       PROVE  All[k].End = lo \/ \E i \in DOMAIN gaps : i \notin first .. last - 1 /\ All[k].End = gaps[i].End
  <2>1. CASE \E i \in DOMAIN D : All[k] = D[i]
    <3>1. PICK d \in last + 1 .. n : All[k] = gaps[d]
      BY <1>10, <2>1
    <3> QED
      BY <1>1, <3>1
  <2>2. CASE \E i \in DOMAIN C : All[k] = C[i]
    <3>1. All[k].End = gaps[last].End /\ last \notin first .. last - 1 /\ last \in DOMAIN gaps
      BY <1>1, <1>11, <2>2 DEF gl
    <3> QED
      BY <3>1
  <2>3. CASE \E i \in DOMAIN AB : All[k] = AB[i]
    <3>1. All[k].End = lo \/ \E i \in 1 .. first - 1 : All[k].End = gaps[i].End
      BY <1>18, <2>3
    <3>2. \A i \in 1 .. first - 1 : i \in DOMAIN gaps /\ i \notin first .. last - 1
      BY <1>1
    <3> QED
      BY <3>1, <3>2
  <2>4. \/ \E i \in DOMAIN D : All[k] = D[i]
        \/ \E i \in DOMAIN C : All[k] = C[i]
        \/ \E i \in DOMAIN AB : All[k] = AB[i]
    <3>1. CASE \E i \in DOMAIN ABC : All[k] = ABC[i]
      <4>1. PICK i \in DOMAIN ABC : All[k] = ABC[i]
        BY <3>1
      <4>2. (\E j \in DOMAIN AB : ABC[i] = AB[j]) \/ (\E j \in DOMAIN C : ABC[i] = C[j])
        BY <1>20
      <4> QED
        BY <4>1, <4>2, Zenon
    <3> QED
      BY <1>22, <3>1
  <2> QED
    BY <2>1, <2>2, <2>3, <2>4, Zenon
<1>24. ASSUME NEW b \in Int PROVE InGaps(All, b) <=> InGaps(gaps, b) /\ ~ (lo <= b /\ b < hi)
  <2>1. InGaps(All, b) <=>
           \/ \E i \in 1 .. first - 1 : gaps[i].Start <= b /\ b < gaps[i].End
           \/ gf.Start <= b /\ b < lo
           \/ hi <= b /\ b < gl.End
           \/ \E i \in last + 1 .. n : gaps[i].Start <= b /\ b < gaps[i].End
    BY <1>6, <1>7, <1>8, <1>9, <1>17, <1>20, <1>22
  <2>2. ASSUME InGaps(All, b) PROVE InGaps(gaps, b) /\ ~ (lo <= b /\ b < hi)
    <3>1. CASE \E i \in 1 .. first - 1 : gaps[i].Start <= b /\ b < gaps[i].End
      <4>1. PICK i \in 1 .. first - 1 : gaps[i].Start <= b /\ b < gaps[i].End
        BY <3>1
      <4>2. i \in DOMAIN gaps /\ gaps[i].End < gf.Start /\ gaps[i].End \in Nat
        BY <1>1, <1>2, <1>13, <4>1
      <4>3. InGaps(gaps, b)
        BY <4>1, <4>2 DEF InGaps
      <4> QED
        BY <1>1, <1>3, <4>1, <4>2, <4>3
    <3>2. CASE gf.Start <= b /\ b < lo
      BY <1>1, <1>3, <3>2 DEF InGaps, gf
    <3>3. CASE hi <= b /\ b < gl.End
      BY <1>1, <1>3, <3>3 DEF InGaps, gl
    <3>4. CASE \E i \in last + 1 .. n : gaps[i].Start <= b /\ b < gaps[i].End
      <4>1. PICK i \in last + 1 .. n : gaps[i].Start <= b /\ b < gaps[i].End
        BY <3>4
      <4>2. i \in DOMAIN gaps /\ gl.End < gaps[i].Start /\ gaps[i].Start \in Nat
        BY <1>1, <1>2, <1>14, <4>1
      <4>3. InGaps(gaps, b)
        BY <4>1, <4>2 DEF InGaps
      <4> QED
        BY <1>1, <1>3, <4>1, <4>2, <4>3
    <3> QED
      BY <2>1, <2>2, <3>1, <3>2, <3>3, <3>4
  <2>3. ASSUME InGaps(gaps, b), ~ (lo <= b /\ b < hi) PROVE InGaps(All, b)
    <3>1. PICK i \in 1 .. n : gaps[i].Start <= b /\ b < gaps[i].End
      BY <1>1, <2>3 DEF InGaps
    <3>2. CASE i \in 1 .. first - 1
      BY <2>1, <3>1, <3>2
    <3>3. CASE i \in last + 1 .. n
      BY <2>1, <3>1, <3>3
    <3>4. CASE i = first /\ b < lo
      BY <2>1, <3>1, <3>4 DEF gf
    <3>5. CASE i = last /\ hi <= b
      BY <2>1, <3>1, <3>5 DEF gl
    <3>6. first < i => gf.End < gaps[i].Start
      BY <1>1, <1>4, <3>1 DEF gf
    <3>7. i < last => gaps[i].End < gl.Start
      BY <1>1, <1>4, <3>1 DEF gl
    <3>8. gaps[i].Start \in Nat /\ gaps[i].End \in Nat
      BY <1>2, <3>1
    <3>9. CASE b < lo
      <4>1. ~ (first < i)
        BY <1>1, <1>3, <3>1, <3>6, <3>8, <3>9
      <4> QED
        BY <1>1, <3>1, <3>2, <3>4, <3>9, <4>1
    <3>10. CASE hi <= b
      <4>1. ~ (i < last)
        BY <1>1, <1>3, <3>1, <3>7, <3>8, <3>10
      <4> QED
        BY <1>1, <3>1, <3>3, <3>5, <3>10, <4>1
    <3> QED
      BY <1>1, <2>3, <3>9, <3>10
  <2> QED
    BY <2>2, <2>3
<1> QED
  BY <1>5, <1>22, <1>23, <1>24 DEF lo, hi

\* Cutting bytes off the front keeps the end.
LEMMA CutFrontIs ==
    ASSUME NEW frame \in [Offset : Int, Len : Int, FinBit : BOOLEAN], NEW n \in Int
    PROVE  /\ CutFront(frame, n) \in [Offset : Int, Len : Int, FinBit : BOOLEAN]
           /\ CutFront(frame, n).Offset = frame.Offset + n
           /\ CutFront(frame, n).Len = frame.Len - n
           /\ CutFront(frame, n).FinBit = frame.FinBit
           /\ EndOf(CutFront(frame, n)) = EndOf(frame)
<1>1. CutFront(frame, n) = [Offset |-> frame.Offset + n, Len |-> frame.Len - n, FinBit |-> frame.FinBit]
  BY DEF CutFront, Frame
<1>2. frame.Offset \in Int /\ frame.Len \in Int
  OBVIOUS
<1> QED
  BY <1>1, <1>2 DEF EndOf

(***************************************************************************)
(* What Insert and Push make of a sorter and a frame: it stays sound and   *)
(* its gaps exact, its frames are old ones or part of the new frame, its   *)
(* head stays, and unless there are too many gaps Read finds a frame       *)
(* wherever one is needed.                                                 *)
(***************************************************************************)
Pushed(s, frame, have2, res) ==
    /\ res.err \in {"ok", "DuplicateStreamData", "TooManyGapsInReceivedStreamData"}
    /\ Sound(res.sorter, have2) /\ Exact(res.sorter, have2)
    /\ res.sorter.readPosition = s.readPosition
    /\ \A o \in DOMAIN res.sorter.queuedFrames :
          \/ /\ o \in DOMAIN s.queuedFrames
             /\ res.sorter.queuedFrames[o] = s.queuedFrames[o]
          \/ /\ frame.Offset <= o
             /\ EndOf(res.sorter.queuedFrames[o]) <= EndOf(frame)
             /\ res.sorter.queuedFrames[o].Len = 0 => frame.Len = 0
             /\ res.sorter.queuedFrames[o].FinBit = frame.FinBit
    /\ s.readPosition \in DOMAIN s.queuedFrames =>
          /\ s.readPosition \in DOMAIN res.sorter.queuedFrames
          /\ res.sorter.queuedFrames[s.readPosition] = s.queuedFrames[s.readPosition]
    /\ res.err # "TooManyGapsInReceivedStreamData" =>
          \E S2 \in SUBSET DOMAIN res.sorter.queuedFrames : Live(res.sorter, have2, S2)

\* Insert, for a frame that brings a byte and starts at the end of no gap.
LEMMA InsertKeeps ==
    ASSUME NEW s, NEW have \in SUBSET (0 .. StreamLength - 1), Sound(s, have), Exact(s, have),
           NEW S, Live(s, have, S),
           NEW frame \in Frames, frame.Len > 0, EndOf(frame) \in Offsets,
           \A i \in DOMAIN s.gaps : s.gaps[i].End # frame.Offset,
           \A o \in DOMAIN s.queuedFrames : s.queuedFrames[o].Len = 0 => EndOf(frame) <= o
    PROVE  Pushed(s, frame, have \cup Bytes(frame), Insert(s, frame))
<1> DEFINE res == Insert(s, frame)
           have2 == have \cup Bytes(frame)
           lo == frame.Offset
           hi == EndOf(frame)
           gaps == s.gaps
           n == Len(gaps)
           queued == s.queuedFrames
           pos == s.readPosition
           first == FirstGap(gaps, frame)
           last == LastGap(gaps, frame)
           cut == EndInGap(StartInGap(frame, gaps[first]), gaps[last])
           gaps2 == FillGaps(gaps, first, last, cut)
           kept == [o \in DOMAIN queued \ Covered(gaps, first, last) |-> queued[o]]
<1>1. /\ gaps \in Seq(GapSet) /\ n \in Nat /\ DOMAIN gaps = 1 .. n /\ Separate(gaps)
      /\ queued \in [DOMAIN queued -> Frames]
      /\ pos \in Nat /\ 0 .. pos - 1 \subseteq have /\ pos \in Offsets
      /\ \A o \in DOMAIN queued : queued[o].Offset = o /\ Bytes(queued[o]) \subseteq have
  BY DEF Sound, Offsets
<1>2. lo \in Nat /\ hi \in Nat /\ lo < hi /\ hi <= StreamLength /\ frame.Len \in Nat
  BY TransferAssumption DEF Frames, Offsets, EndOf
<1>3. frame \in [Offset : Int, Len : Int, FinBit : BOOLEAN]
  BY TransferAssumption DEF Frames, Offsets
<1>4. \A i \in 1 .. n : gaps[i] \in GapSet /\ gaps[i].Start \in Nat /\ gaps[i].End \in Nat
  BY <1>1, GapNat
<1>5. /\ \A i \in 1 .. n : gaps[i].Start < gaps[i].End
      /\ \A i, j \in 1 .. n : i < j => gaps[i].End < gaps[j].Start
  BY <1>1 DEF Separate
<1>6. \A b \in Bytes(frame) : b \in Nat /\ lo <= b /\ b < hi /\ b \in 0 .. MaxByteCount - 1
  BY <1>2, TransferAssumption DEF Bytes
<1>7. \A b \in Nat : lo <= b /\ b < hi => b \in Bytes(frame)
  BY <1>2 DEF Bytes
<1>8. PICK k \in 1 .. n : lo <= gaps[k].End
  <2>1. MaxByteCount - 1 \in 0 .. MaxByteCount - 1 /\ MaxByteCount - 1 \notin have
    BY TransferAssumption
  <2>2. PICK k \in 1 .. n : MaxByteCount - 1 < gaps[k].End
    BY <1>1, <2>1 DEF Exact, InGaps
  <2> QED
    BY <1>2, <1>4, <2>2, TransferAssumption
<1> HIDE DEF lo, hi, n, queued, pos
<1>9. /\ first \in 1 .. n
      /\ hi <= gaps[first].Start \/ lo <= gaps[first].End
      /\ \A i \in 1 .. first - 1 : ~ (hi <= gaps[i].Start) /\ ~ (lo <= gaps[i].End)
  BY <1>1, <1>3, <1>8, FirstGapIs DEF lo, hi
<1> HIDE DEF first
<1>10. \A i \in 1 .. first - 1 : i \in 1 .. n /\ gaps[i].End < lo
  BY <1>1, <1>2, <1>4, <1>9
<1>11. CASE hi <= gaps[first].Start
  <2>1. res = [sorter |-> s, err |-> "DuplicateStreamData"]
    BY <1>11 DEF Insert, first, hi
  <2>2. ASSUME NEW b \in Bytes(frame) PROVE b \in have
    <3>1. SUFFICES ASSUME b \notin have PROVE FALSE
      OBVIOUS
    <3>2. PICK i \in 1 .. n : gaps[i].Start <= b /\ b < gaps[i].End
      BY <1>1, <1>6, <3>1 DEF Exact, InGaps
    <3>3. ~ (i \in 1 .. first - 1)
      BY <1>2, <1>4, <1>6, <1>10, <3>2
    <3>4. gaps[first].Start <= gaps[i].Start
      <4>1. first = i \/ first < i
        BY <1>1, <1>9, <3>3
      <4> QED
        BY <1>4, <1>5, <1>9, <3>2, <4>1
    <3> QED
      BY <1>2, <1>4, <1>6, <1>9, <1>11, <3>2, <3>4
  <2>3. have2 = have
    BY <2>2
  <2>4. res.sorter = s /\ res.err = "DuplicateStreamData"
    BY <2>1
  <2> HIDE DEF res, have2
  <2>5. S \in SUBSET DOMAIN s.queuedFrames
    BY DEF Live
  <2> QED
    BY <2>3, <2>4, <2>5 DEF res, have2, Pushed
<1>12. CASE ~ (hi <= gaps[first].Start)
  <2>1. lo < gaps[first].End /\ gaps[first].Start < hi
    BY <1>1, <1>2, <1>4, <1>9, <1>12 DEF lo
  <2>2. /\ last \in first .. n /\ gaps[last].Start < hi
        /\ \A i \in last + 1 .. n : ~ (gaps[i].Start < hi)
    BY <1>1, <1>3, <1>9, <2>1, LastGapIs DEF n, hi
  <2> HIDE DEF last
  <2>3. last \in 1 .. n /\ first <= last
    BY <1>1, <1>9, <2>2
  <2> DEFINE gf == gaps[first]
             gl == gaps[last]
             cs == cut.Offset
             ce == EndOf(cut)
  <2>4. /\ gf.Start \in Nat /\ gf.End \in Nat /\ gl.Start \in Nat /\ gl.End \in Nat
        /\ gf.Start < gf.End /\ gl.Start < gl.End /\ gf.End <= gl.End
        /\ first < last => gf.End < gl.Start
    <3>1. /\ gf.Start \in Nat /\ gf.End \in Nat /\ gl.Start \in Nat /\ gl.End \in Nat
          /\ gf.Start < gf.End /\ gl.Start < gl.End
      BY <1>4, <1>5, <1>9, <2>3
    <3>2. first < last => gf.End < gl.Start
      BY <1>5, <1>9, <2>3
    <3>3. first = last \/ first < last
      BY <1>1, <1>9, <2>3
    <3> QED
      BY <3>1, <3>2, <3>3
  <2> DEFINE mid == StartInGap(frame, gf)
  <2>5. /\ mid \in [Offset : Int, Len : Int, FinBit : BOOLEAN]
        /\ mid.Offset = IF lo < gf.Start THEN gf.Start ELSE lo
        /\ EndOf(mid) = hi
        /\ mid.FinBit = frame.FinBit
    <3> HIDE DEF gf
    <3>1. CASE lo < gf.Start
      <4>1. mid = CutFront(frame, gf.Start - lo) /\ gf.Start - lo \in Int
        BY <1>2, <2>4, <3>1 DEF StartInGap, lo
      <4> HIDE DEF mid
      <4> DEFINE d == gf.Start - lo
      <4>2. lo + d = gf.Start
        BY <1>2, <2>4
      <4> HIDE DEF d
      <4>3. mid = CutFront(frame, d) /\ d \in Int
        BY <4>1 DEF d
      <4> QED
        BY <1>3, <3>1, <4>2, <4>3, CutFrontIs DEF lo, hi
    <3>2. CASE ~ (lo < gf.Start)
      BY <1>3, <3>2 DEF StartInGap, lo, hi
    <3> QED
      BY <3>1, <3>2
  <2>6. /\ cut \in [Offset : Int, Len : Int, FinBit : BOOLEAN]
        /\ cs = mid.Offset
        /\ ce = IF hi > gl.End THEN gl.End ELSE hi
        /\ cut.FinBit = frame.FinBit
    <3> HIDE DEF gf, gl, mid
    <3>1. cut = EndInGap(mid, gl)
      BY DEF mid, gf, gl
    <3> HIDE DEF cut
    <3> QED
      BY <1>2, <2>4, <2>5, <3>1 DEF EndInGap, EndOf
  <2> HIDE DEF cut, mid, gf, gl
  <2>7. /\ cs \in Nat /\ ce \in Nat /\ cs < ce /\ lo <= cs /\ ce <= hi
        /\ gf.Start <= cs /\ cs < gf.End /\ gl.Start < ce /\ ce <= gl.End
    BY <1>2, <2>1, <2>2, <2>4, <2>5, <2>6 DEF gf, gl
  <2>8. cut \in Frames /\ cut.Len > 0 /\ ce \in Offsets
    BY <1>2, <2>6, <2>7, TransferAssumption DEF Frames, Offsets, EndOf
  <2>9. /\ gaps2 \in Seq(GapSet) /\ Separate(gaps2)
        /\ \A b \in Int : InGaps(gaps2, b) <=> InGaps(gaps, b) /\ ~ (cs <= b /\ b < ce)
        /\ \A i \in DOMAIN gaps2 :
              gaps2[i].End = cs \/ \E j \in DOMAIN gaps : j \notin first .. last - 1 /\ gaps2[i].End = gaps[j].End
    <3>1. /\ gaps[first].Start <= cut.Offset /\ cut.Offset <= gaps[first].End
          /\ gaps[last].Start <= EndOf(cut) /\ EndOf(cut) <= gaps[last].End
      BY <2>4, <2>7 DEF gf, gl
    <3>2. first \in DOMAIN gaps /\ last \in first .. Len(gaps)
      BY <1>1, <1>9, <2>2 DEF n
    <3>3. gaps \in Seq(GapSet) /\ Separate(gaps)
      BY <1>1
    <3> HIDE DEF gaps
    <3> QED
      BY <2>8, <3>1, <3>2, <3>3, FillGapsFills
  <2> HIDE DEF gaps2
  \* The bytes that the frame adds are those between cs and ce.
  <2>10. ASSUME NEW b \in Nat, InGaps(gaps, b), lo <= b, b < hi PROVE cs <= b /\ b < ce
    <3>1. PICK i \in 1 .. n : gaps[i].Start <= b /\ b < gaps[i].End
      BY <1>1, <2>10 DEF InGaps
    <3>2. gaps[i].Start \in Nat /\ gaps[i].End \in Nat
      BY <1>4, <3>1
    <3>3. ~ (i \in 1 .. first - 1)
      BY <1>2, <1>4, <1>10, <2>10, <3>1, <3>2
    <3>4. ~ (i \in last + 1 .. n)
      BY <1>2, <2>2, <2>10, <3>1, <3>2
    <3>5. gf.Start <= gaps[i].Start
      <4>1. first = i \/ first < i
        BY <1>1, <1>9, <3>3
      <4> QED
        BY <1>5, <1>9, <2>4, <3>1, <3>2, <4>1 DEF gf
    <3>6. gaps[i].End <= gl.End
      <4>1. last = i \/ i < last
        BY <1>1, <2>3, <3>4
      <4> QED
        BY <1>5, <2>3, <2>4, <3>1, <3>2, <4>1 DEF gl
    <3>7. gf.Start <= b /\ b < gl.End
      BY <2>4, <3>1, <3>2, <3>5, <3>6
    <3> QED
      BY <1>2, <2>4, <2>5, <2>6, <2>10, <3>7
  <2> HIDE DEF cs, ce, have2
  <2>11. \A b \in have2 : b \in Nat /\ b \in 0 .. MaxByteCount - 1
    <3>1. \A b \in 0 .. StreamLength - 1 : b \in Nat /\ b \in 0 .. MaxByteCount - 1
      BY TransferAssumption
    <3> QED
      BY <1>6, <3>1, Zenon DEF have2
  <2>12. \A b \in have2 : b \notin have => cs <= b /\ b < ce
    BY <1>6, <2>10, <2>11 DEF Exact, have2
  <2>13. \A b \in Nat : cs <= b /\ b < ce => b \in have2
    BY <1>2, <1>7, <2>7 DEF have2
  <2>14. \A b \in 0 .. MaxByteCount - 1 : b \notin have2 <=> InGaps(gaps2, b)
    <3> TAKE b \in 0 .. MaxByteCount - 1
    <3>1. InGaps(gaps2, b) <=> InGaps(gaps, b) /\ ~ (cs <= b /\ b < ce)
      BY <2>9, TransferAssumption
    <3>2. b \notin have <=> InGaps(gaps, b)
      BY DEF Exact
    <3>3. b \in Nat
      BY TransferAssumption
    <3> QED
      BY <2>12, <2>13, <3>1, <3>2, <3>3 DEF have2
  <2>15. cs \notin have
    <3>1. InGaps(gaps, cs)
      BY <1>1, <1>9, <2>7 DEF InGaps, gf
    <3>2. cs \in 0 .. MaxByteCount - 1
      BY <1>2, <2>7, TransferAssumption
    <3> QED
      BY <3>1, <3>2 DEF Exact
  <2>16. pos <= cs
    BY <1>1, <2>7, <2>15
  <2>17. cs \notin DOMAIN queued
    <3>1. SUFFICES ASSUME cs \in DOMAIN queued PROVE FALSE
      OBVIOUS
    <3>2. queued[cs] \in Frames /\ queued[cs].Offset = cs /\ Bytes(queued[cs]) \subseteq have
      BY <1>1, <3>1
    <3>3. CASE queued[cs].Len = 0
      <4>1. hi <= cs
        BY <3>1, <3>3 DEF queued, hi
      <4> QED
        BY <1>2, <2>7, <4>1
    <3>4. CASE queued[cs].Len # 0
      <4>1. cs \in Bytes(queued[cs])
        BY <2>7, <3>2, <3>4 DEF Bytes, EndOf, Frames, Offsets
      <4> QED
        BY <2>15, <3>2, <4>1
    <3> QED
      BY <3>3, <3>4
  <2>18. \A c \in Covered(gaps, first, last) : c \in Nat /\ cs < c /\ c < ce
    <3> TAKE c \in Covered(gaps, first, last)
    <3>1. PICK i \in first .. last - 1 : c = gaps[i].End
      BY DEF Covered
    <3>2. i \in 1 .. n /\ i < last /\ (i = first \/ first < i)
      BY <1>1, <1>9, <2>3, <3>1
    <3>3. gaps[i].Start \in Nat /\ gaps[i].End \in Nat /\ gaps[i].Start < gaps[i].End
      BY <1>4, <1>5, <3>2
    <3>4. gaps[i].End < gl.Start
      BY <1>5, <2>3, <3>2 DEF gl
    <3>5. gf.End <= gaps[i].End
      BY <1>5, <1>9, <2>4, <3>2, <3>3 DEF gf
    <3> QED
      BY <2>4, <2>7, <3>1, <3>3, <3>4, <3>5
  <2> DEFINE new == Put(kept, cut)
             queued2 == IF Len(gaps2) > MaxStreamFrameSorterGaps THEN kept ELSE new
             e2 == IF Len(gaps2) > MaxStreamFrameSorterGaps THEN "TooManyGapsInReceivedStreamData" ELSE "ok"
             s2 == Sorter(queued2, pos, gaps2)
  <2>19. res = [sorter |-> s2, err |-> e2]
    <3> HIDE DEF kept
    <3> QED
      BY <1>12, ZenonT(30) DEF Insert, first, last, gaps2, cut, kept, queued, pos, hi
  <2>20. /\ DOMAIN kept = DOMAIN queued \ Covered(gaps, first, last)
         /\ \A o \in DOMAIN kept : kept[o] = queued[o] /\ o \in DOMAIN queued
    OBVIOUS
  <2> HIDE DEF kept
  <2>21. /\ DOMAIN new = DOMAIN kept \cup {cs}
         /\ \A o \in DOMAIN new : new[o] = IF o = cs THEN cut ELSE kept[o]
    BY DEF Put, cs
  <2> HIDE DEF new
  <2>22. /\ \A o \in DOMAIN queued2 : \/ o \in DOMAIN queued /\ queued2[o] = queued[o]
                                      \/ o = cs /\ queued2[o] = cut
         /\ \A o \in DOMAIN queued : o \notin Covered(gaps, first, last) =>
               o \in DOMAIN queued2 /\ queued2[o] = queued[o]
         /\ \A o \in DOMAIN queued2 : queued2[o] \in Frames
         /\ queued2 \in [DOMAIN queued2 -> Frames]
    <3> HIDE DEF gaps2
    <3>1. CASE Len(gaps2) > MaxStreamFrameSorterGaps
      <4>1. queued2 = kept
        BY <3>1
      <4>2. kept \in [DOMAIN kept -> Frames]
        BY <1>1, <2>20 DEF kept
      <4> HIDE DEF queued2
      <4> QED
        BY <1>1, <2>20, <4>1, <4>2
    <3>2. CASE ~ (Len(gaps2) > MaxStreamFrameSorterGaps)
      <4>1. queued2 = new
        BY <3>2
      <4>2. \A o \in DOMAIN new : new[o] \in Frames
        BY <1>1, <2>8, <2>20, <2>21
      <4>3. new = [o \in DOMAIN new |-> new[o]]
        BY DEF new, Put
      <4>4. new \in [DOMAIN new -> Frames]
        BY <4>2, <4>3
      <4> HIDE DEF queued2
      <4> QED
        BY <1>1, <2>17, <2>20, <2>21, <4>1, <4>2, <4>4
    <3> QED
      BY <3>1, <3>2
  <2> HIDE DEF queued2
  <2>23. Sound(s2, have2)
    <3>1. /\ s2.queuedFrames = queued2 /\ s2.readPosition = pos /\ s2.gaps = gaps2
          /\ s2 = Sorter(s2.queuedFrames, s2.readPosition, s2.gaps)
      BY DEF Sorter
    <3>2. 0 .. pos - 1 \subseteq have2
      BY <1>1 DEF have2
    <3>3. ASSUME NEW o \in DOMAIN queued2
          PROVE  queued2[o].Offset = o /\ Bytes(queued2[o]) \subseteq have2
      <4>1. CASE o \in DOMAIN queued /\ queued2[o] = queued[o]
        BY <1>1, <4>1 DEF have2
      <4>2. CASE o = cs /\ queued2[o] = cut
        <5>1. Bytes(cut) \subseteq have2
          BY <2>7, <2>13 DEF Bytes, cs, ce
        <5> QED
          BY <4>2, <5>1 DEF cs
      <4> QED
        BY <2>22, <4>1, <4>2
    <3> HIDE DEF s2
    <3> QED
      BY <1>1, <2>9, <2>22, <3>1, <3>2, <3>3 DEF Sound
  <2>24. ASSUME NEW o \in DOMAIN queued2
         PROVE  \/ o \in DOMAIN queued /\ queued2[o] = queued[o]
                \/ /\ lo <= o
                   /\ EndOf(queued2[o]) <= hi
                   /\ queued2[o].Len = 0 => frame.Len = 0
                   /\ queued2[o].FinBit = frame.FinBit
    BY <2>6, <2>7, <2>8, <2>15, <2>22 DEF ce
  <2>25. pos \in DOMAIN queued => pos \in DOMAIN queued2 /\ queued2[pos] = queued[pos]
    BY <1>1, <2>7, <2>16, <2>18, <2>22
  <2>26. ASSUME ~ (Len(gaps2) > MaxStreamFrameSorterGaps)
         PROVE  \E S2 \in SUBSET DOMAIN s2.queuedFrames : Live(s2, have2, S2)
    <3> DEFINE S2 == {o \in S : ~ (cs <= o /\ o < ce)} \cup {cs}
    <3>1. s2.queuedFrames = new /\ s2.readPosition = pos /\ s2.gaps = gaps2
      BY <2>26 DEF queued2, Sorter
    <3>2. /\ S \subseteq DOMAIN queued
          /\ \A o \in S : queued[o].Len > 0
          /\ pos \in have => pos \in S
          /\ \A i \in DOMAIN gaps : gaps[i].End \in have => gaps[i].End \in S
          /\ \A o \in S : EndOf(queued[o]) \in have => EndOf(queued[o]) \in S
      BY DEF Live, queued, pos
    <3>3. ASSUME NEW o \in S
          PROVE  /\ o \in Nat /\ o \in have /\ o \in DOMAIN queued /\ o # cs
                 /\ EndOf(queued[o]) \in Nat /\ o < EndOf(queued[o])
                 /\ \A b \in Nat : o <= b /\ b < EndOf(queued[o]) => b \in have
      <4>1. o \in DOMAIN queued /\ queued[o] \in Frames /\ queued[o].Offset = o /\ queued[o].Len > 0
        BY <1>1, <3>2
      <4>2. o \in Nat /\ queued[o].Len \in Nat /\ Bytes(queued[o]) \subseteq have
        BY <1>1, <4>1 DEF Frames, Offsets
      <4>3. EndOf(queued[o]) \in Nat /\ o < EndOf(queued[o])
        BY <4>1, <4>2 DEF EndOf
      <4>4. \A b \in Nat : o <= b /\ b < EndOf(queued[o]) => b \in Bytes(queued[o])
        BY <4>1, <4>2, <4>3 DEF Bytes
      <4> QED
        BY <2>17, <4>1, <4>2, <4>3, <4>4
    <3>4. ASSUME NEW o \in S, ~ (cs <= o /\ o < ce)
          PROVE  o \in DOMAIN new /\ new[o] = queued[o] /\ o # cs
      BY <2>7, <2>18, <2>20, <2>21, <3>3, <3>4
    <3>5. cs \in DOMAIN new /\ new[cs] = cut
      BY <2>21
    <3>6. S2 \subseteq DOMAIN new /\ \A o \in S2 : new[o].Len > 0
      BY <2>8, <3>2, <3>4, <3>5
    <3>7. pos \in have2 => pos \in S2
      <4>1. CASE pos \in have
        BY <1>1, <2>7, <2>15, <2>16, <3>2, <4>1
      <4>2. CASE pos \in have2 /\ pos \notin have
        BY <1>1, <2>7, <2>12, <2>16, <4>2
      <4> QED
        BY <4>1, <4>2
    <3>8. ASSUME NEW i \in DOMAIN gaps2, gaps2[i].End \in have2 PROVE gaps2[i].End \in S2
      <4> DEFINE e == gaps2[i].End
      <4>1. CASE e = cs
        BY <4>1
      <4>2. CASE e # cs
        <5>1. PICK j \in 1 .. n : j \notin first .. last - 1 /\ e = gaps[j].End
          BY <1>1, <2>9, <4>2
        <5>2. e \in Nat /\ ~ (cs <= e /\ e < ce)
          <6>1. CASE j \in 1 .. first - 1
            <7>1. gaps[j].End < lo /\ gaps[j].End \in Nat
              BY <1>4, <1>10, <5>1, <6>1
            <7> HIDE DEF e
            <7> QED
              BY <1>2, <2>7, <5>1, <7>1
          <6>2. CASE j = last \/ last < j
            <7>1. gl.End <= gaps[j].End /\ gaps[j].End \in Nat
              BY <1>4, <1>5, <2>3, <2>4, <5>1, <6>2 DEF gl
            <7> HIDE DEF e
            <7> QED
              BY <2>4, <2>7, <5>1, <7>1
          <6> QED
            BY <1>1, <1>9, <2>3, <5>1, <6>1, <6>2
        <5>3. e \in have
          BY <2>12, <3>8, <5>2
        <5>4. e \in S
          BY <1>1, <3>2, <5>1, <5>3
        <5> QED
          BY <5>2, <5>4
      <4> QED
        BY <4>1, <4>2
    <3>9. ASSUME NEW o \in S2, EndOf(new[o]) \in have2 PROVE EndOf(new[o]) \in S2
      <4>1. CASE o = cs
        <5>1. EndOf(new[o]) = ce
          BY <3>5, <4>1 DEF ce
        <5>2. ce \in have
          BY <2>7, <2>12, <3>9, <5>1
        <5>3. ce = gl.End
          <6>1. SUFFICES ASSUME ce < gl.End PROVE FALSE
            BY <2>4, <2>7
          <6>2. InGaps(gaps, ce)
            <7>1. last \in DOMAIN gaps /\ gaps[last].Start <= ce /\ ce < gaps[last].End
              BY <1>1, <2>3, <2>4, <2>7, <6>1 DEF gl
            <7> QED
              BY <7>1 DEF InGaps
          <6>3. ce \in 0 .. MaxByteCount - 1
            BY <2>7, <2>11, <3>9, <5>1
          <6> QED
            BY <5>2, <6>2, <6>3 DEF Exact
        <5>4. ce \in S
          BY <1>1, <2>3, <3>2, <5>2, <5>3 DEF gl
        <5> QED
          BY <2>7, <5>1, <5>4
      <4>2. CASE o # cs
        <5> DEFINE e == EndOf(queued[o])
        <5>1. o \in S /\ ~ (cs <= o /\ o < ce) /\ new[o] = queued[o]
          BY <3>4, <4>2
        <5>2. o \in Nat /\ e \in Nat /\ o < e /\ (o <= cs /\ cs < e => cs \in have)
          BY <2>7, <3>3, <5>1
        <5>3. e \in have => e \in S
          BY <3>2, <5>1
        <5>4. e \in have2
          BY <3>9, <5>1
        <5> HIDE DEF e
        <5>5. e = cs \/ ~ (cs <= e /\ e < ce)
          BY <2>7, <2>15, <5>1, <5>2
        <5>6. e = cs \/ e \in S
          BY <2>12, <5>3, <5>4, <5>5
        <5>7. e \in S2
          BY <5>5, <5>6
        <5> QED
          BY <5>1, <5>7 DEF e
      <4> QED
        BY <4>1, <4>2
    <3> HIDE DEF S2, s2
    <3>10. Live(s2, have2, S2)
      BY <3>1, <3>6, <3>7, <3>8, <3>9 DEF Live
    <3> QED
      BY <3>1, <3>6, <3>10
  <2>27. res.sorter = s2 /\ res.err = e2 /\ s2.queuedFrames = queued2 /\ s2.readPosition = pos /\ s2.gaps = gaps2
    BY <2>19 DEF Sorter
  <2>28. Exact(s2, have2)
    BY <2>14, <2>27 DEF Exact
  <2>29. /\ e2 \in {"ok", "DuplicateStreamData", "TooManyGapsInReceivedStreamData"}
         /\ e2 # "TooManyGapsInReceivedStreamData" => ~ (Len(gaps2) > MaxStreamFrameSorterGaps)
    OBVIOUS
  <2> HIDE DEF res, s2, e2
  <2> QED
    BY <2>23, <2>24, <2>25, <2>26, <2>27, <2>28, <2>29, Zenon
       DEF res, have2, pos, queued, lo, hi, Pushed
<1> QED
  BY <1>11, <1>12

(***************************************************************************)
(* Push does the same for a frame that was sent: of an empty one, which    *)
(* carries the FIN, nothing lies behind.                                   *)
(***************************************************************************)
LEMMA PushKeeps ==
    ASSUME NEW s, NEW have \in SUBSET (0 .. StreamLength - 1), Sound(s, have), Exact(s, have),
           NEW S, Live(s, have, S),
           NEW frame \in Frames, EndOf(frame) \in Offsets, frame.Len = 0 => frame.FinBit,
           \A o \in DOMAIN s.queuedFrames :
              s.queuedFrames[o].Len = 0 => EndOf(frame) <= o /\ s.queuedFrames[o].FinBit,
           frame.Len = 0 => \A b \in have : b < frame.Offset
    PROVE  Pushed(s, frame, have \cup Bytes(frame), Push(s, frame))
<1> DEFINE res == Push(s, frame)
           have2 == have \cup Bytes(frame)
           lo == frame.Offset
           hi == EndOf(frame)
           queued == s.queuedFrames
<1>1. lo \in Nat /\ frame.Len \in Nat /\ hi \in Nat /\ hi = lo + frame.Len /\ hi <= StreamLength
  BY TransferAssumption DEF Frames, Offsets, EndOf
<1>2. frame \in [Offset : Int, Len : Int, FinBit : BOOLEAN]
  BY TransferAssumption DEF Frames, Offsets
<1>3. ASSUME NEW o \in DOMAIN queued
      PROVE  /\ queued[o] \in Frames /\ queued[o].Offset = o /\ o \in Nat /\ queued[o].Len \in Nat
             /\ EndOf(queued[o]) = o + queued[o].Len /\ Bytes(queued[o]) \subseteq have
             /\ Bytes(queued[o]) = o .. o + queued[o].Len - 1
  <2>1. queued[o] \in Frames /\ queued[o].Offset = o /\ Bytes(queued[o]) \subseteq have
    BY DEF Sound
  <2> HIDE DEF queued
  <2> QED
    BY <2>1, TransferAssumption DEF Frames, Offsets, EndOf, Bytes
<1>4. S \in SUBSET DOMAIN queued /\ Live(s, have, S)
  BY DEF Live
<1> HIDE DEF lo, hi, queued
<1>5. CASE frame.Len = 0
  <2> DEFINE new == Put(queued, frame)
             s2 == Sorter(new, s.readPosition, s.gaps)
  <2>1. res.sorter = s2 /\ res.err = "ok"
    <3>1. s = Sorter(queued, s.readPosition, s.gaps)
      BY DEF Sound, queued
    <3>2. [s EXCEPT !.queuedFrames = new] = s2
      BY <3>1 DEF Sorter
    <3>3. res = [sorter |-> [s EXCEPT !.queuedFrames = new], err |-> "ok"]
      BY <1>5 DEF Push, queued
    <3> QED
      BY <3>2, <3>3
  <2>2. s2.queuedFrames = new /\ s2.readPosition = s.readPosition /\ s2.gaps = s.gaps /\ s2 = Sorter(new, s.readPosition, s.gaps)
    BY DEF Sorter
  <2>3. Bytes(frame) = {} /\ have2 = have
    BY <1>1, <1>5 DEF Bytes, lo, hi
  <2>4. /\ DOMAIN new = DOMAIN queued \cup {lo}
        /\ \A o \in DOMAIN new : new[o] = IF o = lo THEN frame ELSE queued[o]
        /\ new = [o \in DOMAIN new |-> new[o]]
    BY DEF Put, lo
  <2> HIDE DEF new, s2, res
  <2>5. \A o \in DOMAIN new : new[o] \in Frames /\ new[o].Offset = o /\ Bytes(new[o]) \subseteq have
    BY <1>3, <2>3, <2>4 DEF lo
  <2>6. Sound(s2, have)
    <3>1. new \in [DOMAIN new -> Frames]
      BY <2>4, <2>5
    <3> QED
      BY <2>2, <2>5, <3>1 DEF Sound
  <2>7. Exact(s2, have)
    BY <2>2 DEF Exact
  <2>8. \A o \in S : o \in DOMAIN new /\ new[o] = queued[o]
    <3> TAKE o \in S
    <3>1. o \in DOMAIN queued /\ queued[o].Len > 0
      BY <1>4 DEF Live, queued
    <3>2. o \in have
      BY <1>3, <3>1
    <3>3. o < lo
      BY <1>5, <3>2 DEF lo
    <3> QED
      BY <1>1, <1>3, <2>4, <3>1, <3>3
  <2>9. Live(s2, have, S) /\ S \in SUBSET DOMAIN s2.queuedFrames
    BY <1>4, <2>2, <2>8 DEF Live, queued
  <2>10. ASSUME s.readPosition \in DOMAIN queued
         PROVE  s.readPosition \in DOMAIN new /\ new[s.readPosition] = queued[s.readPosition]
    <3> DEFINE pos == s.readPosition
    <3>1. CASE pos # lo
      BY <2>4, <2>10, <3>1
    <3>2. CASE pos = lo
      <4>1. queued[lo].Len = 0
        <5>1. SUFFICES ASSUME queued[lo].Len # 0 PROVE FALSE
          OBVIOUS
        <5>2. lo \in have
          BY <1>1, <1>3, <2>10, <3>2, <5>1
        <5>3. lo < lo
          BY <1>5, <5>2, Zenon DEF lo
        <5> QED
          BY <1>1, <5>3
      <4>2. queued[lo].FinBit /\ frame.FinBit
        BY <1>5, <2>10, <3>2, <4>1 DEF queued
      <4>3. queued[lo] = [Offset |-> lo, Len |-> 0, FinBit |-> TRUE]
        <5>1. queued[lo] \in Frames /\ queued[lo].Offset = lo
          BY <1>3, <2>10, <3>2
        <5> QED
          BY <4>1, <4>2, <5>1, Zenon DEF Frames
      <4>4. frame = [Offset |-> lo, Len |-> 0, FinBit |-> TRUE]
        BY <1>5, <4>2 DEF Frames, lo
      <4> QED
        BY <2>4, <3>2, <4>3, <4>4
    <3> QED
      BY <3>1, <3>2
  <2>11. ASSUME NEW o \in DOMAIN new
         PROVE  \/ o \in DOMAIN queued /\ new[o] = queued[o]
                \/ /\ lo <= o
                   /\ EndOf(new[o]) <= hi
                   /\ new[o].Len = 0 => frame.Len = 0
                   /\ new[o].FinBit = frame.FinBit
    BY <1>1, <1>5, <2>4 DEF hi
  <2> HIDE DEF have2
  <2> QED
    BY <2>1, <2>2, <2>3, <2>6, <2>7, <2>9, <2>10, <2>11 DEF res, have2, queued, lo, hi, Pushed
<1>6. ASSUME frame.Len # 0, NEW i \in DOMAIN s.gaps, s.gaps[i].End = lo
      PROVE  lo \in DOMAIN queued
  <2>1. s.gaps \in Seq(GapSet) /\ Separate(s.gaps)
    BY DEF Sound
  <2>2. ~ InGaps(s.gaps, lo)
    <3>1. SUFFICES ASSUME NEW j \in DOMAIN s.gaps, s.gaps[j].Start <= lo, lo < s.gaps[j].End PROVE FALSE
      BY DEF InGaps
    <3>2. s.gaps[i].End \in Nat /\ s.gaps[j].End \in Nat /\ s.gaps[i].Start \in Nat /\ s.gaps[j].Start \in Nat
      BY <2>1, GapNat
    <3>3. /\ i < j => s.gaps[i].End < s.gaps[j].Start
          /\ j < i => s.gaps[j].End < s.gaps[i].Start
          /\ s.gaps[i].Start < s.gaps[i].End
      BY <2>1 DEF Separate
    <3>4. i \in Nat /\ j \in Nat
      BY <2>1
    <3> QED
      BY <1>1, <1>6, <3>1, <3>2, <3>3, <3>4
  <2>3. lo \in 0 .. MaxByteCount - 1
    BY <1>1, <1>6, TransferAssumption
  <2>4. lo \in have
    BY <2>2, <2>3 DEF Exact
  <2> QED
    BY <1>4, <1>6, <2>4 DEF Live
<1>7. CASE frame.Len # 0 /\ lo \notin DOMAIN queued
  <2>1. res = Insert(s, frame)
    BY <1>7 DEF Push, queued, lo
  <2>2. \A i \in DOMAIN s.gaps : s.gaps[i].End # frame.Offset
    BY <1>6, <1>7 DEF lo
  <2>3. frame.Len > 0
    BY <1>1, <1>7
  <2> HIDE DEF res
  <2> QED
    BY <2>1, <2>2, <2>3, <1>4, InsertKeeps DEF res
<1>8. CASE frame.Len # 0 /\ lo \in DOMAIN queued
  <2> DEFINE old == queued[lo]
  <2>1. /\ old \in Frames /\ old.Offset = lo /\ old.Len \in Nat /\ EndOf(old) = lo + old.Len
        /\ \A b \in Nat : lo <= b /\ b < lo + old.Len => b \in have
    <3>1. old \in Frames /\ old.Offset = lo /\ old.Len \in Nat /\ EndOf(old) = lo + old.Len
      BY <1>3, <1>8
    <3>2. lo .. lo + old.Len - 1 \subseteq have
      BY <1>3, <1>8
    <3> HIDE DEF old
    <3> QED
      BY <1>1, <3>1, <3>2
  <2>2. old.Len > 0
    <3>1. old.Len = 0 => hi <= lo
      BY <1>8 DEF queued, hi
    <3> QED
      BY <1>1, <1>8, <2>1, <3>1
  <2>3. CASE frame.Len <= old.Len
    <3>1. res = [sorter |-> s, err |-> "DuplicateStreamData"]
      BY <1>8, <2>3 DEF Push, queued, lo
    <3>2. have2 = have
      <4>1. \A b \in Bytes(frame) : b \in Nat /\ lo <= b /\ b < lo + frame.Len
        BY <1>1 DEF Bytes, lo, hi
      <4> HIDE DEF old
      <4>2. Bytes(frame) \subseteq have
        BY <1>1, <2>1, <2>3, <4>1
      <4> QED
        BY <4>2
    <3>3. res.sorter = s /\ res.err = "DuplicateStreamData"
      BY <3>1
    <3> HIDE DEF res, have2
    <3> QED
      BY <1>4, <3>2, <3>3 DEF res, have2, queued, Pushed
  <2>4. CASE ~ (frame.Len <= old.Len)
    <3> DEFINE cf == CutFront(frame, old.Len)
               d == old.Len
    <3>1. res = Insert(s, cf)
      BY <1>8, <2>4 DEF Push, queued, lo
    <3> HIDE DEF old
    <3>2. /\ cf \in [Offset : Int, Len : Int, FinBit : BOOLEAN]
          /\ cf.Offset = lo + d /\ cf.Len = frame.Len - d /\ cf.FinBit = frame.FinBit /\ EndOf(cf) = hi
      <4>1. d \in Int
        BY <2>1
      <4>2. cf = CutFront(frame, d)
        OBVIOUS
      <4> HIDE DEF d, cf
      <4> QED
        BY <1>2, <4>1, <4>2, CutFrontIs, ZenonT(30) DEF lo, hi
    <3> HIDE DEF cf
    <3>3. cf \in Frames /\ cf.Len > 0 /\ EndOf(cf) \in Offsets
      BY <1>1, <2>1, <2>2, <2>4, <3>2, TransferAssumption DEF Frames, Offsets
    <3>4. have \cup Bytes(cf) = have2
      <4>1. \A b \in Int : b \in Bytes(cf) <=> lo + d <= b /\ b < hi
        BY <1>1, <2>1, <3>2 DEF Bytes
      <4>2. \A b \in Int : b \in Bytes(frame) <=> lo <= b /\ b < hi
        BY <1>1 DEF Bytes, lo, hi
      <4>3. Bytes(cf) \subseteq Int /\ Bytes(frame) \subseteq Int
        BY <1>1, <2>1, <3>2 DEF Bytes, lo, hi
      <4>4. Bytes(cf) \subseteq Bytes(frame)
        BY <1>1, <2>1, <4>1, <4>2, <4>3
      <4>5. ASSUME NEW b \in Bytes(frame), b \notin Bytes(cf) PROVE b \in have
        BY <1>1, <2>1, <4>1, <4>2, <4>3, <4>5
      <4> QED
        BY <4>4, <4>5
    <3>5. \A i \in DOMAIN s.gaps : s.gaps[i].End # cf.Offset
      <4>1. SUFFICES ASSUME NEW i \in DOMAIN s.gaps, s.gaps[i].End = lo + d PROVE FALSE
        BY <3>2
      <4>2. s.gaps[i].Start \in Nat /\ s.gaps[i].Start < s.gaps[i].End
        BY GapNat DEF Sound, Separate
      <4> DEFINE b == lo + d - 1
      <4>3. InGaps(s.gaps, b)
        <5>1. s.gaps[i].Start <= b /\ b < s.gaps[i].End
          BY <1>1, <2>1, <4>1, <4>2
        <5> QED
          BY <5>1 DEF InGaps
      <4>4. b \in 0 .. MaxByteCount - 1 /\ b \in Nat /\ lo <= b /\ b < lo + d
        BY <1>1, <2>1, <2>2, <2>4, TransferAssumption
      <4>5. b \in have
        BY <2>1, <4>4
      <4> QED
        BY <4>3, <4>4, <4>5 DEF Exact
    <3>6. \A o \in DOMAIN s.queuedFrames : s.queuedFrames[o].Len = 0 => EndOf(cf) <= o
      BY <3>2 DEF hi
    <3> HIDE DEF d, res, have2
    <3>7. lo <= cf.Offset
      BY <1>1, <2>1, <3>2 DEF d
    <3>8. Pushed(s, cf, have2, res)
      <4>1. Pushed(s, cf, have \cup Bytes(cf), Insert(s, cf))
        BY <1>4, <3>3, <3>5, <3>6, InsertKeeps
      <4> QED
        BY <3>1, <3>4, <4>1
    <3>9. ASSUME NEW o \in DOMAIN res.sorter.queuedFrames, cf.Offset <= o,
                 res.sorter.queuedFrames[o].Len = 0 => cf.Len = 0
          PROVE  lo <= o /\ res.sorter.queuedFrames[o].Len # 0
      <4>1. o \in Nat
        <5>1. /\ res.sorter.queuedFrames[o] \in Frames
              /\ res.sorter.queuedFrames[o].Offset = o
          BY <3>8 DEF Sound, Pushed
        <5> QED
          BY <5>1 DEF Frames, Offsets
      <4> QED
        BY <1>1, <2>1, <3>2, <3>3, <3>7, <3>9, <4>1
    <3> QED
      BY <3>2, <3>8, <3>9, Zenon DEF res, have2, lo, hi, Pushed
  <2> QED
    BY <2>3, <2>4
<1> QED
  BY <1>5, <1>7, <1>8

--------------------------------------------------------------------------
\* Nothing was sent and nothing arrived: one gap.
LEMMA InitIInv == Init => IInv
<1> SUFFICES ASSUME Init PROVE IInv
  OBVIOUS
<1> DEFINE g == Gap(0, MaxByteCount)
<1>1. q = Sorter(<<>>, 0, <<g>>) /\ got = {} /\ 0 \in Offsets
  BY TransferAssumption DEF Init, newStreamFrameSorter, Offsets
<1>2. q.queuedFrames = <<>> /\ q.readPosition = 0 /\ q.gaps = <<g>>
  BY <1>1 DEF Sorter
<1>3. g \in GapSet /\ g.Start = 0 /\ g.End = MaxByteCount
  BY <1>1 DEF Gap, GapSet
<1> HIDE DEF g
<1>4. DOMAIN q.gaps = {1} /\ q.gaps[1] = g /\ q.gaps \in Seq(GapSet) /\ DOMAIN q.queuedFrames = {}
  BY <1>2, <1>3
<1>5. w = [written |-> 0, writeOffset |-> 0, finishedWriting |-> FALSE, finSent |-> FALSE,
           retransmissionQueue |-> <<>>] /\ wire = {} /\ tracked = {}
  BY DEF Init
<1>6. r = [readOffset |-> 0, finishedReading |-> FALSE, consumed |-> FALSE, frame |-> NoFrame]
  BY DEF Init
<1>7. WriterInv
  <2>1. w.retransmissionQueue = <<>> /\ DOMAIN w.retransmissionQueue = {}
    BY <1>5
  <2> QED
    BY <1>1, <1>5, <2>1 DEF WriterInv, Writers
<1>8. Separate(q.gaps)
  BY <1>3, <1>4, TransferAssumption DEF Separate
<1>9. Sound(q, got)
  <2>1. q.queuedFrames \in [DOMAIN q.queuedFrames -> Frames]
    BY <1>2, <1>4
  <2>2. 0 .. q.readPosition - 1 \subseteq got
    BY <1>2
  <2>3. q = Sorter(q.queuedFrames, q.readPosition, q.gaps)
    BY <1>1, <1>2
  <2> QED
    BY <1>1, <1>2, <1>4, <1>8, <2>1, <2>2, <2>3 DEF Sound
<1>10. Exact(q, got)
  BY <1>1, <1>3, <1>4, TransferAssumption DEF Exact, InGaps
<1>11. Live(q, got, {})
  BY <1>1 DEF Live
<1>12. SorterInv
  BY <1>9, <1>10, <1>11 DEF SorterInv
<1>13. ArrivedInv
  BY <1>1, <1>4 DEF ArrivedInv
<1>14. ReaderInv
  <2>1. NoFrame \in Frames
    BY <1>1 DEF NoFrame, Frame, Frames
  <2> QED
    BY <1>1, <1>2, <1>4, <1>6, <2>1 DEF ReaderInv, Readers, HasHead
<1> QED
  BY <1>7, <1>12, <1>13, <1>14 DEF IInv

(***************************************************************************)
(* A step of the writer: it appends, and once the FIN is out it does       *)
(* nothing more.                                                           *)
(***************************************************************************)
WriterStep ==
    /\ w'.writeOffset \in Offsets /\ w.writeOffset <= w'.writeOffset
    /\ w.finSent => w'.finSent /\ w'.writeOffset = w.writeOffset
    /\ UNCHANGED <<q, r, got, err>>

\* What was sent stays in order.
LEMMA SentStays ==
    ASSUME IInv, WriterStep
    PROVE  \A frame \in Frames : SentFrame(w, frame) => SentFrame(w', frame)
<1> TAKE frame \in Frames
<1>1. w.writeOffset \in Offsets /\ EndOf(frame) \in Nat
  BY TransferAssumption DEF IInv, WriterInv, Writers, Frames, Offsets, EndOf
<1> QED
  BY <1>1, TransferAssumption DEF SentFrame, WriterStep, Offsets

\* The reader does not see a step of the writer.
LEMMA WriterStepKeeps ==
    ASSUME IInv, WriterStep
    PROVE  SorterInv' /\ ArrivedInv' /\ ReaderInv'
<1>1. SorterInv'
  BY DEF IInv, SorterInv, WriterStep
<1>2. w.writeOffset \in Offsets
  BY DEF IInv, WriterInv, Writers
<1>3. ArrivedInv'
  <2>1. got' \subseteq 0 .. w'.writeOffset - 1
    BY <1>2, TransferAssumption DEF IInv, ArrivedInv, WriterStep, Offsets
  <2>2. ASSUME NEW o \in DOMAIN q.queuedFrames
        PROVE  LET frame == q.queuedFrames[o]
               IN  /\ EndOf(frame) <= w'.writeOffset
                   /\ frame.Len = 0 => frame.FinBit /\ w'.finSent /\ o = w'.writeOffset
                   /\ LateClose /\ frame.FinBit => w'.finSent /\ frame.Len = 0 /\ o = w'.writeOffset
    <3> DEFINE frame == q.queuedFrames[o]
    <3>1. frame \in Frames
      BY DEF IInv, SorterInv, Sound
    <3>2. /\ EndOf(frame) <= w.writeOffset
          /\ frame.Len = 0 => frame.FinBit /\ w.finSent /\ o = w.writeOffset
          /\ LateClose /\ frame.FinBit => w.finSent /\ frame.Len = 0 /\ o = w.writeOffset
      BY DEF IInv, ArrivedInv
    <3> HIDE DEF frame
    <3>3. EndOf(frame) \in Nat
      BY <3>1 DEF Frames, Offsets, EndOf
    <3>4. EndOf(frame) <= w'.writeOffset
      BY <1>2, <3>2, <3>3, TransferAssumption DEF WriterStep, Offsets
    <3> QED
      BY <3>2, <3>4 DEF WriterStep, frame
  <2> QED
    BY <2>1, <2>2 DEF WriterStep, ArrivedInv
<1>4. ReaderInv'
  BY DEF IInv, ReaderInv, WriterStep, HasHead, HeadFrame
<1> QED
  BY <1>1, <1>3, <1>4

\* The fields of the writer.
LEMMA WriterFields ==
    ASSUME IInv
    PROVE  /\ w.written \in Offsets /\ w.writeOffset \in Offsets /\ w.finishedWriting \in BOOLEAN
           /\ w.finSent \in BOOLEAN /\ w.retransmissionQueue \in Seq(Frames)
           /\ w.written \in Nat /\ w.writeOffset \in Nat /\ w.writeOffset <= w.written
           /\ w.finSent => w.finishedWriting /\ w.written = w.writeOffset
           /\ LateClose /\ w.finishedWriting => w.written = w.writeOffset
           /\ \A i \in DOMAIN w.retransmissionQueue :
                 w.retransmissionQueue[i] \in Frames /\ SentFrame(w, w.retransmissionQueue[i])
           /\ \A frame \in wire : frame \in Frames /\ SentFrame(w, frame)
BY TransferAssumption DEF IInv, WriterInv, Writers, Offsets

\* Write: no frame is touched, and the stream is not closed.
LEMMA WriteKeeps == ASSUME IInv, NEW n \in 1 .. StreamLength, Write(n) PROVE IInv'
<1>1. /\ ~ w.finishedWriting /\ w.written = w.writeOffset
      /\ UNCHANGED <<wire, tracked, losses, q, r, got, err>>
  BY DEF Write
<1>2. ~ w.finSent
  BY <1>1, WriterFields
<1>3. /\ w'.written = w.written + n /\ w'.writeOffset = w.writeOffset
      /\ w'.finishedWriting = w.finishedWriting /\ w'.finSent = w.finSent
      /\ w'.retransmissionQueue = w.retransmissionQueue
      /\ w' \in Writers
  <2>1. w.written + n \in Offsets
    BY WriterFields, TransferAssumption DEF Write, Offsets
  <2> QED
    BY <2>1 DEF Write, IInv, WriterInv, Writers
<1>4. WriterStep
  BY <1>1, <1>2, <1>3, WriterFields DEF WriterStep
<1>5. w'.writeOffset <= w'.written
  BY <1>1, <1>3, WriterFields
<1>6. WriterInv'
  BY <1>1, <1>2, <1>3, <1>4, <1>5, SentStays, WriterFields DEF WriterInv, IInv
<1> QED
  BY <1>4, <1>6, WriterStepKeeps DEF IInv

\* The writer after Close.
LEMMA WriterClosed ==
    \A v \in Writers : \A u : u = [v EXCEPT !.finishedWriting = TRUE] =>
       /\ u \in Writers /\ u.finishedWriting = TRUE
       /\ u.written = v.written /\ u.writeOffset = v.writeOffset
       /\ u.finSent = v.finSent /\ u.retransmissionQueue = v.retransmissionQueue
<1> SUFFICES ASSUME NEW v \in Writers, NEW u, u = [v EXCEPT !.finishedWriting = TRUE]
             PROVE  /\ u \in Writers /\ u.finishedWriting = TRUE
                    /\ u.written = v.written /\ u.writeOffset = v.writeOffset
                    /\ u.finSent = v.finSent /\ u.retransmissionQueue = v.retransmissionQueue
  BY Zenon
<1>1. u \in Writers
  BY Zenon DEF Writers
<1>2. u.finishedWriting = TRUE
  BY ONLY v \in Writers, u = [v EXCEPT !.finishedWriting = TRUE] DEF Writers
<1>3. /\ u.written = v.written /\ u.writeOffset = v.writeOffset
      /\ u.finSent = v.finSent /\ u.retransmissionQueue = v.retransmissionQueue
  BY ONLY v \in Writers, u = [v EXCEPT !.finishedWriting = TRUE] DEF Writers
<1> QED
  BY <1>1, <1>2, <1>3

\* Close: under LateClose the written bytes are packed.
LEMMA CloseKeeps == ASSUME IInv, Close PROVE IInv'
<1>1. /\ LateClose => w.written = w.writeOffset
      /\ UNCHANGED <<wire, tracked, losses, q, r, got, err>>
  BY DEF Close
<1>2. /\ w'.written = w.written /\ w'.writeOffset = w.writeOffset
      /\ w'.finishedWriting = TRUE /\ w'.finSent = w.finSent
      /\ w'.retransmissionQueue = w.retransmissionQueue
      /\ w' \in Writers
  <2>1. w \in Writers /\ w' = [w EXCEPT !.finishedWriting = TRUE]
    BY DEF Close, IInv, WriterInv
  <2> QED
    BY <2>1, WriterClosed, Zenon
<1>3. WriterStep
  BY <1>1, <1>2, WriterFields DEF WriterStep
<1>4. WriterInv'
  BY <1>1, <1>2, <1>3, SentStays, WriterFields DEF WriterInv, IInv
<1> QED
  BY <1>3, <1>4, WriterStepKeeps DEF IInv

(***************************************************************************)
(* A new frame ends at the new write offset, and only the last has the     *)
(* FIN.                                                                    *)
(***************************************************************************)
LEMMA PopNormalFrameKeeps == ASSUME IInv, NEW n \in 1 .. StreamLength, PopNormalFrame(n) PROVE IInv'
<1> DEFINE left == w.written - w.writeOffset
           len == IF n < left THEN n ELSE left
           fin == shouldSendFin(w, left - len)
           frame == Frame(w.writeOffset, len, fin)
<1>1. /\ len > 0 \/ fin
      /\ wire' = wire \cup {frame} /\ tracked' = tracked \cup {frame}
      /\ w' = [w EXCEPT !.writeOffset = @ + len, !.finSent = @ \/ fin]
      /\ UNCHANGED <<losses, q, r, got, err>>
  BY DEF PopNormalFrame, SendFrame
<1>2. left \in Nat /\ n \in Nat /\ len \in Nat /\ len <= left /\ w.writeOffset + len <= w.written
  BY WriterFields, TransferAssumption
<1>3. fin \in BOOLEAN /\ (fin <=> w.finishedWriting /\ ~ w.finSent /\ left - len = 0)
  BY DEF shouldSendFin
<1> HIDE DEF fin
<1>4. /\ w'.written = w.written /\ w'.writeOffset = w.writeOffset + len
      /\ w'.finishedWriting = w.finishedWriting /\ w'.finSent = (w.finSent \/ fin)
      /\ w'.retransmissionQueue = w.retransmissionQueue
      /\ w' \in Writers
  <2> HIDE DEF len
  <2>1. w.writeOffset + len \in Offsets
    BY <1>2, WriterFields, TransferAssumption DEF Offsets
  <2>2. (w.finSent \/ fin) \in BOOLEAN
    OBVIOUS
  <2>3. w \in Writers
    BY DEF IInv, WriterInv
  <2> DEFINE x == w.writeOffset + len
             y == w.finSent \/ fin
  <2>4. w' = [w EXCEPT !.writeOffset = x, !.finSent = y] /\ x \in Offsets /\ y \in BOOLEAN
    BY <1>1, <2>1, <2>2
  <2> HIDE DEF x, y
  <2>5. /\ w'.written = w.written /\ w'.writeOffset = x
        /\ w'.finishedWriting = w.finishedWriting /\ w'.finSent = y
        /\ w'.retransmissionQueue = w.retransmissionQueue
        /\ w' \in Writers
    <3> DEFINE u == w'
    <3>1. u = [w EXCEPT !.writeOffset = x, !.finSent = y]
      BY <2>4
    <3> HIDE DEF u
    <3>2. u \in Writers
      BY <2>3, <2>4, <3>1, ZenonT(30) DEF Writers
    <3>3. u.finSent = y
      BY ONLY <2>3, <2>4, <3>1 DEF Writers
    <3>4. /\ u.writeOffset = x /\ u.written = w.written /\ u.finishedWriting = w.finishedWriting
          /\ u.retransmissionQueue = w.retransmissionQueue
      BY ONLY <2>3, <2>4, <3>1 DEF Writers
    <3> QED
      BY <3>2, <3>3, <3>4 DEF u
  <2> QED
    BY <2>5 DEF x, y
<1>5. ~ w.finSent
  <2>1. w.finSent => left = 0
    BY WriterFields
  <2> QED
    BY <1>1, <1>2, <1>3, <2>1
<1>6. frame.Offset = w.writeOffset /\ frame.Len = len /\ frame.FinBit = fin /\ EndOf(frame) = w.writeOffset + len
  BY DEF Frame, EndOf
<1>7. frame \in Frames
  <2>1. len \in Offsets
    BY <1>2, WriterFields, TransferAssumption DEF Offsets
  <2> QED
    BY <1>3, <2>1, WriterFields DEF Frame, Frames
<1> HIDE DEF frame
<1>8. SentFrame(w', frame)
  <2>1. LateClose /\ fin => len = 0
    BY <1>2, <1>3, WriterFields
  <2> HIDE DEF len, left
  <2> QED
    <3>1. EndOf(frame) = w'.writeOffset /\ w'.writeOffset \in Nat
      BY <1>2, <1>4, <1>6, WriterFields
    <3>2. frame.Len = 0 => frame.FinBit
      BY <1>1, <1>6
    <3>3. frame.FinBit => w'.finSent
      BY <1>4, <1>6, Zenon
    <3>4. LateClose /\ frame.FinBit => frame.Len = 0
      BY <1>6, <2>1
    <3> QED
      BY <3>1, <3>2, <3>3, <3>4 DEF SentFrame
<1>9. WriterStep
  <2>1. w'.writeOffset \in Offsets
    BY <1>4 DEF Writers
  <2>2. w.writeOffset <= w'.writeOffset
    BY <1>2, <1>4, WriterFields
  <2> QED
    BY <1>1, <1>5, <2>1, <2>2 DEF WriterStep
<1>10. WriterInv'
  <2>1. w'.writeOffset <= w'.written
    BY <1>2, <1>4
  <2>2. w'.finSent => w'.finishedWriting /\ w'.written = w'.writeOffset
    BY <1>2, <1>3, <1>4, <1>5, WriterFields
  <2>3. LateClose /\ w'.finishedWriting => w'.written = w'.writeOffset
    BY <1>2, <1>4, WriterFields
  <2>4. wire' \subseteq Frames /\ tracked' \subseteq wire'
    BY <1>1, <1>7 DEF IInv, WriterInv
  <2>5. \A f \in wire' : SentFrame(w', f)
    BY <1>1, <1>8, <1>9, SentStays, WriterFields
  <2>6. \A i \in DOMAIN w'.retransmissionQueue : SentFrame(w', w'.retransmissionQueue[i])
    BY <1>4, <1>9, SentStays, WriterFields
  <2> QED
    BY <1>4, <2>1, <2>2, <2>3, <2>4, <2>5, <2>6 DEF WriterInv
<1> QED
  BY <1>9, <1>10, WriterStepKeeps DEF IInv

\* A frame that was sent goes to the end of the retransmission queue.
LEMMA AddKeeps == ASSUME IInv, NEW frame \in tracked, AddFrameForRetransmission(frame) PROVE IInv'
<1> DEFINE queue == w.retransmissionQueue
<1>1. frame \in wire /\ frame \in Frames /\ SentFrame(w, frame)
  BY WriterFields DEF IInv, WriterInv
<1>2. UNCHANGED <<wire, q, r, got, err>> /\ tracked' \subseteq tracked
  BY DEF AddFrameForRetransmission
<1>3. /\ w'.written = w.written /\ w'.writeOffset = w.writeOffset
      /\ w'.finishedWriting = w.finishedWriting /\ w'.finSent = w.finSent
      /\ w'.retransmissionQueue = Append(queue, frame)
      /\ w' \in Writers
  <2>1. Append(queue, frame) \in Seq(Frames)
    BY <1>1, WriterFields
  <2> QED
    <3> DEFINE new == Append(queue, frame)
    <3>1. w \in Writers /\ w' = [w EXCEPT !.retransmissionQueue = new] /\ new \in Seq(Frames)
      BY <2>1 DEF AddFrameForRetransmission, IInv, WriterInv
    <3> HIDE DEF new
    <3>2. /\ w'.written = w.written /\ w'.writeOffset = w.writeOffset
          /\ w'.finishedWriting = w.finishedWriting /\ w'.finSent = w.finSent
          /\ w'.retransmissionQueue = new
          /\ w' \in Writers
      BY <3>1 DEF Writers
    <3> QED
      BY <3>2 DEF new
<1>4. \A i \in DOMAIN Append(queue, frame) :
         Append(queue, frame)[i] = frame \/ (i \in DOMAIN queue /\ Append(queue, frame)[i] = queue[i])
  BY WriterFields
<1>5. WriterStep
  BY <1>2, <1>3, WriterFields DEF WriterStep
<1>6. \A i \in DOMAIN w'.retransmissionQueue : SentFrame(w', w'.retransmissionQueue[i])
  BY <1>1, <1>3, <1>4, <1>5, SentStays, WriterFields
<1>7. WriterInv'
  <2>1. \A f \in wire' : SentFrame(w', f)
    BY <1>2, <1>5, SentStays, WriterFields
  <2> QED
    BY <1>2, <1>3, <1>6, <2>1, WriterFields DEF WriterInv, IInv
<1> QED
  BY <1>5, <1>7, WriterStepKeeps DEF IInv

\* A frame that is cut in two leaves its end, and the FIN, in the queue.
LEMMA PopRetransmissionKeeps ==
    ASSUME IInv, NEW n \in 1 .. StreamLength, PopRetransmission(n) PROVE IInv'
<1> DEFINE queue == w.retransmissionQueue
           frame == Head(queue)
           split == n < frame.Len
           sent == IF split THEN SplitHead(frame, n) ELSE frame
           rest == IF split THEN <<CutFront(frame, n)>> ELSE <<>>
<1>1. /\ queue # <<>>
      /\ wire' = wire \cup {sent} /\ tracked' = tracked \cup {sent}
      /\ w' = [w EXCEPT !.retransmissionQueue = rest \o Tail(@)]
      /\ UNCHANGED <<losses, q, r, got, err>>
  BY DEF PopRetransmission, SendFrame
<1>2. queue \in Seq(Frames) /\ frame = queue[1] /\ 1 \in DOMAIN queue
  BY <1>1, WriterFields
<1>3. frame \in Frames /\ SentFrame(w, frame)
  BY <1>2, WriterFields
<1> HIDE DEF frame
<1>4. frame.Offset \in Nat /\ frame.Len \in Nat /\ n \in Nat /\ n > 0 /\ EndOf(frame) = frame.Offset + frame.Len
      /\ frame.FinBit \in BOOLEAN /\ frame.Offset + frame.Len <= StreamLength
  BY <1>3, WriterFields, TransferAssumption DEF Frames, Offsets, EndOf, SentFrame
<1>5. sent \in Frames /\ SentFrame(w, sent)
  <2>1. CASE split
    <3>1. sent = [Offset |-> frame.Offset, Len |-> n, FinBit |-> FALSE]
      BY <2>1 DEF SplitHead, Frame
    <3>2. frame.Offset + n <= w.writeOffset
      BY <1>3, <1>4, <2>1, WriterFields DEF SentFrame
    <3> HIDE DEF sent
    <3> QED
      BY <1>4, <2>1, <3>1, <3>2, TransferAssumption DEF Frames, Offsets, SentFrame, EndOf
  <2>2. CASE ~ split
    BY <1>3, <2>2
  <2> QED
    BY <2>1, <2>2
<1>6. /\ rest \in Seq(Frames)
      /\ \A i \in DOMAIN rest : SentFrame(w, rest[i])
  <2>1. CASE split
    <3> DEFINE cf == CutFront(frame, n)
    <3>1. cf = [Offset |-> frame.Offset + n, Len |-> frame.Len - n, FinBit |-> frame.FinBit]
      BY DEF CutFront, Frame
    <3> HIDE DEF cf
    <3>2. cf \in Frames
      BY <1>4, <2>1, <3>1, TransferAssumption DEF Frames, Offsets
    <3>3. EndOf(cf) = EndOf(frame) /\ cf.Len > 0 /\ cf.FinBit = frame.FinBit /\ frame.Len # 0
      BY <1>4, <2>1, <3>1 DEF EndOf
    <3>4. SentFrame(w, cf)
      BY <1>3, <3>3 DEF SentFrame
    <3>5. rest = <<cf>>
      BY <2>1 DEF cf
    <3> HIDE DEF rest
    <3> QED
      BY <3>2, <3>4, <3>5
  <2>2. CASE ~ split
    BY <2>2
  <2> QED
    BY <2>1, <2>2
<1> HIDE DEF sent, rest, split
<1> DEFINE tail == Tail(queue)
           new == rest \o tail
<1>7. /\ tail \in Seq(Frames) /\ new \in Seq(Frames)
      /\ \A i \in DOMAIN tail : i + 1 \in DOMAIN queue /\ tail[i] = queue[i + 1]
  BY <1>1, <1>2, <1>6
<1>8. \A i \in DOMAIN tail : SentFrame(w, tail[i])
  BY <1>7, WriterFields
<1> HIDE DEF tail
<1>9. \A i \in DOMAIN new : SentFrame(w, new[i])
  <2> TAKE i \in DOMAIN new
  <2>1. \/ i \in DOMAIN rest /\ new[i] = rest[i]
        \/ i - Len(rest) \in DOMAIN tail /\ new[i] = tail[i - Len(rest)]
    BY <1>6, <1>7
  <2> QED
    BY <1>6, <1>8, <2>1
<1>10. \A i \in DOMAIN new : new[i] \in Frames
  BY <1>7
<1> HIDE DEF new
<1>11. /\ w'.written = w.written /\ w'.writeOffset = w.writeOffset
       /\ w'.finishedWriting = w.finishedWriting /\ w'.finSent = w.finSent
       /\ w'.retransmissionQueue = new
       /\ w' \in Writers
  <2>1. w' = [w EXCEPT !.retransmissionQueue = new]
    BY <1>1 DEF new, tail
  <2>2. w \in Writers
    BY DEF IInv, WriterInv
  <2> QED
    BY <1>7, <2>1, <2>2 DEF Writers
<1>12. WriterStep
  BY <1>1, <1>11, WriterFields DEF WriterStep
<1>13. WriterInv'
  <2>1. wire' \subseteq Frames /\ tracked' \subseteq wire'
    BY <1>1, <1>5 DEF IInv, WriterInv
  <2>2. \A f \in wire' : SentFrame(w', f)
    <3>1. \A f \in wire' : f \in Frames /\ SentFrame(w, f)
      BY <1>1, <1>5, WriterFields
    <3> QED
      BY <1>12, <3>1, SentStays
  <2>3. \A i \in DOMAIN w'.retransmissionQueue : SentFrame(w', w'.retransmissionQueue[i])
    BY <1>9, <1>10, <1>11, <1>12, SentStays
  <2> QED
    BY <1>11, <2>1, <2>2, <2>3, WriterFields DEF WriterInv
<1> QED
  BY <1>12, <1>13, WriterStepKeeps DEF IInv

--------------------------------------------------------------------------
\* The sorter's fields, and the bytes of a queued frame.
LEMMA SorterFields ==
    ASSUME IInv
    PROVE  /\ Sound(q, got) /\ q.readPosition \in Nat /\ q.readPosition \in Offsets
           /\ \A o \in DOMAIN q.queuedFrames :
                 LET frame == q.queuedFrames[o]
                 IN  /\ frame \in Frames /\ frame.Offset = o /\ o \in Nat /\ frame.Len \in Nat
                     /\ EndOf(frame) = o + frame.Len /\ EndOf(frame) <= w.writeOffset
                     /\ \A b \in Nat : o <= b /\ b < o + frame.Len => b \in got
                     /\ frame.Len = 0 => frame.FinBit /\ w.finSent /\ o = w.writeOffset
                     /\ LateClose /\ frame.FinBit => w.finSent /\ frame.Len = 0 /\ o = w.writeOffset
<1>1. Sound(q, got) /\ q.readPosition \in Nat /\ q.readPosition \in Offsets
  BY DEF IInv, SorterInv, Sound, Offsets
<1>2. ASSUME NEW o \in DOMAIN q.queuedFrames
      PROVE  LET frame == q.queuedFrames[o]
             IN  /\ frame \in Frames /\ frame.Offset = o /\ o \in Nat /\ frame.Len \in Nat
                 /\ EndOf(frame) = o + frame.Len /\ EndOf(frame) <= w.writeOffset
                 /\ \A b \in Nat : o <= b /\ b < o + frame.Len => b \in got
                 /\ frame.Len = 0 => frame.FinBit /\ w.finSent /\ o = w.writeOffset
                 /\ LateClose /\ frame.FinBit => w.finSent /\ frame.Len = 0 /\ o = w.writeOffset
  <2> DEFINE frame == q.queuedFrames[o]
  <2>1. frame \in Frames /\ frame.Offset = o /\ Bytes(frame) \subseteq got
    BY <1>1 DEF Sound
  <2>2. /\ EndOf(frame) <= w.writeOffset
        /\ frame.Len = 0 => frame.FinBit /\ w.finSent /\ o = w.writeOffset
        /\ LateClose /\ frame.FinBit => w.finSent /\ frame.Len = 0 /\ o = w.writeOffset
    BY DEF IInv, ArrivedInv
  <2> HIDE DEF frame
  <2>3. o \in Nat /\ frame.Len \in Nat /\ EndOf(frame) = o + frame.Len
    BY <2>1 DEF Frames, Offsets, EndOf
  <2>4. \A b \in Nat : o <= b /\ b < o + frame.Len => b \in got
    BY <2>1, <2>3 DEF Bytes
  <2> QED
    BY <2>1, <2>2, <2>3, <2>4 DEF frame
<1> QED
  BY <1>1, <1>2

\* Push of a frame that was sent; an open session has a live set.
LEMMA ReceiveKeeps == ASSUME IInv, NEW frame \in wire, Receive(frame) PROVE IInv'
<1> DEFINE res == Push(q, frame)
           have2 == got \cup Bytes(frame)
<1>1. /\ err = "ok" /\ got' = have2 /\ q' = res.sorter
      /\ err' = IF res.err = "DuplicateStreamData" THEN "ok" ELSE res.err
      /\ UNCHANGED <<w, wire, tracked, losses, r>>
  BY DEF Receive, Arrives
<1>2. PICK S \in SUBSET DOMAIN q.queuedFrames : Live(q, got, S)
  BY <1>1 DEF IInv, SorterInv
<1>3. frame \in Frames /\ SentFrame(w, frame) /\ w.writeOffset \in Nat /\ w.writeOffset \in Offsets
  BY WriterFields, Zenon
<1>4. EndOf(frame) \in Offsets /\ EndOf(frame) \in Nat /\ frame.Offset \in Nat /\ frame.Len \in Nat
      /\ EndOf(frame) = frame.Offset + frame.Len
  BY <1>3, TransferAssumption DEF SentFrame, Frames, Offsets, EndOf
<1>sent. /\ EndOf(frame) <= w.writeOffset
         /\ frame.Len = 0 => frame.FinBit /\ w.finSent /\ frame.Offset = w.writeOffset
         /\ LateClose /\ frame.FinBit => frame.Len = 0
  BY <1>3, <1>4 DEF SentFrame
<1>old. got \subseteq 0 .. w.writeOffset - 1
  BY Zenon DEF IInv, ArrivedInv
<1>5. Pushed(q, frame, have2, res)
  <2>1. got \in SUBSET (0 .. StreamLength - 1)
    BY <1>3, <1>old, TransferAssumption DEF Offsets
  <2>2. \A o \in DOMAIN q.queuedFrames :
           q.queuedFrames[o].Len = 0 => EndOf(frame) <= o /\ q.queuedFrames[o].FinBit
    <3> TAKE o \in DOMAIN q.queuedFrames
    <3>1. q.queuedFrames[o].Len = 0 => q.queuedFrames[o].FinBit /\ o = w.writeOffset
      BY SorterFields, Zenon
    <3> QED
      BY <1>sent, <3>1, ZenonT(30)
  <2>3. frame.Len = 0 => \A b \in got : b < frame.Offset
    BY <1>3, <1>sent, <1>old
  <2>4. frame.Len = 0 => frame.FinBit
    BY <1>sent
  <2>5. Sound(q, got) /\ Exact(q, got)
    BY <1>1 DEF IInv, SorterInv
  <2> HIDE DEF res
  <2> QED
    BY <1>2, <1>3, <1>4, <2>1, <2>2, <2>3, <2>4, <2>5, PushKeeps, ZenonT(30) DEF res
<1> HIDE DEF res, have2
<1>6. /\ Sound(q', got') /\ Exact(q', got') /\ q'.readPosition = q.readPosition
      /\ HasHead(q) => HasHead(q') /\ HeadFrame(q') = HeadFrame(q)
  BY <1>1, <1>5, Zenon DEF Pushed, HasHead, HeadFrame
<1>7. SorterInv'
  <2>1. ASSUME err' = "ok" PROVE \E S2 \in SUBSET DOMAIN q'.queuedFrames : Live(q', got', S2)
    BY <1>1, <1>5, <2>1, ZenonT(30) DEF Pushed
  <2> QED
    BY <1>6, <2>1 DEF SorterInv
<1>8. ArrivedInv'
  <2>1. got' \subseteq 0 .. w'.writeOffset - 1
    <3>1. Bytes(frame) \subseteq 0 .. w.writeOffset - 1
      BY <1>3, <1>4, <1>sent DEF Bytes
    <3> QED
      <4>1. got \subseteq 0 .. w.writeOffset - 1
        BY <1>old
      <4> QED
        <5> DEFINE I == 0 .. w.writeOffset - 1
        <5>1. got \subseteq I /\ Bytes(frame) \subseteq I /\ got' = got \cup Bytes(frame)
          BY <1>1, <3>1, <4>1 DEF have2
        <5>2. I = 0 .. w'.writeOffset - 1
          BY <1>1
        <5> HIDE DEF I
        <5>3. got' \subseteq I
          BY <5>1
        <5> QED
          BY <5>2, <5>3, Zenon
  <2>2. ASSUME NEW o \in DOMAIN q'.queuedFrames
        PROVE  LET f == q'.queuedFrames[o]
               IN  /\ EndOf(f) <= w.writeOffset
                   /\ f.Len = 0 => f.FinBit /\ w.finSent /\ o = w.writeOffset
                   /\ LateClose /\ f.FinBit => w.finSent /\ f.Len = 0 /\ o = w.writeOffset
    <3> DEFINE f == q'.queuedFrames[o]
    <3>1. CASE o \in DOMAIN q.queuedFrames /\ f = q.queuedFrames[o]
      BY <3>1, SorterFields
    <3>2. CASE frame.Offset <= o /\ EndOf(f) <= EndOf(frame) /\ (f.Len = 0 => frame.Len = 0) /\ f.FinBit = frame.FinBit
      <4>1. f \in Frames /\ f.Offset = o
        BY <1>6 DEF Sound
      <4> HIDE DEF f
      <4>2. o \in Nat /\ f.Len \in Nat /\ EndOf(f) = o + f.Len
        BY <4>1 DEF Frames, Offsets, EndOf
      <4>3. EndOf(f) <= w.writeOffset
        BY <1>3, <1>4, <1>sent, <3>2, <4>2
      <4>4. frame.Len = 0 => f.FinBit /\ w.finSent /\ f.Len = 0 /\ o = w.writeOffset
        BY <1>3, <1>4, <1>sent, <3>2, <4>2
      <4>5. LateClose /\ f.FinBit => frame.Len = 0
        BY <1>sent, <3>2
      <4> QED
        BY <3>2, <4>3, <4>4, <4>5, ZenonT(30) DEF f
    <3> QED
      BY <1>1, <1>5, <3>1, <3>2, ZenonT(30) DEF Pushed
  <2> QED
    BY <1>1, <2>1, <2>2 DEF ArrivedInv
<1>9. ReaderInv'
  <2>1. ReaderInv
    BY DEF IInv
  <2>2. CASE HasHead(q)
    BY <1>1, <1>6, <2>1, <2>2, ZenonT(30) DEF ReaderInv
  <2>3. CASE ~ HasHead(q)
    <3>1. r.readOffset = q.readPosition /\ ~ r.consumed
      BY <2>1, <2>3 DEF ReaderInv
    <3>2. HasHead(q') => q.readPosition \in Nat /\ EndOf(HeadFrame(q')) \in Nat /\ q.readPosition <= EndOf(HeadFrame(q'))
      <4>1. SUFFICES ASSUME HasHead(q') PROVE q.readPosition \in Nat /\ EndOf(HeadFrame(q')) \in Nat /\ q.readPosition <= EndOf(HeadFrame(q'))
        OBVIOUS
      <4> DEFINE f == HeadFrame(q')
      <4>2. f \in Frames /\ f.Offset = q.readPosition
        BY <1>6, <4>1 DEF Sound, HasHead, HeadFrame
      <4> HIDE DEF f
      <4> DEFINE p == q.readPosition
      <4>p. p \in Nat /\ f.Offset = p
        BY <4>2, SorterFields, Zenon
      <4> HIDE DEF p
      <4>f. f.Len \in Nat
        BY <4>2 DEF Frames, Offsets
      <4>3. q.readPosition \in Nat /\ EndOf(f) \in Nat /\ q.readPosition <= EndOf(f)
        <5>1. p \in Nat /\ EndOf(f) \in Nat /\ p <= EndOf(f)
          BY <4>p, <4>f DEF EndOf
        <5> QED
          BY <5>1 DEF p
      <4> QED
        BY <4>3 DEF f
    <3> QED
      <4>1. r \in Readers /\ (LateClose /\ r.finishedReading => w.finSent /\ r.readOffset = w.writeOffset)
        BY <2>1, Zenon DEF ReaderInv
      <4>2. r' = r /\ w' = w /\ q'.readPosition = q.readPosition
        BY <1>1, <1>6, Zenon
      <4> DEFINE e == EndOf(HeadFrame(q'))
                 p == q.readPosition
      <4>3. HasHead(q') => p \in p .. e
        <5>1. HasHead(q') => p \in Nat /\ e \in Nat /\ p <= e
          BY <3>2, Zenon
        <5> HIDE DEF e, p
        <5> QED
          BY <5>1
      <4>4. HasHead(q') => r'.readOffset \in q'.readPosition .. EndOf(HeadFrame(q'))
        BY <3>1, <4>2, <4>3, ZenonT(30)
      <4> QED
        BY <3>1, <4>1, <4>2, <4>4, ZenonT(30) DEF ReaderInv
  <2> QED
    BY <2>2, <2>3
<1>10. WriterInv'
  BY <1>1 DEF IInv, WriterInv
<1> QED
  BY <1>7, <1>8, <1>9, <1>10 DEF IInv

\* The head frame reaches the read offset.
LEMMA HeadFields ==
    ASSUME IInv, HasHead(q)
    PROVE  /\ HeadFrame(q) \in Frames /\ HeadFrame(q).Len \in Nat
           /\ EndOf(HeadFrame(q)) = q.readPosition + HeadFrame(q).Len /\ EndOf(HeadFrame(q)) \in Nat
           /\ r.readOffset \in Nat /\ q.readPosition \in Nat
           /\ q.readPosition <= r.readOffset /\ r.readOffset <= EndOf(HeadFrame(q))
           /\ EndOf(HeadFrame(q)) <= w.writeOffset
           /\ LateClose /\ HeadFrame(q).FinBit =>
                 w.finSent /\ HeadFrame(q).Len = 0 /\ q.readPosition = w.writeOffset
<1> DEFINE frame == q.queuedFrames[q.readPosition]
           pos == q.readPosition
<1>1. /\ frame \in Frames /\ pos \in Nat /\ frame.Len \in Nat
      /\ EndOf(frame) = pos + frame.Len /\ EndOf(frame) <= w.writeOffset
      /\ LateClose /\ frame.FinBit => w.finSent /\ frame.Len = 0 /\ pos = w.writeOffset
  BY SorterFields DEF HasHead
<1>2. HeadFrame(q) = frame
  BY DEF HeadFrame
<1>3. r.readOffset \in Offsets /\ r.readOffset \in pos .. EndOf(frame)
  BY <1>2 DEF IInv, ReaderInv, Readers
<1> HIDE DEF frame, pos
<1> QED
  BY <1>1, <1>2, <1>3 DEF pos, Offsets

\* Read stays within the head frame.
LEMMA ReadKeeps == ASSUME IInv, NEW n \in 0 .. StreamLength, Read(n) PROVE IInv'
<1> DEFINE frame == HeadFrame(q)
           left == EndOf(frame) - r.readOffset
<1>1. /\ ~ r.finishedReading /\ ~ r.consumed /\ HasHead(q) /\ n \in 0 .. left
      /\ r' = [r EXCEPT !.readOffset = @ + n, !.consumed = (n = left), !.frame = frame]
      /\ UNCHANGED <<w, wire, tracked, losses, q, got, err>>
  BY DEF Read
<1>2. /\ frame \in Frames /\ EndOf(frame) \in Nat /\ r.readOffset \in Nat /\ q.readPosition \in Nat
      /\ q.readPosition <= r.readOffset /\ r.readOffset <= EndOf(frame) /\ EndOf(frame) <= w.writeOffset
  BY <1>1, HeadFields
<1>3. r.readOffset + n \in Offsets /\ r.readOffset + n <= EndOf(frame)
  BY <1>1, <1>2, WriterFields, TransferAssumption DEF Offsets
<1>4. /\ r'.readOffset = r.readOffset + n /\ r'.finishedReading = r.finishedReading
      /\ r'.consumed = (n = left) /\ r'.frame = frame
      /\ r' \in Readers
  <2> DEFINE u == r'
             x == r.readOffset + n
             y == n = left
  <2>1. u = [r EXCEPT !.readOffset = x, !.consumed = y, !.frame = frame]
    BY <1>1
  <2>2. r \in Readers /\ x \in Offsets /\ y \in BOOLEAN /\ frame \in Frames
    BY <1>2, <1>3 DEF IInv, ReaderInv
  <2> HIDE DEF u, x, y, frame
  <2>3. u \in Readers
    BY <2>1, <2>2, ZenonT(30) DEF Readers
  <2>4. u.consumed = y
    BY ONLY <2>1, <2>2 DEF Readers
  <2>5. u.readOffset = x /\ u.finishedReading = r.finishedReading /\ u.frame = frame
    BY ONLY <2>1, <2>2 DEF Readers
  <2> QED
    BY <2>3, <2>4, <2>5 DEF u, x, y
<1>5. WriterInv' /\ SorterInv' /\ ArrivedInv'
  BY <1>1 DEF IInv, WriterInv, SorterInv, ArrivedInv
<1>6. ReaderInv'
  <2>1. HasHead(q') /\ HeadFrame(q') = frame /\ q'.readPosition = q.readPosition
    BY <1>1
  <2>2. r'.readOffset \in q'.readPosition .. EndOf(frame)
    BY <1>1, <1>2, <1>3, <1>4, <2>1
  <2>3. r'.consumed => r'.readOffset = EndOf(frame)
    <3>1. r'.consumed => n = left
      BY <1>4, Zenon
    <3>2. n = left => r.readOffset + n = EndOf(frame)
      BY <1>1, <1>2
    <3> QED
      BY <1>4, <3>1, <3>2
  <2>4. ~ r'.finishedReading
    BY <1>1, <1>4
  <2> HIDE DEF frame, left
  <2> QED
    BY <1>4, <2>1, <2>2, <2>3, <2>4 DEF ReaderInv
<1> QED
  BY <1>5, <1>6 DEF IInv

\* PopFrame pops the frame that was read; the next one starts at its end.
LEMMA PopFrameKeeps == ASSUME IInv, PopFrame PROVE IInv'
<1> DEFINE frame == HeadFrame(q)
           pos == q.readPosition
           queued == q.queuedFrames
           pos2 == pos + frame.Len
           queued2 == [o \in DOMAIN queued \ {pos} |-> queued[o]]
<1>1. /\ r.consumed /\ q' = Pop(q)
      /\ r' = [r EXCEPT !.consumed = FALSE, !.finishedReading = r.frame.FinBit, !.frame = NoFrame]
      /\ UNCHANGED <<w, wire, tracked, losses, got, err>>
  BY DEF PopFrame
<1>2. HasHead(q) /\ frame = r.frame /\ r.readOffset = EndOf(frame) /\ ~ r.finishedReading
  BY <1>1 DEF IInv, ReaderInv
<1>3. /\ frame \in Frames /\ frame.Len \in Nat /\ pos \in Nat /\ EndOf(frame) = pos2
      /\ pos2 \in Nat /\ pos2 <= w.writeOffset
      /\ LateClose /\ frame.FinBit => w.finSent /\ frame.Len = 0 /\ pos = w.writeOffset
  BY <1>2, HeadFields
<1>4. q' = Sorter(queued2, pos2, q.gaps)
  BY <1>1, <1>2 DEF Pop
<1>5. q'.queuedFrames = queued2 /\ q'.readPosition = pos2 /\ q'.gaps = q.gaps
  BY <1>4 DEF Sorter
<1>6. DOMAIN queued2 = DOMAIN queued \ {pos} /\ \A o \in DOMAIN queued2 : queued2[o] = queued[o]
  OBVIOUS
<1>7. Sound(q, got)
  BY SorterFields
<1>8. frame = queued[pos] /\ pos \in DOMAIN queued
  BY <1>2 DEF HasHead, HeadFrame
<1>9. \A b \in Nat : b < pos2 => b \in got
  <2>1. \A b \in Nat : pos <= b /\ b < pos2 => b \in got
    BY <1>8, SorterFields
  <2>2. \A b \in Nat : b < pos => b \in got
    BY <1>3, <1>7 DEF Sound
  <2> QED
    BY <1>3, <2>1, <2>2
<1> HIDE DEF queued2, pos2, frame, pos
<1>10. Sound(q', got')
  <2>1. queued2 \in [DOMAIN queued2 -> Frames]
    BY <1>6, SorterFields DEF queued2
  <2>2. pos2 \in Offsets
    BY <1>3, WriterFields, TransferAssumption DEF Offsets
  <2>3. 0 .. pos2 - 1 \subseteq got
    BY <1>3, <1>9
  <2>4. \A o \in DOMAIN queued2 : queued2[o].Offset = o /\ Bytes(queued2[o]) \subseteq got
    BY <1>6, <1>7 DEF Sound
  <2> QED
    BY <1>1, <1>4, <1>5, <1>7, <2>1, <2>2, <2>3, <2>4 DEF Sound
<1>11. ASSUME err = "ok" PROVE Exact(q', got') /\ \E S2 \in SUBSET DOMAIN queued2 : Live(q', got', S2)
  <2>1. Exact(q, got) /\ \E S \in SUBSET DOMAIN queued : Live(q, got, S)
    BY <1>11 DEF IInv, SorterInv
  <2>2. PICK S \in SUBSET DOMAIN queued : Live(q, got, S)
    BY <2>1
  <2>3. Exact(q', got')
    BY <1>1, <1>5, <2>1 DEF Exact
  <2> DEFINE S2 == {o \in S : pos2 <= o}
  <2>4. ASSUME NEW o \in S
        PROVE  /\ queued[o].Len \in Nat /\ queued[o].Len > 0 /\ o \in Nat /\ o \in got
               /\ EndOf(queued[o]) \in Nat /\ o < EndOf(queued[o])
    <3>1. queued[o].Len > 0
      BY <2>2 DEF Live
    <3>2. queued[o].Len \in Nat /\ o \in Nat /\ EndOf(queued[o]) = o + queued[o].Len
          /\ \A b \in Nat : o <= b /\ b < o + queued[o].Len => b \in got
      BY <2>2, SorterFields
    <3> HIDE DEF queued
    <3> QED
      BY <3>1, <3>2
  <2>5. S2 \subseteq DOMAIN queued2 /\ \A o \in S2 : queued2[o] = queued[o] /\ queued[o].Len > 0
    <3>1. pos \notin S2
      <4>1. SUFFICES ASSUME pos \in S, pos2 <= pos PROVE FALSE
        OBVIOUS
      <4>2. frame.Len > 0
        BY <1>8, <2>4, <4>1
      <4> QED
        BY <1>3, <4>1, <4>2 DEF pos2
    <3> QED
      BY <1>6, <2>2, <2>4, <3>1
  <2>6. pos2 \in got => pos2 \in S2
    <3>1. SUFFICES ASSUME pos2 \in got PROVE pos2 \in S
      BY <1>3
    <3>2. CASE frame.Len = 0
      BY <1>3, <2>2, <3>1, <3>2 DEF Live, pos, pos2
    <3>3. CASE frame.Len # 0
      <4>1. pos \in got
        BY <1>3, <1>9, <3>3 DEF pos2
      <4>2. pos \in S
        BY <2>2, <4>1 DEF Live, pos
      <4> QED
        BY <1>3, <1>8, <2>2, <3>1, <4>2 DEF Live
    <3> QED
      BY <3>2, <3>3
  <2>7. ASSUME NEW i \in DOMAIN q.gaps, q.gaps[i].End \in got PROVE q.gaps[i].End \in S2
    <3>1. q.gaps[i] \in GapSet /\ q.gaps[i].Start < q.gaps[i].End
      BY <1>7 DEF Sound, Separate
    <3>2. q.gaps[i].Start \in Nat /\ q.gaps[i].End \in Nat
      BY <3>1, GapNat
    <3>3. InGaps(q.gaps, q.gaps[i].Start)
      BY <3>1, <3>2 DEF InGaps
    <3>4. q.gaps[i].Start \in 0 .. MaxByteCount - 1
      BY <3>1, TransferAssumption DEF GapSet, Offsets
    <3>5. q.gaps[i].Start \notin got
      BY <2>1, <3>3, <3>4 DEF Exact
    <3>6. pos2 <= q.gaps[i].Start
      BY <1>3, <1>9, <3>2, <3>5
    <3>7. q.gaps[i].End \in S
      BY <2>2, <2>7 DEF Live
    <3> QED
      BY <1>3, <3>1, <3>2, <3>6, <3>7
  <2>8. ASSUME NEW o \in S2, EndOf(queued[o]) \in got PROVE EndOf(queued[o]) \in S2
    <3>1. EndOf(queued[o]) \in S
      BY <2>2, <2>8 DEF Live
    <3> QED
      BY <1>3, <2>4, <2>8, <3>1
  <2> HIDE DEF S2
  <2>9. Live(q', got', S2)
    BY <1>1, <1>5, <2>5, <2>6, <2>7, <2>8 DEF Live
  <2> QED
    BY <2>3, <2>5, <2>9
<1>12. SorterInv'
  BY <1>1, <1>5, <1>10, <1>11 DEF SorterInv
<1>13. ArrivedInv'
  BY <1>1, <1>5, <1>6 DEF IInv, ArrivedInv
<1>14. WriterInv'
  BY <1>1 DEF IInv, WriterInv
<1>15. /\ r'.readOffset = r.readOffset /\ r'.finishedReading = r.frame.FinBit
       /\ r'.consumed = FALSE /\ r'.frame = NoFrame
       /\ r' \in Readers
  <2> DEFINE u == r'
             y == r.frame.FinBit
             z == FALSE
  <2>1. u = [r EXCEPT !.consumed = z, !.finishedReading = y, !.frame = NoFrame]
    BY <1>1
  <2>2. r \in Readers /\ y \in BOOLEAN /\ NoFrame \in Frames /\ z \in BOOLEAN
    <3>1. 0 \in Offsets
      BY TransferAssumption DEF Offsets
    <3> QED
      BY <1>2, <1>3, <3>1 DEF IInv, ReaderInv, Frames, NoFrame, Frame
  <2> HIDE DEF u, y, z
  <2>3. u \in Readers
    BY <2>1, <2>2, ZenonT(30) DEF Readers
  <2>4. u.consumed = z
    BY ONLY <2>1, <2>2 DEF Readers
  <2>5. u.finishedReading = y
    BY ONLY <2>1, <2>2 DEF Readers
  <2>6. u.readOffset = r.readOffset /\ u.frame = NoFrame
    BY ONLY <2>1, <2>2 DEF Readers
  <2> QED
    BY <2>3, <2>4, <2>5, <2>6 DEF u, y, z
<1>16. ReaderInv'
  <2>1. r'.readOffset = q'.readPosition
    BY <1>2, <1>3, <1>5, <1>15
  <2>2. HasHead(q') => r'.readOffset \in q'.readPosition .. EndOf(HeadFrame(q'))
    <3>1. SUFFICES ASSUME HasHead(q') PROVE pos2 \in pos2 .. EndOf(HeadFrame(q'))
      BY <1>5, <2>1
    <3> DEFINE f == HeadFrame(q')
    <3>2. f \in Frames /\ f.Offset = pos2
      BY <1>5, <1>10, <3>1 DEF Sound, HasHead, HeadFrame
    <3> HIDE DEF f
    <3>3. pos2 \in pos2 .. EndOf(f)
      BY <1>3, <3>2 DEF Frames, Offsets, EndOf
    <3> QED
      BY <3>3 DEF f
  <2>3. LateClose /\ r'.finishedReading => w'.finSent /\ r'.readOffset = w'.writeOffset
    BY <1>1, <1>2, <1>3, <1>15 DEF pos2
  <2> QED
    BY <1>15, <2>1, <2>2, <2>3 DEF ReaderInv
<1> QED
  BY <1>12, <1>13, <1>14, <1>16 DEF IInv

\* Every step preserves the inductive invariant.
LEMMA NextIInv == IInv /\ [Next]_vars => IInv'
<1> SUFFICES ASSUME IInv, [Next]_vars PROVE IInv'
  OBVIOUS
<1>1. ASSUME NEW n \in 1 .. StreamLength, Write(n) PROVE IInv'
  BY <1>1, WriteKeeps
<1>2. CASE Close
  BY <1>2, CloseKeeps
<1>3. ASSUME NEW n \in 1 .. StreamLength, PopNormalFrame(n) PROVE IInv'
  BY <1>3, PopNormalFrameKeeps
<1>4. ASSUME NEW frame \in tracked, AddFrameForRetransmission(frame) PROVE IInv'
  BY <1>4, AddKeeps
<1>5. ASSUME NEW n \in 1 .. StreamLength, PopRetransmission(n) PROVE IInv'
  BY <1>5, PopRetransmissionKeeps
<1>6. ASSUME NEW frame \in wire, Receive(frame) PROVE IInv'
  BY <1>6, ReceiveKeeps
<1>7. ASSUME NEW n \in 0 .. StreamLength, Read(n) PROVE IInv'
  BY <1>7, ReadKeeps
<1>8. CASE PopFrame
  BY <1>8, PopFrameKeeps
<1>9. CASE UNCHANGED vars
  <2>1. UNCHANGED <<w, wire, tracked, q, r, got, err>>
    BY <1>9 DEF vars
  <2>2. WriterInv'
    BY <2>1 DEF IInv, WriterInv
  <2>3. SorterInv' /\ ArrivedInv' /\ ReaderInv'
    BY <2>1, Zenon DEF IInv, SorterInv, ArrivedInv, ReaderInv
  <2> QED
    BY <2>2, <2>3 DEF IInv
<1> QED
  BY <1>1, <1>2, <1>3, <1>4, <1>5, <1>6, <1>7, <1>8, <1>9 DEF Next

\* The inductive invariant holds in every state.
THEOREM TransferInvariant == Spec => []IInv
BY InitIInv, NextIInv, PTL DEF Spec

(***************************************************************************)
(* The gaps of the sorter are exactly the bytes that did not arrive, for   *)
(* streams of any length, however its frames were cut, repeated and        *)
(* reordered.                                                              *)
(***************************************************************************)
THEOREM GapsAreExact == Spec => []GapsExact
<1>1. IInv => GapsExact
  <2> SUFFICES ASSUME IInv PROVE GapsExact
    OBVIOUS
  <2>1. Sound(q, got)
    BY SorterFields
  <2>2. TypeOK
    <3>1. w.written \in Offsets /\ w.writeOffset \in 0 .. w.written
      BY WriterFields
    <3>2. w.finishedWriting \in BOOLEAN /\ w.finSent \in BOOLEAN /\ w.retransmissionQueue \in Seq(Frames)
      BY WriterFields
    <3>3. wire \subseteq Frames /\ tracked \subseteq Frames
      BY DEF IInv, WriterInv
    <3>4. /\ q.readPosition \in Offsets
          /\ \A o \in DOMAIN q.queuedFrames : q.queuedFrames[o] \in Frames
          /\ q.gaps \in Seq([Start : Offsets, End : Offsets \cup {MaxByteCount}])
      BY <2>1, SorterFields DEF Sound, GapSet
    <3>5. r.readOffset \in Offsets
      BY DEF IInv, ReaderInv, Readers
    <3>6. got \subseteq Offsets
      BY WriterFields, TransferAssumption DEF IInv, ArrivedInv, Offsets
    <3> QED
      BY <3>1, <3>2, <3>3, <3>4, <3>5, <3>6 DEF TypeOK
  <2>3. ASSUME err = "ok", NEW b \in 0 .. MaxByteCount - 1
        PROVE  b \notin got <=> \E i \in DOMAIN q.gaps : b \in q.gaps[i].Start .. q.gaps[i].End - 1
    <3>1. b \notin got <=> InGaps(q.gaps, b)
      BY <2>3 DEF IInv, SorterInv, Exact
    <3>2. \A i \in DOMAIN q.gaps :
             b \in q.gaps[i].Start .. q.gaps[i].End - 1 <=> q.gaps[i].Start <= b /\ b < q.gaps[i].End
      <4> TAKE i \in DOMAIN q.gaps
      <4>1. q.gaps[i].Start \in Nat /\ q.gaps[i].End \in Nat
        BY <2>1, GapNat DEF Sound
      <4> QED
        BY <4>1, TransferAssumption
    <3> QED
      BY <3>1, <3>2 DEF InGaps
  <2> QED
    BY <2>1, <2>2, <2>3 DEF GapsExact, Sound, Separate
<1> QED
  BY <1>1, TransferInvariant, PTL

(***************************************************************************)
(* Read pops the frame it read, reads within it, and finds a frame where   *)
(* the next byte is one that arrived.                                      *)
(***************************************************************************)
THEOREM ReadsTheHead == Spec => []ReadsItsHead
<1>1. IInv => ReadsItsHead
  <2> SUFFICES ASSUME IInv PROVE ReadsItsHead
    OBVIOUS
  <2>1. err = "ok" /\ q.readPosition \in got => HasHead(q)
    BY DEF IInv, SorterInv, Live, HasHead
  <2> QED
    BY <2>1 DEF IInv, ReaderInv, ReadsItsHead
<1> QED
  BY <1>1, TransferInvariant, PTL

(***************************************************************************)
(* When the application closes after its data was packed, the end of the   *)
(* stream is read after every byte.                                        *)
(***************************************************************************)
THEOREM LateCloseEndsAfterData == ASSUME LateClose PROVE Spec => []EOFAfterAllData
<1>1. IInv => EOFAfterAllData
  BY WriterFields DEF IInv, ReaderInv, EOFAfterAllData
<1> QED
  BY <1>1, TransferInvariant, PTL

\* A step of the transfer is a step of the reliable stream, or changes nothing of it.
LEMMA StepRefines ==
    ASSUME LateClose, IInv, [Next]_vars
    PROVE  [Abstract!Next]_Abstract!vars
<1> USE DEF Abstract!Next, Abstract!vars
<1>1. ASSUME NEW n \in 1 .. StreamLength, Write(n) PROVE Abstract!Write
  BY <1>1, WriterFields DEF Write, Abstract!Write, IInv, WriterInv, Writers
<1>2. CASE Close
  BY <1>2 DEF Close, Abstract!Close, IInv, WriterInv, Writers
<1>3. ASSUME NEW n \in 1 .. StreamLength, PopNormalFrame(n) PROVE UNCHANGED Abstract!vars
  BY <1>3 DEF PopNormalFrame, IInv, WriterInv, Writers
<1>4. ASSUME NEW frame \in tracked, AddFrameForRetransmission(frame) PROVE UNCHANGED Abstract!vars
  BY <1>4 DEF AddFrameForRetransmission, IInv, WriterInv, Writers
<1>5. ASSUME NEW n \in 1 .. StreamLength, PopRetransmission(n) PROVE UNCHANGED Abstract!vars
  BY <1>5 DEF PopRetransmission, IInv, WriterInv, Writers
<1>6. ASSUME NEW frame \in wire, Receive(frame) PROVE UNCHANGED Abstract!vars
  BY <1>6 DEF Receive
<1>7. ASSUME NEW n \in 0 .. StreamLength, Read(n) PROVE Abstract!Read
  BY <1>7, WriterFields, HeadFields DEF Read, Abstract!Read
<1>8. CASE PopFrame
  <2>1. /\ r.consumed /\ UNCHANGED w
        /\ r' = [r EXCEPT !.consumed = FALSE, !.finishedReading = r.frame.FinBit, !.frame = NoFrame]
    BY <1>8 DEF PopFrame
  <2>2. HasHead(q) /\ HeadFrame(q) = r.frame /\ r.readOffset = EndOf(r.frame) /\ ~ r.finishedReading
    BY <2>1 DEF IInv, ReaderInv
  <2>3. r \in Readers /\ r.frame.FinBit \in BOOLEAN
    BY <2>2, HeadFields DEF IInv, ReaderInv, Frames
  <2> DEFINE u == r'
             y == r.frame.FinBit
  <2>4. u = [r EXCEPT !.consumed = FALSE, !.finishedReading = y, !.frame = NoFrame] /\ y \in BOOLEAN
    BY <2>1, <2>3
  <2> HIDE DEF u, y
  <2>5. u.finishedReading = y
    BY ONLY <2>3, <2>4 DEF Readers
  <2>6. u.readOffset = r.readOffset
    BY ONLY <2>3, <2>4 DEF Readers
  <2>7. CASE y
    <3>1. w.finishedWriting /\ r.readOffset = w.written
      <4>1. w.finSent => w.finishedWriting /\ w.written = w.writeOffset
        BY WriterFields, Zenon
      <4>2. /\ HeadFrame(q).FinBit => w.finSent /\ HeadFrame(q).Len = 0 /\ q.readPosition = w.writeOffset
            /\ EndOf(HeadFrame(q)) = q.readPosition + HeadFrame(q).Len
        BY <2>2, HeadFields, Zenon
      <4>3. w.writeOffset \in Nat
        BY WriterFields, Zenon
      <4> QED
        BY <2>2, <2>7, <4>1, <4>2, <4>3 DEF y
    <3>2. u.finishedReading = TRUE
      BY <2>3, <2>5, <2>7 DEF y
    <3> QED
      BY <2>1, <2>6, <3>1, <3>2 DEF u, Abstract!End
  <2>8. CASE ~ y
    <3>1. r.finishedReading = FALSE
      BY <2>2, <2>3 DEF Readers
    <3>2. u.finishedReading = FALSE
      BY <2>4, <2>5, <2>8
    <3>3. r'.finishedReading = r.finishedReading /\ r'.readOffset = r.readOffset
      BY <2>6, <3>1, <3>2, Zenon DEF u
    <3>4. UNCHANGED Abstract!vars
      BY <2>1, <3>3
    <3> QED
      BY <3>4
  <2> QED
    BY <2>7, <2>8
<1>9. CASE UNCHANGED vars
  BY <1>9 DEF vars
<1> QED
  BY <1>1, <1>2, <1>3, <1>4, <1>5, <1>6, <1>7, <1>8, <1>9 DEF Next

(***************************************************************************)
(* Reassembly implements the reliable stream, whatever is lost, delayed,   *)
(* reordered, duplicated and cut, when the application closes after its    *)
(* data was packed.                                                        *)
(***************************************************************************)
THEOREM TransferIsReliable == ASSUME LateClose PROVE Spec => Reliable
<1>1. Init => Abstract!Init
  BY DEF Init, Abstract!Init
<1>2. IInv /\ [Next]_vars => [Abstract!Next]_Abstract!vars
  BY StepRefines
<1> QED
  BY <1>1, <1>2, TransferInvariant, PTL DEF Spec, Reliable, Abstract!Spec
==========================================================================
