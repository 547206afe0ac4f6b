--------------------------- MODULE ProposerProofs ---------------------------
(* Theorems about the proposer, for any block sizes and limits, any number *)
(* of blocks, anchors, nonces, retries and requests.                       *)
EXTENDS Proposer, FiniteSetTheorems, SequenceTheorems, WellFoundedInduction,
        TLAPS

-----------------------------------------------------------------------------
(* Numbers.                                                                *)
LEMMA LeastNatural ==
  ASSUME NEW S, S \subseteq Nat, S # {}
  PROVE  \E m \in S : \A k \in S : m <= k
<1> DEFINE R == OpToRel(<, Nat)
<1>1. IsWellFoundedOn(R, Nat)
  BY NatLessThanWellFounded
<1>2. \A x, y \in Nat : x < y => <<x, y>> \in R
  BY DEF OpToRel
<1> HIDE DEF R
<1>3. \E x \in S : \A y \in S : ~(<<y, x>> \in R)
  BY <1>1, WFMin
<1>4. \E x \in S : \A y \in S : ~(y < x)
  BY <1>2, <1>3
<1> QED
  BY <1>4

LEMMA InductionSet ==
  ASSUME NEW S, S \subseteq Nat, 0 \in S, \A n \in S : n + 1 \in S
  PROVE  \A n \in Nat : n \in S
<1> SUFFICES ASSUME Nat \ S # {}
             PROVE  FALSE
  OBVIOUS
<1>1. PICK m \in Nat \ S : \A k \in Nat \ S : m <= k
  <2> DEFINE T == Nat \ S
  <2>1. T \subseteq Nat /\ T # {}
    OBVIOUS
  <2> HIDE DEF T
  <2>2. \E m \in T : \A k \in T : m <= k
    BY <2>1, LeastNatural
  <2> QED
    BY <2>2 DEF T
<1>2. m # 0 /\ m - 1 \in Nat
  BY <1>1
<1>3. m - 1 \in S
  BY <1>1, <1>2
<1>4. (m - 1) + 1 \in S
  BY <1>3
<1> QED
  BY <1>1, <1>2, <1>4

LEMMA MinOfNumbers ==
  ASSUME NEW S, S \subseteq Nat, S # {}
  PROVE  Min(S) \in S /\ \A k \in S : Min(S) <= k
<1>1. \E m \in S : \A k \in S : m <= k
  BY LeastNatural
<1> QED
  BY <1>1 DEF Min

-----------------------------------------------------------------------------
(* request_from_blocks, up to each block of an anchor, and up to each      *)
(* anchor, in turn.                                                        *)
L2 == Seq([anchor: 0 .. MaxAnchor, size: Sizes])

AddStep(before, bns, made, k) ==
  IF k = 0 THEN before
  ELSE IF k \in bns THEN Added(made[k - 1], k)
  ELSE made[k - 1]

AnchorStep(bns, made, a) ==
  IF a = 0 THEN <<NewRequest(FirstOf(bns))>>
  ELSE AddedUpTo(made[a - 1], InAnchor(bns, a - 1))[Len(blocks)]

LEMMA AddStepLocal ==
  ASSUME NEW before, NEW bns, NEW f, NEW g, NEW k \in Nat,
         k > 0 => f[k - 1] = g[k - 1]
  PROVE  AddStep(before, bns, f, k) = AddStep(before, bns, g, k)
BY DEF AddStep

LEMMA AnchorStepLocal ==
  ASSUME NEW bns, NEW f, NEW g, NEW a \in Nat, a > 0 => f[a - 1] = g[a - 1]
  PROVE  AnchorStep(bns, f, a) = AnchorStep(bns, g, a)
BY DEF AnchorStep

LEMMA AddedUpToIs ==
  ASSUME NEW before, NEW bns, blocks \in L2
  PROVE  AddedUpTo(before, bns) =
           [k \in 0 .. Len(blocks) |->
              AddStep(before, bns, AddedUpTo(before, bns), k)]
<1> DEFINE IsUpTo(f, n) == f = [k \in 0 .. n |-> AddStep(before, bns, f, k)]
           S == {n \in Nat : \E f : IsUpTo(f, n)}
<1>1. 0 \in S
  <2> DEFINE f == [k \in 0 .. 0 |-> before]
  <2>1. \A k \in 0 .. 0 : AddStep(before, bns, f, k) = f[k]
    BY DEF AddStep
  <2>2. IsUpTo(f, 0)
    BY <2>1
  <2> QED
    BY <2>2
<1>2. ASSUME NEW n \in S
      PROVE  n + 1 \in S
  <2>1. PICK f : IsUpTo(f, n)
    BY <1>2
  <2> DEFINE g == [k \in 0 .. n + 1 |->
                     IF k = n + 1 THEN AddStep(before, bns, f, n + 1) ELSE f[k]]
  <2>2. n \in Nat
    BY <1>2
  <2>3. \A k \in 0 .. n : g[k] = f[k]
    BY <2>2
  <2>4. ASSUME NEW k \in 0 .. n + 1
        PROVE  AddStep(before, bns, f, k) = AddStep(before, bns, g, k)
    <3>1. k \in Nat /\ (k > 0 => k - 1 \in 0 .. n)
      BY <2>2
    <3>2. k > 0 => f[k - 1] = g[k - 1]
      BY <2>3, <3>1
    <3> HIDE DEF g
    <3> QED
      BY <3>1, <3>2, AddStepLocal
  <2>5. \A k \in 0 .. n : f[k] = AddStep(before, bns, f, k)
    BY <2>1
  <2>6. \A k \in 0 .. n + 1 : g[k] = AddStep(before, bns, f, k)
    BY <2>2, <2>5
  <2>7. \A k \in 0 .. n + 1 : g[k] = AddStep(before, bns, g, k)
    BY <2>4, <2>6
  <2>8. IsUpTo(g, n + 1)
    <3>1. g = [k \in 0 .. n + 1 |-> g[k]]
      OBVIOUS
    <3> HIDE DEF g
    <3> QED
      BY <2>7, <3>1
  <2>9. \E h : IsUpTo(h, n + 1)
    BY <2>8
  <2> QED
    BY <2>2, <2>9
<1>3. Len(blocks) \in Nat
  BY LenProperties DEF L2
<1>4. Len(blocks) \in S
  <2>1. S \subseteq Nat
    OBVIOUS
  <2> HIDE DEF S
  <2> QED
    BY <1>1, <1>2, <1>3, <2>1, InductionSet
<1>5. \E f : IsUpTo(f, Len(blocks))
  BY <1>4
<1> QED
  BY <1>5 DEF AddedUpTo, AddStep

LEMMA RequestsBelowIs ==
  ASSUME NEW bns
  PROVE  RequestsBelow(bns) =
           [a \in 0 .. MaxAnchor + 1 |-> AnchorStep(bns, RequestsBelow(bns), a)]
<1> DEFINE IsBelow(f, n) == f = [a \in 0 .. n |-> AnchorStep(bns, f, a)]
           S == {n \in Nat : \E f : IsBelow(f, n)}
<1>1. 0 \in S
  <2> DEFINE f == [a \in 0 .. 0 |-> <<NewRequest(FirstOf(bns))>>]
  <2>1. \A a \in 0 .. 0 : AnchorStep(bns, f, a) = f[a]
    BY DEF AnchorStep
  <2>2. IsBelow(f, 0)
    BY <2>1
  <2> QED
    BY <2>2
<1>2. ASSUME NEW n \in S
      PROVE  n + 1 \in S
  <2>1. PICK f : IsBelow(f, n)
    BY <1>2
  <2> DEFINE g == [a \in 0 .. n + 1 |->
                     IF a = n + 1 THEN AnchorStep(bns, f, n + 1) ELSE f[a]]
  <2>2. n \in Nat
    BY <1>2
  <2>3. \A a \in 0 .. n : g[a] = f[a]
    BY <2>2
  <2>4. ASSUME NEW a \in 0 .. n + 1
        PROVE  AnchorStep(bns, f, a) = AnchorStep(bns, g, a)
    <3>1. a \in Nat /\ (a > 0 => a - 1 \in 0 .. n)
      BY <2>2
    <3>2. a > 0 => f[a - 1] = g[a - 1]
      BY <2>3, <3>1
    <3> HIDE DEF g
    <3> QED
      BY <3>1, <3>2, AnchorStepLocal
  <2>5. \A a \in 0 .. n : f[a] = AnchorStep(bns, f, a)
    BY <2>1
  <2>6. \A a \in 0 .. n + 1 : g[a] = AnchorStep(bns, f, a)
    BY <2>2, <2>5
  <2>7. \A a \in 0 .. n + 1 : g[a] = AnchorStep(bns, g, a)
    BY <2>4, <2>6
  <2>8. IsBelow(g, n + 1)
    <3>1. g = [a \in 0 .. n + 1 |-> g[a]]
      OBVIOUS
    <3> HIDE DEF g
    <3> QED
      BY <2>7, <3>1
  <2>9. \E h : IsBelow(h, n + 1)
    BY <2>8
  <2> QED
    BY <2>2, <2>9
<1>3. MaxAnchor + 1 \in Nat
  BY ProposerBounds
<1>4. MaxAnchor + 1 \in S
  <2>1. S \subseteq Nat
    OBVIOUS
  <2> HIDE DEF S
  <2> QED
    BY <1>1, <1>2, <1>3, <2>1, InductionSet
<1>5. \E f : IsBelow(f, MaxAnchor + 1)
  BY <1>4
<1> QED
  BY <1>5 DEF RequestsBelow, AnchorStep

-----------------------------------------------------------------------------
(* What the requests made of some of the blocks are.  Exact is what        *)
(* BatchExact says of a batch; it takes blocks that fit in a batch and a   *)
(* group without gaps over which the anchors do not go down, so that the   *)
(* order of the anchors is that of the numbers.                            *)
Part == [start: Nat, end: Nat, n: Nat, bns: SUBSET Nat, size: Nat]
SmallBlocks == \A size \in Sizes : size <= TargetSize
Dense(bns) == \A a, c \in bns : \A b \in a .. c : b \in bns
Straight(bns) == Dense(bns) /\ AnchorsGrow(bns)
Exact(b) == b.n = b.end - b.start + 1 /\ b.bns = b.start .. b.end

ExactAt(bns, done, made) ==
  SmallBlocks /\ Straight(bns) =>
    /\ done = {} => made = <<NewRequest(FirstOf(bns))>>
    /\ done # {} => /\ \A i \in 1 .. Len(made) : Exact(made[i])
                    /\ Last(made).end \in done
                    /\ \A bn \in done : bn <= Last(made).end

(* If the anchors do not go down over the group, the requests come in the  *)
(* order of its blocks, whatever the sizes and gaps: they begin and end at *)
(* blocks of the group, the last one at the last one done, none counts     *)
(* more blocks than lie between its ends, and none but an empty one        *)
(* overlaps the next.                                                      *)
Spans(b) == b.start <= b.end /\ b.start + b.n <= b.end + 1

Within(bns, made) ==
  \A i \in 1 .. Len(made) :
    /\ made[i].start \in bns /\ made[i].end \in bns
    /\ Spans(made[i])

Ascending(made) ==
  \A j \in 1 .. Len(made) :
    \A i \in 1 .. j - 1 : made[i].n > 0 => made[i].end < made[j].start

OrderedAt(bns, done, made) ==
  /\ done = {} => made = <<NewRequest(FirstOf(bns))>>
  /\ done # {} => \A i \in 1 .. Len(made) : made[i].end \in done
  /\ Within(bns, made) /\ Ascending(made)
  /\ \A bn \in done : bn <= Last(made).end

(* The requests made of the blocks done.                                   *)
MadeOf(bns, done, made) ==
  /\ made \in Seq(Part) /\ made # <<>>
  /\ \A i \in 1 .. Len(made) : made[i].n <= MaxPerBatch
  /\ \A bn \in done : \E i \in 1 .. Len(made) : bn \in made[i].bns
  /\ ExactAt(bns, done, made)
  /\ AnchorsGrow(bns) => OrderedAt(bns, done, made)

GroupOf(bns) == bns # {} /\ bns \subseteq 1 .. Len(blocks)

LEMMA LastOf ==
  ASSUME NEW S, NEW s \in Seq(S), s # <<>>
  PROVE  Len(s) \in 1 .. Len(s) /\ Last(s) = s[Len(s)] /\ Last(s) \in S
BY EmptySeq, LenProperties DEF Last

LEMMA BlockType ==
  ASSUME blocks \in L2, NEW k \in 1 .. Len(blocks)
  PROVE  /\ blocks[k].size \in Nat /\ blocks[k].size \in Sizes
         /\ blocks[k].anchor \in Nat /\ blocks[k].anchor <= MaxAnchor
<1>1. blocks[k] \in [anchor: 0 .. MaxAnchor, size: Sizes]
  BY ElementOfSeq DEF L2
<1>2. blocks[k].anchor \in 0 .. MaxAnchor /\ blocks[k].size \in Sizes
  BY <1>1
<1>3. MaxAnchor \in Nat /\ blocks[k].size \in Nat
  BY <1>2, SizeAssumption, ProposerBounds
<1> QED
  BY <1>2, <1>3

LEMMA GroupType ==
  ASSUME blocks \in L2, NEW bns, GroupOf(bns)
  PROVE  /\ Len(blocks) \in Nat /\ bns \subseteq Nat /\ bns # {}
         /\ \A bn \in bns : /\ bn \in 1 .. Len(blocks) /\ bn \in Nat
                            /\ blocks[bn].anchor \in Nat
                            /\ blocks[bn].anchor <= MaxAnchor
                            /\ blocks[bn].size \in Nat
                            /\ blocks[bn].size \in Sizes
<1>1. Len(blocks) \in Nat
  BY LenProperties DEF L2
<1>2. ASSUME NEW bn \in bns
      PROVE  bn \in 1 .. Len(blocks) /\ bn \in Nat
  BY <1>1 DEF GroupOf
<1>3. bns \subseteq Nat /\ bns # {}
  BY <1>2 DEF GroupOf
<1> QED
  BY <1>1, <1>2, <1>3, BlockType

(* One block comes before all the others.                                  *)
LEMMA FirstIs ==
  ASSUME blocks \in L2, NEW bns, GroupOf(bns)
  PROVE  /\ FirstOf(bns) \in bns
         /\ \A other \in bns \ {FirstOf(bns)} : Before(FirstOf(bns), other)
         /\ AnchorsGrow(bns) => \A bn \in bns : FirstOf(bns) <= bn
<1>1. /\ bns \subseteq Nat /\ bns # {}
      /\ \A bn \in bns : bn \in Nat /\ blocks[bn].anchor \in Nat
  BY GroupType
<1> DEFINE As == {blocks[bn].anchor : bn \in bns}
<1>2. As \subseteq Nat /\ As # {}
  BY <1>1
<1>3. PICK a \in As : \A x \in As : a <= x
  <2> HIDE DEF As
  <2> QED
    BY <1>2, LeastNatural
<1> DEFINE G == {bn \in bns : blocks[bn].anchor = a}
<1>4. G \subseteq Nat /\ G # {}
  BY <1>1, <1>3
<1>5. PICK first \in G : \A bn \in G : first <= bn
  <2> HIDE DEF G
  <2> QED
    BY <1>4, LeastNatural
<1>6. first \in bns /\ blocks[first].anchor = a
  BY <1>5
<1>7. ASSUME NEW other \in bns \ {first}
      PROVE  Before(first, other)
  <2>1. a <= blocks[other].anchor
    BY <1>3
  <2>2. blocks[other].anchor = a => first <= other
    BY <1>5
  <2>3. /\ first \in Nat /\ other \in Nat /\ first # other
        /\ a \in Nat /\ blocks[other].anchor \in Nat
    BY <1>1, <1>6
  <2> QED
    BY <1>6, <2>1, <2>2, <2>3 DEF Before
<1>8. /\ FirstOf(bns) \in bns
      /\ \A other \in bns \ {FirstOf(bns)} : Before(FirstOf(bns), other)
  BY <1>6, <1>7 DEF FirstOf
<1> DEFINE f == FirstOf(bns)
<1> HIDE DEF f
<1>9. ASSUME AnchorsGrow(bns), NEW bn \in bns
      PROVE  f <= bn
  <2>1. f \in bns /\ (bn # f => Before(f, bn))
    BY <1>8 DEF f
  <2>2. f \in Nat /\ bn \in Nat
        /\ blocks[f].anchor \in Nat /\ blocks[bn].anchor \in Nat
    BY <1>1, <2>1
  <2>3. bn < f => blocks[bn].anchor <= blocks[f].anchor
    BY <1>9, <2>1 DEF AnchorsGrow
  <2> QED
    BY <2>1, <2>2, <2>3 DEF Before
<1> QED
  BY <1>8, <1>9 DEF f

LEMMA WithBlockIs ==
  ASSUME blocks \in L2, NEW k \in 1 .. Len(blocks), NEW cur \in Part
  PROVE  LET w == WithBlock(cur, k)
         IN  /\ w \in Part /\ w.start = cur.start /\ w.end = k
             /\ w.n = cur.n + 1 /\ w.bns = cur.bns \cup {k}
             /\ w.size = cur.size + blocks[k].size
<1>1. blocks[k].size \in Nat /\ k \in Nat
  BY BlockType, LenProperties DEF L2
<1> DEFINE size == blocks[k].size
<1>2. WithBlock(cur, k) = [cur EXCEPT !.end = k, !.n = @ + 1,
                                      !.bns = @ \cup {k}, !.size = @ + size]
  BY DEF WithBlock
<1> HIDE DEF size
<1>3. size \in Nat
  BY <1>1 DEF size
<1>4. WithBlock(cur, k) = [start |-> cur.start, end |-> k, n |-> cur.n + 1,
                           bns |-> cur.bns \cup {k}, size |-> cur.size + size]
  BY <1>2 DEF Part
<1>5. /\ cur.start \in Nat /\ cur.n + 1 \in Nat /\ cur.size + size \in Nat
      /\ cur.bns \cup {k} \in SUBSET Nat
  BY <1>1, <1>3 DEF Part
<1> QED
  BY <1>1, <1>3, <1>4, <1>5 DEF Part, size

LEMMA NewRequestIs ==
  ASSUME NEW k \in Nat
  PROVE  LET r == NewRequest(k)
         IN  /\ r \in Part /\ r.start = k /\ r.end = k /\ r.n = 0
             /\ r.bns = {} /\ r.size = 0
BY DEF NewRequest, Part

(* A block joins the last request, or is the first one of another.         *)
Joins(made, next, k, d) ==
  /\ Len(next) = Len(made)
  /\ \A i \in 1 .. Len(made) : i # Len(made) => next[i] = made[i]
  /\ d.start = made[Len(made)].start /\ d.n = made[Len(made)].n + 1
  /\ d.bns = made[Len(made)].bns \cup {k}
Opens(made, next, k, d) ==
  /\ Len(next) = Len(made) + 1
  /\ \A i \in 1 .. Len(made) : next[i] = made[i]
  /\ d.start = k /\ d.n = 1 /\ d.bns = {k}

LEMMA AddedIs ==
  ASSUME blocks \in L2, NEW k \in 1 .. Len(blocks),
         NEW made \in Seq(Part), made # <<>>
  PROVE  LET next == Added(made, k)
             d == next[Len(next)]
         IN  /\ next \in Seq(Part) /\ next # <<>>
             /\ d.end = k
             /\ \/ Joins(made, next, k, d) /\ ~Full(Last(made), k)
                \/ Opens(made, next, k, d) /\ Full(Last(made), k)
<1>1. Len(made) \in 1 .. Len(made) /\ Last(made) = made[Len(made)]
      /\ Last(made) \in Part /\ Len(made) \in Nat
  BY LastOf, LenProperties
<1>2. CASE Full(Last(made), k)
  <2> DEFINE d == WithBlock(NewRequest(k), k)
             next == Append(made, d)
  <2>1. k \in Nat
    BY LenProperties DEF L2
  <2>2. d \in Part /\ d.start = k /\ d.end = k /\ d.n = 1 /\ d.bns = {k}
    BY <2>1, NewRequestIs, WithBlockIs
  <2> HIDE DEF d
  <2>3. /\ next \in Seq(Part) /\ Len(next) = Len(made) + 1
        /\ next[Len(next)] = d
        /\ \A i \in 1 .. Len(made) : next[i] = made[i]
    BY <2>2, AppendProperties
  <2>4. next # <<>>
    BY <2>3, <1>1, EmptySeq
  <2>5. Added(made, k) = next
    BY <1>2 DEF Added, d
  <2> HIDE DEF next
  <2> QED
    BY <1>1, <1>2, <2>2, <2>3, <2>4, <2>5 DEF Opens
<1>3. CASE ~Full(Last(made), k)
  <2> DEFINE d == WithBlock(made[Len(made)], k)
             next == [made EXCEPT ![Len(made)] = d]
  <2>2. d \in Part /\ d.start = made[Len(made)].start /\ d.end = k
        /\ d.n = made[Len(made)].n + 1 /\ d.bns = made[Len(made)].bns \cup {k}
    BY <1>1, WithBlockIs
  <2> HIDE DEF d
  <2>3. /\ next \in Seq(Part) /\ Len(next) = Len(made)
        /\ next[Len(next)] = d
        /\ \A i \in 1 .. Len(made) : i # Len(made) => next[i] = made[i]
    BY <1>1, <2>2, ExceptSeq
  <2>4. next # <<>>
    BY <2>3, <1>1, EmptySeq
  <2>5. Added(made, k) = next
    BY <1>3 DEF Added, d
  <2> HIDE DEF next
  <2> QED
    BY <1>3, <2>2, <2>3, <2>4, <2>5 DEF Joins
<1> QED
  BY <1>2, <1>3

LEMMA FirstOne ==
  ASSUME NEW r \in Part
  PROVE  LET made == <<r>>
         IN  /\ made \in Seq(Part) /\ made # <<>> /\ Len(made) = 1
             /\ made[1] = r /\ Last(made) = r
BY DEF Last

(* Before the first block: an empty request that starts with it.           *)
LEMMA MadeFirst ==
  ASSUME blocks \in L2, NEW bns, GroupOf(bns)
  PROVE  MadeOf(bns, {}, <<NewRequest(FirstOf(bns))>>)
<1> DEFINE r == NewRequest(FirstOf(bns))
           made == <<r>>
<1>1. FirstOf(bns) \in Nat
  BY FirstIs, GroupType
<1>2. r \in Part /\ r.n = 0
  BY <1>1, NewRequestIs
<1>3. ExactAt(bns, {}, made)
  BY DEF ExactAt
<1> HIDE DEF r
<1>4. /\ made \in Seq(Part) /\ made # <<>> /\ Len(made) = 1 /\ made[1] = r
  BY <1>2, FirstOne
<1> HIDE DEF made
<1>5. 0 <= MaxPerBatch
  BY LimitAssumption
<1>6. OrderedAt(bns, {}, made)
  <2>1. r.start = FirstOf(bns) /\ r.end = FirstOf(bns) /\ FirstOf(bns) \in bns
    BY <1>1, NewRequestIs, FirstIs DEF r
  <2>2. Spans(r)
    BY <1>1, <1>2, <2>1 DEF Spans
  <2>3. Within(bns, made)
    BY <1>4, <2>1, <2>2 DEF Within
  <2>4. Ascending(made)
    BY <1>4 DEF Ascending
  <2>5. made = <<NewRequest(FirstOf(bns))>>
    BY DEF made, r
  <2> QED
    BY <2>3, <2>4, <2>5 DEF OrderedAt
<1>7. MadeOf(bns, {}, made)
  BY <1>2, <1>3, <1>4, <1>5, <1>6 DEF MadeOf
<1> QED
  BY <1>7 DEF made, r

(* The next block after those done.                                        *)
NextAfter(bns, done, k) ==
  /\ done \subseteq bns /\ k \in bns
  /\ AnchorsGrow(bns) => \A bn \in bns : bn \in done <=> bn < k

(* The last request, if all is exact before the block k: it ends at the    *)
(* block before k, or is the empty one that starts at k.                   *)
LEMMA LastBefore ==
  ASSUME blocks \in L2, NEW bns, GroupOf(bns), SmallBlocks, Straight(bns),
         NEW k, NEW done, NextAfter(bns, done, k), NEW made,
         MadeOf(bns, done, made)
  PROVE  LET cur == Last(made)
         IN  \/ /\ \A i \in 1 .. Len(made) : Exact(made[i])
                /\ cur.end = k - 1
             \/ /\ Len(made) = 1 /\ cur = NewRequest(k) /\ ~Full(cur, k)
<1>1. /\ \A bn \in bns : bn \in done <=> bn < k
      /\ done \subseteq bns /\ k \in bns /\ Dense(bns) /\ AnchorsGrow(bns)
  BY DEF NextAfter, Straight
<1>2. /\ bns \subseteq Nat /\ k \in Nat
      /\ blocks[k].size \in Nat /\ blocks[k].size \in Sizes
  BY <1>1, GroupType
<1>3. CASE done = {}
  <2>1. made = <<NewRequest(FirstOf(bns))>>
    BY <1>3 DEF MadeOf, ExactAt
  <2>2. FirstOf(bns) \in bns /\ FirstOf(bns) <= k
    BY <1>1, FirstIs
  <2>3. ~(FirstOf(bns) < k) /\ FirstOf(bns) \in Nat
    BY <1>1, <1>2, <1>3, <2>2
  <2>4. FirstOf(bns) = k
    BY <1>2, <2>2, <2>3
  <2> DEFINE r == NewRequest(k)
  <2>5. r \in Part /\ r.n = 0 /\ r.size = 0
    BY <1>2, NewRequestIs
  <2>6. ~Full(r, k)
    <3>1. blocks[k].size <= TargetSize
      BY <1>2 DEF SmallBlocks
    <3>2. MaxPerBatch \in Nat \ {0} /\ TargetSize \in Nat
      BY LimitAssumption
    <3> HIDE DEF r
    <3> QED
      BY <1>2, <2>5, <3>1, <3>2 DEF Full
  <2>7. made = <<r>>
    BY <2>1, <2>4
  <2> HIDE DEF r
  <2>8. Len(made) = 1 /\ Last(made) = r
    BY <2>5, <2>7, FirstOne
  <2> QED
    BY <2>6, <2>8 DEF r
<1>4. CASE done # {}
  <2> DEFINE e == Last(made).end
  <2>1. /\ \A i \in 1 .. Len(made) : Exact(made[i])
        /\ e \in done /\ \A bn \in done : bn <= e
    BY <1>4 DEF MadeOf, ExactAt
  <2> HIDE DEF e
  <2>2. e \in bns /\ e < k /\ e \in Nat
    BY <1>1, <1>2, <2>1
  <2>3. k - 1 \in e .. k /\ k - 1 < k
    BY <1>2, <2>2
  <2>4. k - 1 \in bns
    BY <1>1, <2>2, <2>3 DEF Dense
  <2>5. k - 1 <= e
    BY <1>1, <2>1, <2>3, <2>4
  <2>6. e = k - 1
    BY <1>2, <2>2, <2>5
  <2> QED
    BY <2>1, <2>6 DEF e
<1> QED
  BY <1>3, <1>4

LEMMA OrderedNext ==
  ASSUME blocks \in L2, NEW bns, GroupOf(bns), AnchorsGrow(bns), NEW k,
         NEW done, NextAfter(bns, done, k), NEW made \in Seq(Part), made # <<>>,
         OrderedAt(bns, done, made)
  PROVE  OrderedAt(bns, done \cup {k}, Added(made, k))
<1> DEFINE next == Added(made, k)
           d == next[Len(next)]
           L == Len(made)
<1>1. /\ bns \subseteq Nat /\ k \in bns /\ k \in 1 .. Len(blocks) /\ k \in Nat
      /\ done \subseteq bns /\ \A bn \in bns : bn \in done <=> bn < k
  BY GroupType DEF NextAfter
<1>2. /\ L \in Nat /\ L \in 1 .. L
      /\ Last(made) = made[L]
      /\ \A i \in 1 .. L : made[i] \in Part
  BY LenProperties, ElementOfSeq, LastOf
<1>3. /\ next \in Seq(Part) /\ next # <<>> /\ d.end = k
      /\ Joins(made, next, k, d) \/ Opens(made, next, k, d)
  BY <1>1, AddedIs
<1>4. /\ Len(next) \in Nat /\ Len(next) \in 1 .. Len(next)
      /\ Last(next) = d
      /\ \A i \in 1 .. Len(next) : next[i] \in Part
  BY <1>3, LenProperties, ElementOfSeq, LastOf
<1> SUFFICES OrderedAt(bns, done \cup {k}, next)
  OBVIOUS
<1> HIDE DEF next, d, L
<1>5. \A i \in 1 .. L : /\ made[i].start \in Nat /\ made[i].end \in Nat
                        /\ made[i].n \in Nat
  BY <1>2 DEF Part
<1>6. /\ Within(bns, made) /\ Ascending(made)
  BY DEF OrderedAt
(* What is made already ends before the block, or is the first request     *)
(* with no block in it.                                                    *)
<1>7. ASSUME NEW i \in 1 .. L
      PROVE  made[i].end < k \/ (made[i].n = 0 /\ made[i].end = k)
  <2>1. CASE done # {}
    <3>1. made[i].end \in done
      BY <2>1 DEF OrderedAt, L
    <3> QED
      BY <1>1, <3>1
  <2>2. CASE done = {}
    <3>1. made = <<NewRequest(FirstOf(bns))>>
      BY <2>2 DEF OrderedAt
    <3>2. FirstOf(bns) \in bns /\ FirstOf(bns) <= k
      BY <1>1, FirstIs
    <3>3. ~(FirstOf(bns) < k) /\ FirstOf(bns) \in Nat
      BY <1>1, <2>2, <3>2
    <3>4. FirstOf(bns) = k
      BY <1>1, <3>2, <3>3
    <3>5. made[i] = NewRequest(k)
      <4>1. Len(made) = 1
        BY <3>1
      <4>2. i = 1
        BY <4>1 DEF L
      <4> QED
        BY <3>1, <3>4, <4>2
    <3> QED
      BY <1>1, <3>5, NewRequestIs
  <2> QED
    BY <2>1, <2>2
<1>8. \A i \in 1 .. L : made[i].n > 0 => made[i].end < k
  BY <1>5, <1>7
<1>9. ASSUME Within(bns, next), Ascending(next),
              \A i \in 1 .. Len(next) : next[i].end \in done \cup {k}
       PROVE  OrderedAt(bns, done \cup {k}, next)
  <2>1. \A bn \in done \cup {k} : bn <= Last(next).end
    <3>1. \A bn \in done : bn < k /\ bn \in Nat
      BY <1>1
    <3> QED
      BY <1>1, <1>3, <1>4, <3>1
  <2> QED
    BY <1>9, <2>1 DEF OrderedAt
<1>10. \A i \in 1 .. L : made[i].end \in done \cup {k}
  <2>1. \A i \in 1 .. L : made[i].end \in bns
    BY <1>6 DEF Within, L
  <2> QED
    BY <1>1, <1>7, <2>1
<1>11. k \in bns
  BY <1>1
<1>12. CASE Joins(made, next, k, d)
  <2>1. /\ Len(next) = L
        /\ \A i \in 1 .. L : i # L => next[i] = made[i]
        /\ d.start = made[L].start /\ d.n = made[L].n + 1
    BY <1>12 DEF Joins, L
  <2>2. d = next[L]
    BY <2>1 DEF d
  <2>3. Spans(made[L]) /\ made[L].start \in bns
    BY <1>2, <1>6 DEF Within, L
  <2>4. Spans(d)
    <3>1. made[L].start + made[L].n <= made[L].end + 1
          /\ made[L].start <= made[L].end
      BY <2>3 DEF Spans
    <3>2. made[L].start + made[L].n <= k /\ made[L].start <= k
      <4>1. CASE made[L].end < k
        BY <1>1, <1>2, <1>5, <3>1, <4>1
      <4>2. CASE made[L].n = 0 /\ made[L].end = k
        BY <1>1, <1>2, <1>5, <3>1, <4>2
      <4> QED
        BY <1>2, <1>7, <4>1, <4>2
    <3> QED
      BY <1>1, <1>2, <1>3, <1>5, <2>1, <3>2 DEF Spans
  <2>5. Within(bns, next)
    BY <1>3, <1>6, <1>11, <2>1, <2>2, <2>3, <2>4 DEF Within, L
  <2>6. Ascending(next)
    <3> SUFFICES ASSUME NEW j \in 1 .. L, NEW i \in 1 .. j - 1, next[i].n > 0
                 PROVE  next[i].end < next[j].start
      BY <2>1 DEF Ascending
    <3>1. i \in 1 .. L /\ i # L
      BY <1>2
    <3>2. next[i] = made[i] /\ next[j].start = made[j].start
      BY <2>1, <2>2, <3>1
    <3> QED
      BY <1>6, <3>2 DEF Ascending, L
  <2>7. \A i \in 1 .. Len(next) : next[i].end \in done \cup {k}
    BY <1>3, <1>10, <2>1, <2>2
  <2> QED
    BY <1>9, <2>5, <2>6, <2>7
<1>13. CASE Opens(made, next, k, d)
  <2>1. /\ Len(next) = L + 1
        /\ \A i \in 1 .. L : next[i] = made[i]
        /\ d.start = k /\ d.n = 1
    BY <1>13 DEF Opens, L
  <2>2. d = next[L + 1]
    BY <2>1 DEF d
  <2>3. \A i \in 1 .. Len(next) : i \in 1 .. L \/ i = L + 1
    BY <1>2, <2>1
  <2>4. Spans(d)
    BY <1>1, <1>3, <2>1 DEF Spans
  <2>5. Within(bns, next)
    BY <1>3, <1>6, <1>11, <2>1, <2>2, <2>3, <2>4 DEF Within, L
  <2>6. Ascending(next)
    <3> SUFFICES ASSUME NEW j \in 1 .. Len(next), NEW i \in 1 .. j - 1,
                        next[i].n > 0
                 PROVE  next[i].end < next[j].start
      BY DEF Ascending
    <3>1. i \in 1 .. L
      BY <1>2, <2>1
    <3>2. CASE j \in 1 .. L
      BY <1>6, <2>1, <3>1, <3>2 DEF Ascending, L
    <3>3. CASE j = L + 1
      BY <1>8, <2>1, <2>2, <3>1, <3>3
    <3> QED
      BY <2>3, <3>2, <3>3
  <2>7. \A i \in 1 .. Len(next) : next[i].end \in done \cup {k}
    BY <1>3, <1>10, <2>1, <2>2, <2>3
  <2> QED
    BY <1>9, <2>5, <2>6, <2>7
<1> QED
  BY <1>3, <1>12, <1>13

LEMMA MadeNext ==
  ASSUME blocks \in L2, NEW bns, GroupOf(bns), NEW k, NEW done,
         NextAfter(bns, done, k), NEW made, MadeOf(bns, done, made)
  PROVE  MadeOf(bns, done \cup {k}, Added(made, k))
<1> DEFINE next == Added(made, k)
           d == next[Len(next)]
<1>1. /\ k \in bns /\ k \in 1 .. Len(blocks) /\ k \in Nat /\ done \subseteq bns
      /\ bns \subseteq Nat
  BY GroupType DEF NextAfter
<1>2. /\ made \in Seq(Part) /\ made # <<>>
      /\ \A i \in 1 .. Len(made) : made[i].n <= MaxPerBatch
      /\ \A bn \in done : \E i \in 1 .. Len(made) : bn \in made[i].bns
  BY DEF MadeOf
<1>3. /\ next \in Seq(Part) /\ next # <<>> /\ d.end = k
      /\ \/ Joins(made, next, k, d) /\ ~Full(Last(made), k)
         \/ Opens(made, next, k, d) /\ Full(Last(made), k)
  BY <1>1, <1>2, AddedIs
<1> HIDE DEF next, d
<1>4. /\ Len(made) \in Nat /\ Len(made) \in 1 .. Len(made)
      /\ Last(made) = made[Len(made)] /\ Last(made) \in Part
      /\ Len(next) \in Nat /\ Len(next) \in 1 .. Len(next)
      /\ Last(next) = d
      /\ \A i \in 1 .. Len(made) : made[i] \in Part
      /\ \A i \in 1 .. Len(next) : next[i] \in Part
  BY <1>2, <1>3, LenProperties, LastOf, ElementOfSeq DEF d
<1>5. \A i \in 1 .. Len(next) :
        \/ i = Len(next) /\ next[i] = d
        \/ /\ i \in 1 .. Len(made) /\ next[i] = made[i]
           /\ Joins(made, next, k, d) => i # Len(made)
  BY <1>3, <1>4 DEF Joins, Opens, d
<1>6. \A i \in 1 .. Len(made) : i \in 1 .. Len(next)
  BY <1>3, <1>4 DEF Joins, Opens
<1>7. d \in Part /\ next[Len(next)] = d /\ k \in d.bns
  BY <1>3, <1>4 DEF Joins, Opens, d
<1>8. d.n <= MaxPerBatch
  <2>1. MaxPerBatch \in Nat \ {0} /\ Last(made).n \in Nat
    BY <1>4, LimitAssumption DEF Part
  <2>2. CASE Joins(made, next, k, d) /\ ~Full(Last(made), k)
    <3>1. d.n = Last(made).n + 1 /\ ~(Last(made).n >= MaxPerBatch)
      BY <1>4, <2>2 DEF Joins, Full
    <3> QED
      BY <2>1, <3>1
  <2>3. CASE Opens(made, next, k, d)
    BY <2>1, <2>3 DEF Opens
  <2> QED
    BY <1>3, <2>2, <2>3
<1>9. \A i \in 1 .. Len(next) : next[i].n <= MaxPerBatch
  BY <1>2, <1>5, <1>8
<1>10. ASSUME NEW bn \in done \cup {k}
       PROVE  \E i \in 1 .. Len(next) : bn \in next[i].bns
  <2>1. CASE bn = k
    BY <1>4, <1>7, <2>1
  <2>2. CASE bn \in done
    <3>1. PICK i \in 1 .. Len(made) : bn \in made[i].bns
      BY <1>2, <2>2
    <3>2. CASE next[i] = made[i]
      BY <1>6, <3>1, <3>2
    <3>3. CASE next[i] # made[i]
      <4>1. i = Len(made) /\ Joins(made, next, k, d)
        BY <1>3, <3>3 DEF Joins, Opens
      <4>2. bn \in d.bns
        BY <3>1, <4>1 DEF Joins
      <4> QED
        BY <1>4, <1>7, <4>2
    <3> QED
      BY <3>2, <3>3
  <2> QED
    BY <2>1, <2>2
<1>11. ASSUME SmallBlocks, Straight(bns)
       PROVE  /\ \A i \in 1 .. Len(next) : Exact(next[i])
              /\ Last(next).end = k /\ \A bn \in done \cup {k} : bn <= k
  <2> DEFINE cur == Last(made)
  <2>1. \/ (\A i \in 1 .. Len(made) : Exact(made[i])) /\ cur.end = k - 1
        \/ Len(made) = 1 /\ cur = NewRequest(k) /\ ~Full(cur, k)
    BY <1>11, LastBefore
  <2> HIDE DEF cur
  <2>2. cur = made[Len(made)] /\ cur \in Part
    BY <1>4 DEF cur
  <2>3. \A bn \in done \cup {k} : bn <= k
    <3>1. AnchorsGrow(bns)
      BY <1>11 DEF Straight
    <3>2. \A bn \in done : bn < k /\ bn \in Nat
      BY <1>1, <3>1 DEF NextAfter
    <3> QED
      BY <1>1, <3>2
  <2>4. Exact(d)
    <3>1. CASE Opens(made, next, k, d)
      <4>1. d.start = k /\ d.n = 1 /\ d.bns = {k} /\ d.end = k
        BY <1>3, <3>1 DEF Opens
      <4>2. k .. k = {k} /\ k - k + 1 = 1
        BY <1>1
      <4> QED
        BY <4>1, <4>2 DEF Exact
    <3>2. CASE Joins(made, next, k, d)
      <4>1. d.start = cur.start /\ d.n = cur.n + 1 /\ d.bns = cur.bns \cup {k}
            /\ d.end = k
        BY <1>3, <2>2, <3>2 DEF Joins
      <4>2. CASE cur = NewRequest(k)
        <5>1. cur.start = k /\ cur.n = 0 /\ cur.bns = {}
          BY <1>1, <4>2, NewRequestIs
        <5>2. k .. k = {k} /\ k - k + 1 = 0 + 1
          BY <1>1
        <5> QED
          BY <4>1, <5>1, <5>2 DEF Exact
      <4>3. CASE Exact(cur) /\ cur.end = k - 1
        <5>1. /\ cur.n = (k - 1) - cur.start + 1
              /\ cur.bns = cur.start .. k - 1
              /\ cur.n \in Nat /\ cur.start \in Nat
          BY <2>2, <4>3 DEF Exact, Part
        <5>2. cur.start <= k /\ cur.n + 1 = k - cur.start + 1
          BY <1>1, <5>1
        <5>3. (cur.start .. k - 1) \cup {k} = cur.start .. k
          BY <1>1, <5>1, <5>2
        <5> QED
          BY <4>1, <5>1, <5>2, <5>3 DEF Exact
      <4> QED
        BY <1>4, <2>1, <2>2, <4>2, <4>3
    <3> QED
      BY <1>3, <3>1, <3>2
  <2>5. ASSUME NEW i \in 1 .. Len(next), next[i] # d
        PROVE  Exact(next[i])
    <3>1. /\ i \in 1 .. Len(made) /\ next[i] = made[i]
          /\ Joins(made, next, k, d) => i # Len(made)
      BY <1>5, <2>5
    <3>2. CASE \A j \in 1 .. Len(made) : Exact(made[j])
      BY <3>1, <3>2
    <3>3. CASE Len(made) = 1 /\ ~Full(cur, k)
      <4>1. Joins(made, next, k, d)
        BY <1>3, <3>3 DEF cur
      <4> QED
        BY <3>1, <3>3, <4>1
    <3> QED
      BY <2>1, <3>2, <3>3
  <2>6. Last(next).end = k
    BY <1>3, <1>4
  <2> QED
    BY <2>3, <2>4, <2>5, <2>6
<1>12. ExactAt(bns, done \cup {k}, next)
  BY <1>11 DEF ExactAt
<1>13. AnchorsGrow(bns) => OrderedAt(bns, done \cup {k}, next)
  BY <1>2, OrderedNext DEF MadeOf, next
<1>14. MadeOf(bns, done \cup {k}, next)
  BY <1>3, <1>9, <1>10, <1>12, <1>13 DEF MadeOf
<1> QED
  BY <1>14 DEF next

(* The blocks done before anchor a, and in it up to the block k.           *)
BelowAnchor(bns, a) == {bn \in bns : blocks[bn].anchor < a}
DoneUpTo(bns, a, k) ==
  {bn \in bns : \/ blocks[bn].anchor < a
                \/ blocks[bn].anchor = a /\ bn <= k}

LEMMA MadeOfAnchor ==
  ASSUME blocks \in L2, NEW bns, GroupOf(bns), NEW a \in Nat, NEW before,
         MadeOf(bns, BelowAnchor(bns, a), before)
  PROVE  MadeOf(bns, BelowAnchor(bns, a + 1),
                AddedUpTo(before, InAnchor(bns, a))[Len(blocks)])
<1> DEFINE N == Len(blocks)
           g == InAnchor(bns, a)
           f == AddedUpTo(before, g)
           S == {k \in Nat : k <= N => MadeOf(bns, DoneUpTo(bns, a, k), f[k])}
<1>1. /\ N \in Nat /\ bns \subseteq Nat
      /\ \A bn \in bns : /\ bn \in 1 .. N /\ bn \in Nat
                         /\ blocks[bn].anchor \in Nat
  BY GroupType
<1>2. \A k \in 0 .. N : f[k] = AddStep(before, g, f, k)
  BY AddedUpToIs
<1>3. \A bn : bn \in g <=> bn \in bns /\ blocks[bn].anchor = a
  BY DEF InAnchor
<1> HIDE DEF f, g, N
<1>4. 0 \in S
  <2>1. f[0] = before
    BY <1>1, <1>2 DEF AddStep
  <2>2. DoneUpTo(bns, a, 0) = BelowAnchor(bns, a)
    <3>1. \A bn \in bns : ~(bn <= 0)
      BY <1>1
    <3> QED
      BY <3>1 DEF DoneUpTo, BelowAnchor
  <2> QED
    BY <2>1, <2>2
<1>5. ASSUME NEW k \in S
      PROVE  k + 1 \in S
  <2> SUFFICES ASSUME k + 1 <= N
               PROVE  MadeOf(bns, DoneUpTo(bns, a, k + 1), f[k + 1])
    BY <1>5
  <2>1. k \in Nat /\ k <= N /\ k + 1 \in 0 .. N /\ k + 1 # 0 /\ (k + 1) - 1 = k
    BY <1>1, <1>5
  <2>2. MadeOf(bns, DoneUpTo(bns, a, k), f[k])
    BY <1>5, <2>1
  <2>3. f[k + 1] = IF k + 1 \in g THEN Added(f[k], k + 1) ELSE f[k]
    <3>1. f[k + 1] = AddStep(before, g, f, k + 1)
      BY <1>2, <2>1
    <3> QED
      BY <2>1, <3>1 DEF AddStep
  <2>4. \A bn \in bns : bn <= k + 1 <=> bn <= k \/ bn = k + 1
    BY <1>1, <2>1
  <2>5. CASE k + 1 \in g
    <3>1. k + 1 \in bns /\ blocks[k + 1].anchor = a
      BY <1>3, <2>5
    <3>2. DoneUpTo(bns, a, k + 1) = DoneUpTo(bns, a, k) \cup {k + 1}
      BY <2>4, <3>1 DEF DoneUpTo
    <3>3. ASSUME AnchorsGrow(bns), NEW bn \in bns
          PROVE  bn \in DoneUpTo(bns, a, k) <=> bn < k + 1
      <4>1. /\ bn < k + 1 => blocks[bn].anchor <= a
            /\ k + 1 < bn => a <= blocks[bn].anchor
        BY <3>1, <3>3 DEF AnchorsGrow
      <4>2. bn \in Nat /\ blocks[bn].anchor \in Nat
        BY <1>1
      <4>3. bn \in DoneUpTo(bns, a, k) <=>
              blocks[bn].anchor < a \/ (blocks[bn].anchor = a /\ bn <= k)
        BY DEF DoneUpTo
      <4>4. bn = k + 1 => blocks[bn].anchor = a
        BY <3>1
      <4> QED
        BY <2>1, <4>1, <4>2, <4>3, <4>4
    <3>4. DoneUpTo(bns, a, k) \subseteq bns
      BY DEF DoneUpTo
    <3>5. NextAfter(bns, DoneUpTo(bns, a, k), k + 1)
      BY <3>1, <3>3, <3>4 DEF NextAfter
    <3>6. MadeOf(bns, DoneUpTo(bns, a, k) \cup {k + 1}, Added(f[k], k + 1))
      BY <2>2, <3>5, MadeNext
    <3> QED
      BY <2>3, <2>5, <3>2, <3>6
  <2>6. CASE k + 1 \notin g
    <3>1. DoneUpTo(bns, a, k + 1) = DoneUpTo(bns, a, k)
      BY <1>3, <2>4, <2>6 DEF DoneUpTo
    <3> QED
      BY <2>2, <2>3, <2>6, <3>1
  <2> QED
    BY <2>5, <2>6
<1>6. S \subseteq Nat
  OBVIOUS
<1>7. \A n \in Nat : n \in S
  <2> HIDE DEF S
  <2> QED
    BY <1>4, <1>5, <1>6, InductionSet
<1>8. MadeOf(bns, DoneUpTo(bns, a, N), f[N])
  BY <1>1, <1>7
<1>9. DoneUpTo(bns, a, N) = BelowAnchor(bns, a + 1)
  <2>1. \A bn \in bns : /\ bn <= N
                        /\ blocks[bn].anchor < a + 1 <=>
                             blocks[bn].anchor < a \/ blocks[bn].anchor = a
    BY <1>1
  <2> QED
    BY <2>1 DEF DoneUpTo, BelowAnchor
<1> QED
  BY <1>8, <1>9 DEF f, g, N

LEMMA MadeOfAll ==
  ASSUME blocks \in L2, NEW bns, GroupOf(bns)
  PROVE  MadeOf(bns, bns, RequestsBelow(bns)[MaxAnchor + 1])
<1> DEFINE f == RequestsBelow(bns)
           M == MaxAnchor + 1
           S == {a \in Nat : a <= M => MadeOf(bns, BelowAnchor(bns, a), f[a])}
<1>1. /\ MaxAnchor \in Nat /\ M \in Nat
      /\ \A bn \in bns : blocks[bn].anchor \in Nat /\ blocks[bn].anchor < M
  <2>1. MaxAnchor \in Nat
    BY ProposerBounds
  <2>2. \A bn \in bns : /\ blocks[bn].anchor \in Nat
                        /\ blocks[bn].anchor <= MaxAnchor
    BY GroupType
  <2> QED
    BY <2>1, <2>2
<1>2. \A a \in 0 .. M : f[a] = AnchorStep(bns, f, a)
  BY RequestsBelowIs
<1> HIDE DEF f, M
<1>3. 0 \in S
  <2>1. f[0] = <<NewRequest(FirstOf(bns))>>
    BY <1>1, <1>2 DEF AnchorStep
  <2>2. BelowAnchor(bns, 0) = {}
    <3>1. \A bn \in bns : ~(blocks[bn].anchor < 0)
      BY <1>1
    <3> QED
      BY <3>1 DEF BelowAnchor
  <2>3. MadeOf(bns, BelowAnchor(bns, 0), f[0])
    BY <2>1, <2>2, MadeFirst
  <2> QED
    BY <2>3
<1>4. ASSUME NEW a \in S
      PROVE  a + 1 \in S
  <2> SUFFICES ASSUME a + 1 <= M
               PROVE  MadeOf(bns, BelowAnchor(bns, a + 1), f[a + 1])
    BY <1>4
  <2>1. a \in Nat /\ a <= M /\ a + 1 \in 0 .. M /\ a + 1 # 0 /\ (a + 1) - 1 = a
    BY <1>1, <1>4
  <2>2. MadeOf(bns, BelowAnchor(bns, a), f[a])
    BY <1>4, <2>1
  <2>3. f[a + 1] = AddedUpTo(f[a], InAnchor(bns, a))[Len(blocks)]
    <3>1. f[a + 1] = AnchorStep(bns, f, a + 1)
      BY <1>2, <2>1
    <3> QED
      BY <2>1, <3>1 DEF AnchorStep
  <2> QED
    BY <2>1, <2>2, <2>3, MadeOfAnchor
<1>5. S \subseteq Nat
  OBVIOUS
<1>6. \A n \in Nat : n \in S
  <2> HIDE DEF S
  <2> QED
    BY <1>3, <1>4, <1>5, InductionSet
<1>7. MadeOf(bns, BelowAnchor(bns, M), f[M])
  BY <1>1, <1>6
<1>8. BelowAnchor(bns, M) = bns
  BY <1>1 DEF BelowAnchor
<1> QED
  BY <1>7, <1>8 DEF f, M

(* The requests of a group are batches of at most MaxPerBatch blocks, hold *)
(* all of its blocks, are runs of them if these are small enough and       *)
(* straight, and come in their order if the anchors do not go down.        *)
Requested(g, rs) ==
  /\ rs \in Seq(Batch)
  /\ \A i \in 1 .. Len(rs) : rs[i].n <= MaxPerBatch
  /\ \A bn \in g : \E i \in 1 .. Len(rs) : bn \in rs[i].bns
  /\ SmallBlocks /\ Straight(g) => \A i \in 1 .. Len(rs) : Exact(rs[i])
  /\ AnchorsGrow(g) => /\ Len(rs) \in 1 .. Len(rs)
                       /\ Within(g, rs) /\ Ascending(rs)
                       /\ \A bn \in g : bn <= rs[Len(rs)].end

LEMMA RequestsOfGroup ==
  ASSUME blocks \in L2, NEW g, GroupOf(g)
  PROVE  Requested(g, RequestsFrom(g))
<1> DEFINE made == RequestsBelow(g)[MaxAnchor + 1]
           rs == [i \in DOMAIN made |-> [start |-> made[i].start,
                                         end |-> made[i].end, n |-> made[i].n,
                                         bns |-> made[i].bns]]
<1>1. RequestsFrom(g) = rs
  BY DEF RequestsFrom
<1>2. MadeOf(g, g, made) /\ g # {}
  BY MadeOfAll DEF GroupOf
<1> HIDE DEF made
<1>3. /\ made \in Seq(Part) /\ Len(made) \in Nat /\ DOMAIN made = 1 .. Len(made)
      /\ Len(made) \in 1 .. Len(made) /\ Last(made) = made[Len(made)]
  BY <1>2, LenProperties, LastOf DEF MadeOf
<1>4. /\ \A i \in 1 .. Len(made) : made[i].n <= MaxPerBatch
      /\ \A bn \in g : \E i \in 1 .. Len(made) : bn \in made[i].bns
      /\ ExactAt(g, g, made)
  BY <1>2 DEF MadeOf
<1>5. \A i \in 1 .. Len(made) : made[i] \in Part
  BY <1>3, ElementOfSeq
<1>6. \A i \in 1 .. Len(made) :
        /\ rs[i] \in Batch /\ rs[i].start = made[i].start
        /\ rs[i].end = made[i].end /\ rs[i].n = made[i].n
        /\ rs[i].bns = made[i].bns
  BY <1>3, <1>5 DEF Part, Batch
<1>7. rs \in Seq(Batch) /\ Len(rs) = Len(made)
  <2>1. rs \in [1 .. Len(made) -> Batch]
    BY <1>3, <1>6
  <2> HIDE DEF rs
  <2> QED
    BY <1>3, <2>1, SeqDef
<1> HIDE DEF rs
<1>8. \A bn \in g : \E i \in 1 .. Len(rs) : bn \in rs[i].bns
  BY <1>4, <1>6, <1>7
<1>9. ASSUME SmallBlocks, Straight(g)
      PROVE  \A i \in 1 .. Len(rs) : Exact(rs[i])
  <2>1. \A i \in 1 .. Len(made) : Exact(made[i])
    BY <1>2, <1>4, <1>9 DEF ExactAt
  <2> QED
    BY <1>6, <1>7, <2>1 DEF Exact
<1>10. \A i \in 1 .. Len(rs) : rs[i].n <= MaxPerBatch
  BY <1>4, <1>6, <1>7
<1>11. ASSUME AnchorsGrow(g)
       PROVE  /\ Len(rs) \in 1 .. Len(rs)
              /\ Within(g, rs) /\ Ascending(rs)
              /\ \A bn \in g : bn <= rs[Len(rs)].end
  <2>1. OrderedAt(g, g, made)
    BY <1>2, <1>11 DEF MadeOf
  <2>2. Within(g, rs)
    BY <1>6, <1>7, <2>1 DEF OrderedAt, Within, Spans
  <2>3. Ascending(rs)
    <3> SUFFICES ASSUME NEW j \in 1 .. Len(made), NEW i \in 1 .. j - 1,
                        rs[i].n > 0
                 PROVE  rs[i].end < rs[j].start
      BY <1>7 DEF Ascending
    <3>1. i \in 1 .. Len(made)
      BY <1>3
    <3> QED
      BY <1>6, <2>1, <3>1 DEF OrderedAt, Ascending
  <2>4. \A bn \in g : bn <= rs[Len(rs)].end
    BY <1>3, <1>6, <1>7, <2>1 DEF OrderedAt
  <2> QED
    BY <1>3, <1>7, <2>2, <2>3, <2>4
<1> QED
  BY <1>1, <1>7, <1>8, <1>9, <1>10, <1>11 DEF Requested

-----------------------------------------------------------------------------
(* The inductive invariant.  What waits in the queue, and the Resync to be *)
(* verified, name blocks that exist; so do the groups of a Resync, which,  *)
(* unless they are excused, have no gaps, because anchors did not go down  *)
(* over its blocks or because the validation would have told.              *)
Sound(r, tip) ==
  /\ 1 <= r.start /\ r.start <= r.end /\ r.end <= tip
  /\ ~r.resync => r.n = r.end - r.start + 1 /\ r.n <= MaxPerBatch

Grouped(g, tip) == g # {} /\ g \subseteq 1 .. tip

WorkInv ==
  /\ \A i \in 1 .. Len(queue) : Sound(queue[i], Len(blocks))
  /\ job # None => Sound(job, Len(blocks))
  /\ \A g \in groups : Grouped(g, Len(blocks))

StraightInv == ~excused => \A g \in groups : Straight(g)

CountsFit(b, rs) ==
  /\ b # None => b.n <= MaxPerBatch
  /\ \A i \in 1 .. Len(rs) : rs[i].n <= MaxPerBatch
AllExact(b, rs) ==
  /\ b # None => Exact(b)
  /\ \A i \in 1 .. Len(rs) : Exact(rs[i])

ExactInv ==
  /\ CountsFit(batch, rest)
  /\ SmallBlocks /\ ~excused => AllExact(batch, rest)

(* What L1 may undo is ordered: an inclusion that ceases to be the first   *)
(* leaves more final than before.                                          *)
HistoryInv ==
  \A i \in 1 .. Len(included) :
    /\ included[i].before <= inbox
    /\ \A j \in 1 .. i : included[j].before <= included[i].before

(* The nonces of one account, until L1 undoes one.                         *)
NonceInv ==
  /\ pc \in {"send", "wait"} => last_used_nonce # None
  /\ ~l1_reorged =>
       /\ last_used_nonce # None => last_used_nonce <= nonce
       /\ \A t \in pool : t.nonce = nonce
       /\ \A i \in 1 .. Len(included) :
            included[i].tx # None => included[i].tx.nonce < nonce

(* Where the blocks handed over are.                                       *)
FinalOf(inc, box) == IF inc = <<>> THEN box ELSE inc[1].before

KeptIn(bn, fin, q, rs, b, gs, cs) ==
  \/ bn \in 1 .. fin
  \/ \E i \in 1 .. Len(q) : bn \in BlocksOf(q[i])
  \/ \E i \in 1 .. Len(rs) : bn \in rs[i].bns
  \/ b # None /\ bn \in b.bns
  \/ \E g \in gs : bn \in g
  \/ \E t \in cs : bn \in t.bns

KeptInv ==
  \A bn \in owed :
    KeptIn(bn, FinalOf(included, inbox), queue, rest, batch, groups, checks)

Inv ==
  /\ TypeOK /\ LivePendingExact /\ DelayedWhileRetrying
  /\ WorkInv /\ StraightInv /\ KeptInv /\ ExactInv /\ HistoryInv /\ NonceInv

-----------------------------------------------------------------------------
(* The groups of a Resync.                                                 *)
GroupsOf(r, gs) ==
  /\ \A g \in gs : Grouped(g, Len(blocks))
  /\ \A bn \in BlocksOf(r) : \E g \in gs : bn \in g

LEMMA ResyncBlocks ==
  ASSUME blocks \in L2, NEW r \in Request, Sound(r, Len(blocks))
  PROVE  /\ Grouped(BlocksOf(r), Len(blocks)) /\ Dense(BlocksOf(r))
         /\ \A bn \in BlocksOf(r) : /\ bn \in 1 .. Len(blocks) /\ bn \in Nat
                                    /\ blocks[bn].anchor \in Nat
<1>1. Len(blocks) \in Nat /\ r.start \in Nat /\ r.end \in Nat
  BY LenProperties DEF L2, Request
<1>2. 1 <= r.start /\ r.start <= r.end /\ r.end <= Len(blocks)
  BY DEF Sound
<1>3. r.start \in BlocksOf(r)
  BY <1>1, <1>2 DEF BlocksOf
<1>4. \A bn \in BlocksOf(r) : bn \in 1 .. Len(blocks) /\ bn \in Nat
  BY <1>1, <1>2 DEF BlocksOf
<1>5. ASSUME NEW a \in BlocksOf(r), NEW c \in BlocksOf(r), NEW b \in a .. c
      PROVE  b \in BlocksOf(r)
  BY <1>1 DEF BlocksOf
<1>6. \A bn \in BlocksOf(r) : blocks[bn].anchor \in Nat
  BY <1>4, BlockType
<1> QED
  BY <1>3, <1>4, <1>5, <1>6 DEF Grouped, Dense

LEMMA AllTogetherGroups ==
  ASSUME blocks \in L2, NEW r \in Request, Sound(r, Len(blocks))
  PROVE  /\ GroupsOf(r, AllTogether(BlocksOf(r)))
         /\ AnchorsGrow(BlocksOf(r)) =>
              \A g \in AllTogether(BlocksOf(r)) : Straight(g)
<1>1. Grouped(BlocksOf(r), Len(blocks)) /\ Dense(BlocksOf(r))
  BY ResyncBlocks
<1> QED
  BY <1>1 DEF AllTogether, GroupsOf, Straight

LEMMA ByAnchorIs ==
  ASSUME NEW bns
  PROVE  /\ \A g \in ByAnchor(bns) :
              \E o \in bns : g = InAnchor(bns, blocks[o].anchor)
         /\ \A o \in bns : /\ InAnchor(bns, blocks[o].anchor) \in ByAnchor(bns)
                           /\ o \in InAnchor(bns, blocks[o].anchor)
BY DEF ByAnchor, InAnchor

LEMMA ByAnchorGroups ==
  ASSUME blocks \in L2, NEW r \in Request, Sound(r, Len(blocks))
  PROVE  GroupsOf(r, ByAnchor(BlocksOf(r)))
<1> DEFINE bns == BlocksOf(r)
<1>1. \A bn \in bns : bn \in 1 .. Len(blocks)
  BY ResyncBlocks
<1> HIDE DEF bns
<1>2. ASSUME NEW g \in ByAnchor(bns)
      PROVE  Grouped(g, Len(blocks))
  <2>1. PICK o \in bns : g = InAnchor(bns, blocks[o].anchor)
    BY ByAnchorIs
  <2>2. o \in g /\ g \subseteq bns
    BY <2>1 DEF InAnchor
  <2> QED
    BY <1>1, <2>2 DEF Grouped
<1>3. \A bn \in bns : \E g \in ByAnchor(bns) : bn \in g
  BY ByAnchorIs
<1> QED
  BY <1>2, <1>3 DEF GroupsOf, bns

LEMMA AnchorOfGroup ==
  ASSUME NEW bns, NEW o \in bns, blocks[o].anchor \in Nat
  PROVE  AnchorOf(InAnchor(bns, blocks[o].anchor)) = blocks[o].anchor
<1> DEFINE x == blocks[o].anchor
           S == {blocks[bn].anchor : bn \in InAnchor(bns, x)}
<1>1. S = {x}
  BY DEF InAnchor
<1>2. S \subseteq Nat /\ S # {}
  BY <1>1
<1> HIDE DEF S
<1>3. Min(S) \in S
  BY <1>2, MinOfNumbers
<1>4. Min(S) = x
  BY <1>1, <1>3
<1> QED
  BY <1>4 DEF AnchorOf, S

(* The blocks of one anchor are adjacent if anchors do not go down; and if *)
(* each of them is before all blocks of a higher one.                      *)
LEMMA ByAnchorStraight ==
  ASSUME blocks \in L2, NEW r \in Request, Sound(r, Len(blocks)),
         AnchorsGrow(BlocksOf(r)) \/ InOrder(ByAnchor(BlocksOf(r)))
  PROVE  \A g \in ByAnchor(BlocksOf(r)) : Straight(g)
<1> DEFINE bns == BlocksOf(r)
<1>1. /\ Dense(bns) /\ (AnchorsGrow(bns) \/ InOrder(ByAnchor(bns)))
      /\ \A bn \in bns : bn \in Nat /\ blocks[bn].anchor \in Nat
  BY ResyncBlocks
<1> HIDE DEF bns
<1>2. ASSUME NEW i \in bns, NEW j \in bns, blocks[i].anchor < blocks[j].anchor
      PROVE  i < j
  <2>1. i \in Nat /\ j \in Nat
        /\ blocks[i].anchor \in Nat /\ blocks[j].anchor \in Nat
    BY <1>1
  <2>2. CASE AnchorsGrow(bns)
    <3>1. j < i => blocks[j].anchor <= blocks[i].anchor
      BY <2>2 DEF AnchorsGrow
    <3>2. i # j
      BY <1>2, <2>1
    <3> QED
      BY <1>2, <2>1, <3>1, <3>2
  <2>3. CASE InOrder(ByAnchor(bns))
    <3> DEFINE g == InAnchor(bns, blocks[i].anchor)
               h == InAnchor(bns, blocks[j].anchor)
    <3>1. g \in ByAnchor(bns) /\ h \in ByAnchor(bns) /\ i \in g /\ j \in h
      BY ByAnchorIs
    <3>2. AnchorOf(g) < AnchorOf(h)
      BY <1>2, <2>1, AnchorOfGroup
    <3> HIDE DEF g, h
    <3> QED
      BY <2>3, <3>1, <3>2 DEF InOrder
  <2> QED
    BY <1>1, <2>2, <2>3
<1>3. ASSUME NEW g \in ByAnchor(bns)
      PROVE  Straight(g)
  <2>1. PICK o \in bns : g = InAnchor(bns, blocks[o].anchor)
    BY ByAnchorIs
  <2> DEFINE x == blocks[o].anchor
  <2>2. \A bn : bn \in g <=> bn \in bns /\ blocks[bn].anchor = x
    BY <2>1 DEF InAnchor
  <2>3. x \in Nat
    BY <1>1
  <2> HIDE DEF x
  <2>4. ASSUME NEW a \in g, NEW c \in g, NEW b \in a .. c
        PROVE  b \in g
    <3>1. /\ a \in bns /\ c \in bns /\ a \in Nat /\ c \in Nat
          /\ blocks[a].anchor = x /\ blocks[c].anchor = x
      BY <1>1, <2>2
    <3>2. b \in bns
      BY <1>1, <3>1 DEF Dense
    <3>3. /\ blocks[b].anchor \in Nat /\ b \in Nat /\ a <= b /\ b <= c
      BY <1>1, <3>1, <3>2
    <3>4. ~(blocks[b].anchor < x)
      BY <1>2, <3>1, <3>2, <3>3
    <3>5. ~(x < blocks[b].anchor)
      BY <1>2, <3>1, <3>2, <3>3
    <3> QED
      BY <2>2, <2>3, <3>2, <3>3, <3>4, <3>5
  <2>5. \A i, j \in g : blocks[i].anchor <= blocks[j].anchor
    BY <2>2, <2>3
  <2> QED
    BY <2>4, <2>5 DEF Straight, Dense, AnchorsGrow
<1> QED
  BY <1>3 DEF bns

LEMMA StartResyncGroups ==
  ASSUME blocks \in L2, NEW r \in Request, Sound(r, Len(blocks)),
         StartResync(r)
  PROVE  /\ GroupsOf(r, groups') /\ (job' = r \/ job' = None)
         /\ excused' \in BOOLEAN
         /\ ~excused' => \A g \in groups' : Straight(g)
<1> DEFINE bns == BlocksOf(r)
<1>1. CASE /\ AsTheyAre(bns)
           /\ groups' = ByAnchor(bns) /\ job' = r
  <2>1. PICK pending \in SUBSET {g \in ByAnchor(bns) : MaybePending(g)},
             tied \in BOOLEAN :
          /\ Validated(bns, ByAnchor(bns) \ pending, tied)
          /\ excused' = (~AnchorsGrow(bns) /\ (tied \/ pending # {}))
    BY <1>1 DEF AsTheyAre
  <2>2. ~tied /\ pending = {} => InOrder(ByAnchor(bns))
    BY <2>1 DEF Validated
  <2>3. ~excused' => AnchorsGrow(bns) \/ InOrder(ByAnchor(bns))
    BY <2>1, <2>2
  <2>4. GroupsOf(r, ByAnchor(bns))
    BY ByAnchorGroups
  <2>5. ~excused' => \A g \in ByAnchor(bns) : Straight(g)
    BY <2>3, ByAnchorStraight
  <2>6. excused' \in BOOLEAN
    BY <2>1
  <2> QED
    BY <1>1, <2>4, <2>5, <2>6
<1>2. CASE /\ groups' = AllTogether(bns) /\ job' = None
           /\ excused' = ~AnchorsGrow(bns)
  BY <1>2, AllTogetherGroups
<1> QED
  BY <1>1, <1>2 DEF StartResync

-----------------------------------------------------------------------------
(* None is none of the records.                                            *)
LEMMA NoneIsNot ==
  /\ \A b \in Batch : b # None
  /\ \A r \in Request : r # None
  /\ \A t \in Tx : t # None
  /\ \A n \in Nat : n # None
BY NoneAssumption

(* What waits in the queue, counted.                                       *)
CountOf(q) == Cardinality({i \in DOMAIN q : ~q[i].resync})

LEMMA CountIs ==
  ASSUME NEW q \in Seq(Request)
  PROVE  /\ IsFiniteSet({i \in 1 .. Len(q) : ~q[i].resync})
         /\ CountOf(q) = Cardinality({i \in 1 .. Len(q) : ~q[i].resync})
         /\ CountOf(q) \in Nat
<1> DEFINE S == {i \in 1 .. Len(q) : ~q[i].resync}
<1>1. DOMAIN q = 1 .. Len(q) /\ Len(q) \in Nat
  BY LenProperties
<1>2. IsFiniteSet(1 .. Len(q))
  BY <1>1, FS_Interval
<1>3. IsFiniteSet(S)
  <2>1. S \subseteq 1 .. Len(q)
    OBVIOUS
  <2> QED
    BY <1>2, <2>1, FS_Subset
<1>4. Cardinality(S) \in Nat
  BY <1>3, FS_CardinalityType
<1>5. CountOf(q) = Cardinality(S)
  BY <1>1 DEF CountOf
<1> QED
  BY <1>3, <1>4, <1>5

LEMMA CountAppend ==
  ASSUME NEW q \in Seq(Request), NEW r \in Request
  PROVE  CountOf(Append(q, r)) = CountOf(q) + (IF r.resync THEN 0 ELSE 1)
<1> DEFINE p == Append(q, r)
           n == Len(q)
           S == {i \in 1 .. Len(q) : ~q[i].resync}
           T == {i \in 1 .. Len(p) : ~p[i].resync}
<1>1. /\ p \in Seq(Request) /\ Len(p) = n + 1 /\ p[n + 1] = r /\ n \in Nat
      /\ \A i \in 1 .. n : p[i] = q[i]
  BY AppendProperties, LenProperties
<1>2. CountOf(p) = Cardinality(T) /\ CountOf(q) = Cardinality(S)
      /\ IsFiniteSet(S) /\ Cardinality(S) \in Nat
  BY <1>1, CountIs
<1>3. T = IF r.resync THEN S ELSE S \cup {n + 1}
  <2>1. \A i : i \in 1 .. Len(p) <=> i \in 1 .. n \/ i = n + 1
    BY <1>1
  <2> QED
    BY <1>1, <2>1
<1>4. n + 1 \notin S
  BY <1>1
<1> HIDE DEF S, T, p
<1>5. IsFiniteSet(S \cup {n + 1})
      /\ Cardinality(S \cup {n + 1}) = Cardinality(S) + 1
  BY <1>2, <1>4, FS_AddElement
<1> QED
  BY <1>2, <1>3, <1>5 DEF p

LEMMA CountTail ==
  ASSUME NEW q \in Seq(Request), q # <<>>
  PROVE  CountOf(q) = CountOf(Tail(q)) + (IF Head(q).resync THEN 0 ELSE 1)
<1> DEFINE p == Tail(q)
           n == Len(q)
           S == {i \in 1 .. n : ~q[i].resync}
           T == {i \in 1 .. Len(p) : ~p[i].resync}
           U == {i \in S : i # 1}
           f == [i \in T |-> i + 1]
<1>1. /\ p \in Seq(Request) /\ n \in Nat /\ n >= 1 /\ Len(p) = n - 1
      /\ \A i \in 1 .. n - 1 : p[i] = q[i + 1]
      /\ Head(q) = q[1]
  BY HeadTailProperties, LenProperties, EmptySeq
<1>2. CountOf(p) = Cardinality(T) /\ CountOf(q) = Cardinality(S)
      /\ IsFiniteSet(S) /\ IsFiniteSet(T) /\ Cardinality(T) \in Nat
  BY <1>1, CountIs
<1>3. \A i \in T : i \in Nat /\ i + 1 \in U
  BY <1>1
<1>4. \A j \in U : j - 1 \in T /\ (j - 1) + 1 = j
  <2>1. ASSUME NEW j \in U
        PROVE  j - 1 \in 1 .. n - 1 /\ (j - 1) + 1 = j /\ ~q[j].resync
    BY <1>1
  <2>2. ASSUME NEW j \in U
        PROVE  p[j - 1] = q[j]
    <3>1. p[j - 1] = q[(j - 1) + 1]
      BY <1>1, <2>1
    <3> QED
      BY <2>1, <3>1
  <2> QED
    BY <1>1, <2>1, <2>2
<1>5. U = IF Head(q).resync THEN S ELSE S \ {1}
  BY <1>1
<1>6. ~Head(q).resync => 1 \in S
  BY <1>1
<1> HIDE DEF S, T, U, p
<1>7. f \in Bijection(T, U)
  <2>1. \A i, j \in T : f[i] = f[j] => i = j
    BY <1>3
  <2>2. \A j \in U : \E i \in T : f[i] = j
    BY <1>4
  <2>3. f \in [T -> U]
    BY <1>3
  <2> HIDE DEF f
  <2> QED
    BY <2>1, <2>2, <2>3 DEF Bijection, Injection, IsInjective, Surjection
<1>8. Cardinality(T) = Cardinality(U)
  BY <1>2, <1>7, FS_Bijection DEF ExistsBijection
<1>9. Cardinality(S \ {1}) = Cardinality(S) - 1 \/ Head(q).resync
  BY <1>2, <1>6, FS_RemoveElement
<1>10. Cardinality(S) \in Nat
  BY <1>2, FS_CardinalityType
<1> QED
  BY <1>2, <1>5, <1>8, <1>9, <1>10 DEF p

-----------------------------------------------------------------------------
(* The steps, by what becomes of the work: an end of the batch at hand,    *)
(* proposed or given up, is one kind; what neither takes, ends nor forgets *)
(* work is another.                                                        *)
work == <<queue, job, groups, rest, excused, batch, live_pending, checks, owed,
          blocks>>

EndsBatch ==
  /\ batch # None
  /\ \/ pc = "wait" /\ Done(Watched, {})
     \/ Done({}, batch.bns)
  /\ last_used_nonce' = None
  /\ UNCHANGED <<jobVars, l1Vars, blocks>>

LEMMA Effects ==
  ASSUME TypeOK, [Next]_vars
  PROVE  \/ SendBatch \/ OtherBlock \/ RequestResync
         \/ RecvBatch \/ RecvResync \/ NextGroup \/ NextInGroup \/ EndResync
         \/ EndsBatch \/ ReorgCheckPasses \/ Restart
         \/ UNCHANGED work
<1>1. pc # "recv" => batch # None
  BY DEF TypeOK
<1>2. GetNonce => EndsBatch \/ UNCHANGED work
  BY <1>1 DEF GetNonce, GiveUp, EndsBatch, work, jobVars, flagVars
<1>3. GasEstimationGivesUp \/ Proposed => EndsBatch
  BY <1>1 DEF GasEstimationGivesUp, Proposed, GiveUp, EndsBatch
<1>4. SendAgain \/ Sent \/ NotIncluded \/ RpcError \/ Reverted
        => UNCHANGED work
  BY DEF SendAgain, Sent, NotIncluded, RpcError, Reverted, Again, Fails, work,
         jobVars, flagVars
<1>5. Include \/ PeerProposes \/ TurnChanges \/ L1Reorg => UNCHANGED work
  BY DEF Include, PeerProposes, TurnChanges, L1Reorg, work, jobVars, batchVars,
         flagVars
<1>6. LastRetryFails \/ ReorgCheckFails \/ Crash => Restart
  BY DEF LastRetryFails, ReorgCheckFails, Crash
<1>7. UNCHANGED vars => UNCHANGED work
  BY DEF vars, work, jobVars, batchVars, flagVars
<1> QED
  BY <1>2, <1>3, <1>4, <1>5, <1>6, <1>7 DEF Next, Process, Environment

LEMMA RequestType ==
  /\ \A r \in Request : /\ r.start \in Nat /\ r.end \in Nat /\ r.n \in Nat
                        /\ r.resync \in BOOLEAN
  /\ \A b \in Batch : /\ b.start \in Nat /\ b.end \in Nat /\ b.n \in Nat
                      /\ b.bns \subseteq Nat
  /\ \A t \in Tx : /\ t.start \in Nat /\ t.end \in Nat /\ t.n \in Nat
                   /\ t.bns \subseteq Nat /\ t.nonce \in Nat
BY DEF Request, Batch, Tx

LEMMA BatchOfRequest ==
  ASSUME NEW r \in Request
  PROVE  /\ [start |-> r.start, end |-> r.end, n |-> r.n, bns |-> BlocksOf(r)]
              \in Batch
         /\ [start |-> r.start, end |-> r.end, n |-> r.n, bns |-> BlocksOf(r)]
              # None
<1>1. /\ r.start \in Nat /\ r.end \in Nat /\ r.n \in Nat
      /\ BlocksOf(r) \in SUBSET Nat
  BY RequestType DEF BlocksOf
<1>2. [start |-> r.start, end |-> r.end, n |-> r.n, bns |-> BlocksOf(r)]
        \in Batch
  BY <1>1 DEF Batch
<1> QED
  BY <1>2, NoneIsNot

(* New blocks go on the chain, on top of those it has.                     *)
LEMMA NewBlocksOnTop ==
  ASSUME blocks \in L2, NEW k \in Nat \ {0}, NEW anchor \in Anchors,
         NewBlocks(k, anchor)
  PROVE  /\ blocks' \in L2 /\ Len(blocks') = Len(blocks) + k
         /\ \A i \in 1 .. Len(blocks) : blocks'[i] = blocks[i]
<1> DEFINE n == Len(blocks)
           Block == [anchor: 0 .. MaxAnchor, size: Sizes]
<1>1. n \in Nat /\ anchor \in 0 .. MaxAnchor
  BY LenProperties DEF L2, Anchors
<1>2. PICK s \in [1 .. k -> Sizes] :
        blocks' = blocks \o [i \in 1 .. k |-> [anchor |-> anchor, size |-> s[i]]]
  BY DEF NewBlocks
<1> DEFINE new == [i \in 1 .. k |-> [anchor |-> anchor, size |-> s[i]]]
<1>3. new \in Seq(Block) /\ Len(new) = k
  <2>1. new \in [1 .. k -> Block]
    BY <1>1
  <2> HIDE DEF new, Block
  <2>2. new \in Seq(Block)
    BY <2>1, SeqDef
  <2>3. Len(new) = k
    BY <2>1, <2>2, LenProperties
  <2> QED
    BY <2>2, <2>3
<1>4. blocks' = blocks \o new
  BY <1>2
<1> HIDE DEF new
<1>5. blocks \in Seq(Block)
  BY DEF L2
<1>6. /\ blocks' \in Seq(Block) /\ Len(blocks') = n + k
      /\ \A i \in 1 .. n + k :
           blocks'[i] = IF i <= n THEN blocks[i] ELSE new[i - n]
  <2> HIDE DEF Block
  <2> QED
    BY <1>3, <1>4, <1>5, ConcatProperties
<1>7. \A i \in 1 .. n : blocks'[i] = blocks[i]
  BY <1>1, <1>6
<1> QED
  BY <1>6, <1>7 DEF L2

-----------------------------------------------------------------------------
(* The work.                                                               *)
TypeWork ==
  /\ queue \in Seq(Request) /\ job \in Request \cup {None}
  /\ groups \subseteq SUBSET Nat /\ rest \in Seq(Batch)
  /\ batch \in Batch \cup {None}
  /\ checks \subseteq Tx /\ owed \subseteq Nat
  /\ blocks \in L2

LEMMA WorkTypes ==
  ASSUME TypeOK
  PROVE  TypeWork
BY DEF TypeOK, TypeWork, L2

LEMMA AtHandType ==
  ASSUME TypeOK, NonceInv, pc \in {"send", "wait"}, NEW last \in BOOLEAN
  PROVE  /\ AtHand(last) \in Tx /\ AtHand(last).nonce = last_used_nonce
         /\ last_used_nonce \in Nat
         /\ AtHand(last).bns = batch.bns
<1>1. last_used_nonce \in Nat /\ batch \in Batch
  BY DEF TypeOK, NonceInv
<1>2. batch.start \in Nat /\ batch.end \in Nat /\ batch.n \in Nat
      /\ batch.bns \subseteq Nat
  BY <1>1 DEF Batch
<1> QED
  BY <1>1, <1>2 DEF AtHand, Tx

(* Of a queue, a chain and a Resync that only grow.                        *)
LEMMA SoundGrows ==
  ASSUME NEW tip \in Nat, NEW tip2 \in Nat, tip <= tip2
  PROVE  /\ \A r \in Request : Sound(r, tip) => Sound(r, tip2)
         /\ \A g : Grouped(g, tip) => Grouped(g, tip2)
<1>1. \A r \in Request : Sound(r, tip) => Sound(r, tip2)
  BY RequestType DEF Sound
<1>2. 1 .. tip \subseteq 1 .. tip2
  OBVIOUS
<1> QED
  BY <1>1, <1>2 DEF Grouped

QueueOf(q, tip) ==
  q \in Seq(Request) /\ \A i \in 1 .. Len(q) : Sound(q[i], tip)

LEMMA QueueGrows ==
  ASSUME NEW q, NEW tip \in Nat, NEW tip2 \in Nat, tip <= tip2, QueueOf(q, tip)
  PROVE  QueueOf(q, tip2)
<1>1. \A i \in 1 .. Len(q) : q[i] \in Request /\ Sound(q[i], tip)
  BY ElementOfSeq DEF QueueOf
<1> QED
  BY <1>1, SoundGrows DEF QueueOf

LEMMA QueueAppend ==
  ASSUME NEW q, NEW tip, QueueOf(q, tip), NEW r \in Request, Sound(r, tip)
  PROVE  QueueOf(Append(q, r), tip)
<1> DEFINE p == Append(q, r)
<1>1. /\ p \in Seq(Request) /\ Len(p) = Len(q) + 1 /\ p[Len(q) + 1] = r
      /\ \A i \in 1 .. Len(q) : p[i] = q[i]
      /\ Len(q) \in Nat
  BY AppendProperties, LenProperties DEF QueueOf
<1> HIDE DEF p
<1>2. \A i \in 1 .. Len(p) : i \in 1 .. Len(q) \/ i = Len(q) + 1
  BY <1>1
<1>3. QueueOf(p, tip)
  BY <1>1, <1>2 DEF QueueOf
<1> QED
  BY <1>3 DEF p

LEMMA QueueTail ==
  ASSUME NEW q, NEW tip, QueueOf(q, tip), q # <<>>
  PROVE  /\ QueueOf(Tail(q), tip)
         /\ Head(q) \in Request /\ Sound(Head(q), tip)
         /\ Head(q) = q[1] /\ 1 \in 1 .. Len(q)
         /\ \A i \in 1 .. Len(q) :
              i = 1 \/ (i - 1 \in 1 .. Len(Tail(q)) /\ q[i] = Tail(q)[i - 1])
<1> DEFINE p == Tail(q)
<1>1. /\ p \in Seq(Request) /\ Len(p) = Len(q) - 1
      /\ \A i \in 1 .. Len(p) : p[i] = q[i + 1]
      /\ Head(q) \in Request /\ Head(q) = q[1]
      /\ Len(q) \in Nat \ {0}
  BY HeadTailProperties, LenProperties, EmptySeq DEF QueueOf
<1> HIDE DEF p
<1>2. \A i \in 1 .. Len(p) : i + 1 \in 1 .. Len(q)
  BY <1>1
<1>3. 1 \in 1 .. Len(q)
  BY <1>1
<1>4. QueueOf(p, tip)
  BY <1>1, <1>2 DEF QueueOf
<1>5. Sound(Head(q), tip)
  BY <1>1, <1>3 DEF QueueOf
<1>6. ASSUME NEW i \in 1 .. Len(q), i # 1
      PROVE  i - 1 \in 1 .. Len(p) /\ q[i] = p[i - 1]
  <2>1. i - 1 \in 1 .. Len(p) /\ (i - 1) + 1 = i
    BY <1>1, <1>6
  <2> QED
    BY <1>1, <2>1
<1> QED
  BY <1>1, <1>3, <1>4, <1>5, <1>6 DEF p

LEMMA RestTail ==
  ASSUME NEW q \in Seq(Batch), q # <<>>
  PROVE  /\ Tail(q) \in Seq(Batch) /\ Len(Tail(q)) = Len(q) - 1
         /\ Head(q) \in Batch /\ Head(q) = q[1] /\ 1 \in 1 .. Len(q)
         /\ Len(q) \in Nat
         /\ \A i \in 1 .. Len(Tail(q)) :
              i + 1 \in 1 .. Len(q) /\ Tail(q)[i] = q[i + 1]
         /\ \A i \in 1 .. Len(q) :
              i = 1 \/ (i - 1 \in 1 .. Len(Tail(q)) /\ q[i] = Tail(q)[i - 1])
<1> DEFINE p == Tail(q)
<1>1. /\ p \in Seq(Batch) /\ Len(p) = Len(q) - 1
      /\ \A i \in 1 .. Len(p) : p[i] = q[i + 1]
      /\ Head(q) \in Batch /\ Head(q) = q[1]
      /\ Len(q) \in Nat \ {0}
  BY HeadTailProperties, LenProperties, EmptySeq
<1> HIDE DEF p
<1>2. \A i \in 1 .. Len(p) : i + 1 \in 1 .. Len(q)
  BY <1>1
<1>3. ASSUME NEW i \in 1 .. Len(q), i # 1
      PROVE  i - 1 \in 1 .. Len(p) /\ q[i] = p[i - 1]
  <2>1. i - 1 \in 1 .. Len(p) /\ (i - 1) + 1 = i
    BY <1>1, <1>3
  <2> QED
    BY <1>1, <2>1
<1> QED
  BY <1>1, <1>2, <1>3 DEF p

LEMMA WorkStep ==
  ASSUME Inv, [Next]_vars
  PROVE  TypeWork' /\ WorkInv'
<1> DEFINE tip == Len(blocks)
<1>1. /\ TypeOK /\ TypeWork /\ NonceInv
      /\ job # None => job \in Request /\ Sound(job, tip)
      /\ \A g \in groups : Grouped(g, tip)
      /\ QueueOf(queue, tip)
      /\ tip \in Nat
  BY WorkTypes, LenProperties DEF Inv, WorkInv, QueueOf, TypeWork, L2
<1> HIDE DEF tip
<1> DEFINE Goal(q, j, gs, bs) ==
             /\ QueueOf(q, Len(bs))
             /\ j \in Request \cup {None}
             /\ j # None => Sound(j, Len(bs))
             /\ gs \subseteq SUBSET Nat
             /\ \A g \in gs : Grouped(g, Len(bs))
             /\ bs \in L2
<1>2. ASSUME Goal(queue', job', groups', blocks'),
             rest' \in Seq(Batch), batch' \in Batch \cup {None},
             checks' \subseteq Tx, owed' \subseteq Nat
      PROVE  TypeWork' /\ WorkInv'
  BY <1>2 DEF TypeWork, WorkInv, QueueOf, L2
<1>3. Goal(queue, job, groups, blocks)
  BY <1>1 DEF TypeWork, tip
<1>4. ASSUME NEW k \in Nat \ {0}, NEW anchor \in Anchors, NewBlocks(k, anchor)
      PROVE  /\ Goal(queue, job, groups, blocks') /\ blocks' \in L2
             /\ Len(blocks') = tip + k /\ Len(blocks') \in Nat
  <2>1. blocks' \in L2 /\ Len(blocks') = tip + k
    BY <1>1, <1>4, NewBlocksOnTop DEF TypeWork, tip
  <2>2. tip + k \in Nat /\ tip <= tip + k
    BY <1>1
  <2>3. QueueOf(queue, tip + k)
    BY <1>1, <2>2, QueueGrows
  <2>4. job # None => Sound(job, tip + k)
    BY <1>1, <2>2, SoundGrows
  <2>5. \A g \in groups : Grouped(g, tip + k)
    BY <1>1, <2>2, SoundGrows
  <2> QED
    BY <1>3, <2>1, <2>2, <2>3, <2>4, <2>5
<1> HIDE DEF Goal
<1>5. CASE SendBatch
  <2>1. PICK k \in 1 .. MaxPerBatch, anchor \in Anchors :
          /\ NewBlocks(k, anchor)
          /\ queue' = Append(queue, [resync |-> FALSE, start |-> Len(blocks) + 1,
                                     end |-> Len(blocks) + k, n |-> k])
          /\ owed' = owed \cup Len(blocks) + 1 .. Len(blocks) + k
    BY <1>5 DEF SendBatch
  <2> DEFINE r == [resync |-> FALSE, start |-> tip + 1, end |-> tip + k, n |-> k]
  <2>2. k \in Nat \ {0}
    BY LimitAssumption
  <2>3. /\ Goal(queue, job, groups, blocks') /\ Len(blocks') = tip + k
        /\ blocks' \in L2
    BY <1>4, <2>1, <2>2
  <2>4. r \in Request /\ Sound(r, tip + k)
    BY <1>1, <2>1, <2>2, LimitAssumption DEF Request, Sound
  <2>5. queue' = Append(queue, r)
    BY <2>1 DEF tip
  <2>6. QueueOf(queue', tip + k)
    <3> HIDE DEF r
    <3>1. QueueOf(queue, tip + k)
      BY <2>3 DEF Goal
    <3> QED
      BY <2>4, <2>5, <3>1, QueueAppend
  <2>7. owed' \subseteq Nat
    <3>1. tip + 1 .. tip + k \subseteq Nat
      BY <1>1, <2>2
    <3> QED
      BY <1>1, <2>1, <3>1 DEF TypeWork, tip
  <2>8. UNCHANGED <<job, groups, rest, batch, checks>>
    BY <1>5 DEF SendBatch, batchVars
  <2>9. Goal(queue', job', groups', blocks')
    BY <2>3, <2>6, <2>8 DEF Goal
  <2> QED
    BY <1>1, <1>2, <2>7, <2>8, <2>9 DEF TypeWork
<1>6. CASE OtherBlock
  <2>1. PICK anchor \in Anchors : NewBlocks(1, anchor)
    BY <1>6 DEF OtherBlock
  <2>2. Goal(queue, job, groups, blocks')
    BY <1>4, <2>1
  <2>3. UNCHANGED <<queue, job, groups, rest, batch, checks, owed>>
    BY <1>6 DEF OtherBlock, jobVars, batchVars, flagVars
  <2> QED
    BY <1>1, <1>2, <2>2, <2>3 DEF TypeWork
<1>7. CASE RequestResync
  <2>1. PICK origin \in 0 .. inbox :
          /\ origin < Len(blocks)
          /\ queue' = Append(queue, [resync |-> TRUE, start |-> origin + 1,
                                     end |-> Len(blocks), n |-> 0])
          /\ owed' = owed \cup origin + 1 .. Len(blocks)
    BY <1>7 DEF RequestResync
  <2> DEFINE r == [resync |-> TRUE, start |-> origin + 1, end |-> tip, n |-> 0]
  <2>2. origin \in Nat /\ origin < tip
    BY <1>1, <2>1 DEF TypeOK, tip
  <2>3. r \in Request /\ Sound(r, tip)
    BY <1>1, <2>2 DEF Request, Sound
  <2>4. queue' = Append(queue, r)
    BY <2>1 DEF tip
  <2>5. QueueOf(queue', tip)
    <3> HIDE DEF r
    <3> QED
      BY <1>1, <2>3, <2>4, QueueAppend
  <2>6. owed' \subseteq Nat
    <3>1. origin + 1 .. tip \subseteq Nat
      BY <2>2
    <3> QED
      BY <1>1, <2>1, <3>1 DEF TypeWork, tip
  <2>7. UNCHANGED <<job, groups, rest, batch, checks, blocks>>
    BY <1>7 DEF RequestResync, batchVars, flagVars
  <2>8. Goal(queue', job', groups', blocks')
    BY <1>3, <2>5, <2>7 DEF Goal, tip
  <2> QED
    BY <1>1, <1>2, <2>6, <2>7, <2>8 DEF TypeWork
<1>8. CASE RecvBatch \/ RecvResync
  <2>1. /\ queue # <<>> /\ queue' = Tail(queue)
        /\ UNCHANGED <<rest, checks, owed, blocks>>
    BY <1>8 DEF RecvBatch, RecvResync, flagVars
  <2>2. QueueOf(queue', tip) /\ Head(queue) \in Request /\ Sound(Head(queue), tip)
    BY <1>1, <2>1, QueueTail
  <2>3. CASE RecvBatch
    <3>1. job' = job /\ groups' = groups
      BY <2>3 DEF RecvBatch
    <3>2. batch' \in Batch
      BY <2>2, <2>3, BatchOfRequest DEF RecvBatch
    <3>3. Goal(queue', job', groups', blocks')
      BY <1>3, <2>1, <2>2, <3>1 DEF Goal, tip
    <3> QED
      BY <1>1, <1>2, <2>1, <3>2, <3>3 DEF TypeWork
  <2>4. CASE RecvResync
    <3>1. StartResync(Head(queue)) /\ batch' = batch
      BY <2>4 DEF RecvResync, batchVars
    <3>2. GroupsOf(Head(queue), groups')
          /\ (job' = Head(queue) \/ job' = None)
      BY <1>1, <2>2, <3>1, StartResyncGroups DEF TypeWork, tip
    <3>3. \A g \in groups' : Grouped(g, tip)
      BY <3>2 DEF GroupsOf, tip
    <3>4. groups' \subseteq SUBSET Nat
      BY <1>1, <3>3 DEF Grouped
    <3>5. Goal(queue', job', groups', blocks')
      BY <1>1, <1>3, <2>1, <2>2, <3>2, <3>3, <3>4 DEF Goal, tip
    <3> QED
      BY <1>1, <1>2, <2>1, <3>1, <3>5 DEF TypeWork
  <2> QED
    BY <1>8, <2>3, <2>4
<1>9. CASE NextGroup
  <2>1. PICK g \in groups : rest' = RequestsFrom(g) /\ groups' = groups \ {g}
    BY <1>9 DEF NextGroup
  <2>2. GroupOf(g)
    BY <1>1 DEF Grouped, GroupOf, tip
  <2>3. rest' \in Seq(Batch)
    BY <1>1, <2>1, <2>2, RequestsOfGroup DEF Requested, TypeWork
  <2>4. UNCHANGED <<queue, job, batch, checks, owed, blocks>>
    BY <1>9 DEF NextGroup, batchVars
  <2>5. Goal(queue', job', groups', blocks')
    BY <1>3, <2>1, <2>4 DEF Goal
  <2> QED
    BY <1>1, <1>2, <2>3, <2>4, <2>5 DEF TypeWork
<1>10. CASE NextInGroup
  <2>1. /\ rest # <<>> /\ batch' = Head(rest) /\ rest' = Tail(rest)
        /\ UNCHANGED <<queue, job, groups, checks, owed, blocks>>
    BY <1>10 DEF NextInGroup, flagVars
  <2>2. batch' \in Batch /\ rest' \in Seq(Batch)
    BY <1>1, <2>1, RestTail DEF TypeWork
  <2>3. Goal(queue', job', groups', blocks')
    BY <1>3, <2>1 DEF Goal
  <2> QED
    BY <1>1, <1>2, <2>1, <2>2, <2>3 DEF TypeWork
<1>11. CASE EndResync
  <2>1. /\ job # None
        /\ \/ job' = None /\ groups' = groups
           \/ StartResync(job)
        /\ UNCHANGED <<queue, rest, batch, checks, owed, blocks>>
    BY <1>11 DEF EndResync, batchVars, flagVars
  <2>2. CASE job' = None /\ groups' = groups
    <3>1. Goal(queue', job', groups', blocks')
      BY <1>3, <2>1, <2>2 DEF Goal
    <3> QED
      BY <1>1, <1>2, <2>1, <3>1 DEF TypeWork
  <2>3. CASE StartResync(job)
    <3>1. GroupsOf(job, groups') /\ (job' = job \/ job' = None)
      BY <1>1, <2>1, <2>3, StartResyncGroups DEF TypeWork, tip
    <3>2. \A g \in groups' : Grouped(g, tip)
      BY <3>1 DEF GroupsOf, tip
    <3>3. groups' \subseteq SUBSET Nat
      BY <1>1, <3>2 DEF Grouped
    <3>4. Goal(queue', job', groups', blocks')
      BY <1>1, <1>3, <2>1, <3>1, <3>2, <3>3 DEF Goal, tip
    <3> QED
      BY <1>1, <1>2, <2>1, <3>4 DEF TypeWork
  <2> QED
    BY <2>1, <2>2, <2>3
<1>12. CASE EndsBatch
  <2>1. UNCHANGED <<queue, job, groups, rest, blocks>> /\ batch' = None
        /\ owed' \subseteq owed
    BY <1>12 DEF EndsBatch, Done, jobVars
  <2>2. checks' \subseteq Tx
    <3>1. CASE pc = "wait" /\ Done(Watched, {})
      BY <1>1, <3>1, AtHandType DEF Done, Watched, TypeWork
    <3>2. CASE Done({}, batch.bns)
      BY <1>1, <3>2 DEF Done, TypeWork
    <3> QED
      BY <1>12, <3>1, <3>2 DEF EndsBatch
  <2>3. Goal(queue', job', groups', blocks')
    BY <1>3, <2>1 DEF Goal
  <2> QED
    BY <1>1, <1>2, <2>1, <2>2, <2>3 DEF TypeWork
<1>13. CASE ReorgCheckPasses
  <2>1. /\ UNCHANGED <<queue, job, groups, rest, batch, blocks>>
        /\ checks' \subseteq checks /\ owed' \subseteq owed
    BY <1>13 DEF ReorgCheckPasses, jobVars, batchVars
  <2>2. Goal(queue', job', groups', blocks')
    BY <1>3, <2>1 DEF Goal
  <2> QED
    BY <1>1, <1>2, <2>1, <2>2 DEF TypeWork
<1>14. CASE Restart
  <2>1. /\ queue' = <<>> /\ job' = None /\ groups' = {} /\ rest' = <<>>
        /\ batch' = None /\ checks' = {} /\ owed' = {} /\ blocks' = blocks
    BY <1>14 DEF Restart
  <2>2. QueueOf(<<>>, tip)
    BY EmptySeq DEF QueueOf
  <2>3. Goal(queue', job', groups', blocks')
    BY <1>3, <2>1, <2>2 DEF Goal, tip
  <2>4. rest' \in Seq(Batch)
    BY <2>1, EmptySeq
  <2> QED
    BY <1>2, <2>1, <2>3, <2>4
<1>15. CASE UNCHANGED work
  <2>1. UNCHANGED <<queue, job, groups, rest, batch, checks, owed, blocks>>
    BY <1>15 DEF work
  <2>2. Goal(queue', job', groups', blocks')
    BY <1>3, <2>1 DEF Goal
  <2> QED
    BY <1>1, <1>2, <2>1, <2>2 DEF TypeWork
<1> QED
  BY <1>1, <1>5, <1>6, <1>7, <1>8, <1>9, <1>10, <1>11, <1>12, <1>13, <1>14,
     <1>15, Effects

-----------------------------------------------------------------------------
(* L1: what is included.                                                   *)
Inclusion == [tx: Tx \cup {None}, ok: BOOLEAN, before: Nat]

LEMMA L1Effects ==
  ASSUME [Next]_vars
  PROVE  \/ Sent \/ ReorgCheckPasses \/ Include \/ PeerProposes \/ L1Reorg
         \/ Restart \/ TurnChanges \/ UNCHANGED l1Vars
BY DEF Next, Process, Environment, RecvBatch, RecvResync, NextGroup,
       NextInGroup, EndResync, GetNonce, GasEstimationGivesUp, SendAgain,
       NotIncluded, Proposed, Reverted, RpcError, LastRetryFails,
       ReorgCheckFails, Crash, SendBatch, OtherBlock, RequestResync, vars

HistoryOf(inc, box) ==
  /\ inc \in Seq(Inclusion) /\ box \in Nat
  /\ \A i \in 1 .. Len(inc) :
       /\ inc[i].before <= box
       /\ \A j \in 1 .. i : inc[j].before <= inc[i].before

LEMMA HistoryType ==
  ASSUME NEW inc, NEW box, HistoryOf(inc, box)
  PROVE  /\ Len(inc) \in Nat /\ FinalOf(inc, box) \in Nat
         /\ inc # <<>> => 1 \in 1 .. Len(inc) /\ Len(inc) \in 1 .. Len(inc)
         /\ \A i \in 1 .. Len(inc) :
              /\ inc[i] \in Inclusion /\ inc[i].before \in Nat
              /\ FinalOf(inc, box) <= inc[i].before
         /\ FinalOf(inc, box) <= box
<1>1. /\ Len(inc) \in Nat
      /\ inc # <<>> => 1 \in 1 .. Len(inc) /\ Len(inc) \in 1 .. Len(inc)
  BY EmptySeq, LenProperties DEF HistoryOf
<1>2. \A i \in 1 .. Len(inc) : inc[i] \in Inclusion /\ inc[i].before \in Nat
  <2>1. \A i \in 1 .. Len(inc) : inc[i] \in Inclusion
    BY ElementOfSeq DEF HistoryOf
  <2> QED
    BY <2>1 DEF Inclusion
<1>3. CASE inc = <<>>
  <2>1. Len(inc) = 0
    BY <1>3
  <2>2. FinalOf(inc, box) = box /\ box \in Nat
    BY <1>3 DEF FinalOf, HistoryOf
  <2> QED
    BY <1>1, <1>2, <2>1, <2>2
<1>4. CASE inc # <<>>
  <2>1. FinalOf(inc, box) = inc[1].before /\ 1 \in 1 .. Len(inc)
    BY <1>1, <1>4 DEF FinalOf
  <2>2. \A i \in 1 .. Len(inc) : 1 \in 1 .. i
    BY <1>1
  <2>3. \A i \in 1 .. Len(inc) : inc[1].before <= inc[i].before
    BY <2>2 DEF HistoryOf
  <2>4. inc[1].before <= box
    BY <2>1 DEF HistoryOf
  <2> QED
    BY <1>1, <1>2, <2>1, <2>3, <2>4
<1> QED
  BY <1>3, <1>4

(* An inclusion comes last, and L1 does not go back with it.               *)
LEMMA HistoryAppend ==
  ASSUME NEW inc, NEW box, HistoryOf(inc, box), NEW box2 \in Nat, box <= box2,
         NEW e \in Inclusion, e.before = box
  PROVE  /\ HistoryOf(Append(inc, e), box2)
         /\ FinalOf(Append(inc, e), box2) = FinalOf(inc, box)
<1> DEFINE p == Append(inc, e)
           n == Len(inc)
<1>1. /\ p \in Seq(Inclusion) /\ Len(p) = n + 1 /\ p[n + 1] = e
      /\ \A i \in 1 .. n : p[i] = inc[i]
      /\ n \in Nat /\ box \in Nat
  BY AppendProperties, LenProperties DEF HistoryOf
<1>2. p # <<>>
  BY <1>1, EmptySeq
<1> HIDE DEF p
<1>3. \A i \in 1 .. Len(p) : i \in 1 .. n \/ i = n + 1
  BY <1>1
<1>4. \A i \in 1 .. n : inc[i].before <= box /\ inc[i].before \in Nat
  BY HistoryType DEF HistoryOf
<1>5. \A i \in 1 .. Len(p) : p[i].before <= box /\ p[i].before <= box2
  <2>1. \A i \in 1 .. n : p[i].before <= box /\ p[i].before \in Nat
    BY <1>1, <1>4
  <2>2. p[n + 1].before = box
    BY <1>1
  <2>3. \A i \in 1 .. Len(p) : p[i].before <= box /\ p[i].before \in Nat
    BY <1>1, <1>3, <2>1, <2>2
  <2> QED
    BY <1>1, <2>3
<1>6. ASSUME NEW i \in 1 .. Len(p), NEW j \in 1 .. i
      PROVE  p[j].before <= p[i].before
  <2>1. CASE i \in 1 .. n
    <3>1. j \in 1 .. n
      BY <1>1, <2>1
    <3>2. inc[j].before <= inc[i].before
      BY <2>1 DEF HistoryOf
    <3> QED
      BY <1>1, <2>1, <3>1, <3>2
  <2>2. CASE i = n + 1
    <3>1. j \in 1 .. Len(p)
      BY <1>1
    <3>2. p[i].before = box
      BY <1>1, <2>2
    <3> QED
      BY <1>5, <3>1, <3>2
  <2> QED
    BY <1>3, <2>1, <2>2
<1>7. HistoryOf(p, box2)
  BY <1>1, <1>5, <1>6 DEF HistoryOf
<1>8. FinalOf(p, box2) = FinalOf(inc, box)
  <2>1. CASE inc = <<>>
    <3>1. n = 0
      BY <2>1
    <3> QED
      BY <1>1, <1>2, <2>1, <3>1 DEF FinalOf
  <2>2. CASE inc # <<>>
    <3>1. 1 \in 1 .. n
      BY <2>2, HistoryType
    <3> QED
      BY <1>1, <1>2, <2>2, <3>1 DEF FinalOf
  <2> QED
    BY <2>1, <2>2
<1> QED
  BY <1>7, <1>8 DEF p

(* What L1 cannot undo any more is no longer kept.                         *)
LEMMA HistorySuffix ==
  ASSUME NEW inc, NEW box, HistoryOf(inc, box), NEW k \in 1 .. Len(inc)
  PROVE  LET p == SubSeq(inc, k + 1, Len(inc))
         IN  /\ HistoryOf(p, box) /\ FinalOf(inc, box) <= FinalOf(p, box)
             /\ \A i \in 1 .. Len(p) : \E j \in 1 .. Len(inc) : p[i] = inc[j]
<1> DEFINE n == Len(inc)
           p == SubSeq(inc, k + 1, n)
<1>1. n \in Nat /\ k \in Nat /\ k <= n
  BY HistoryType
<1>2. \A i \in 1 .. n : inc[i] \in Inclusion
  BY HistoryType
<1>3. \A i \in k + 1 .. n : inc[i] \in Inclusion
  BY <1>1, <1>2
<1>4. /\ p \in Seq(Inclusion)
      /\ Len(p) = IF k + 1 <= n THEN n - (k + 1) + 1 ELSE 0
      /\ \A i \in 1 .. n - (k + 1) + 1 : p[i] = inc[k + 1 + i - 1]
  BY <1>1, <1>3, SubSeqProperties
<1> HIDE DEF p
<1>5. Len(p) = n - k
  BY <1>1, <1>4
<1>6. \A i \in 1 .. Len(p) : k + i \in 1 .. n /\ p[i] = inc[k + i]
  <2>1. \A i \in 1 .. Len(p) : /\ k + i \in 1 .. n
                               /\ i \in 1 .. n - (k + 1) + 1
                               /\ k + 1 + i - 1 = k + i
    BY <1>1, <1>5
  <2> QED
    BY <1>4, <2>1
<1>7. ASSUME NEW i \in 1 .. Len(p)
      PROVE  /\ p[i].before <= box
             /\ \A j \in 1 .. i : p[j].before <= p[i].before
  <2>1. p[i].before <= box
    BY <1>6 DEF HistoryOf
  <2>2. ASSUME NEW j \in 1 .. i
        PROVE  p[j].before <= p[i].before
    <3>1. j \in 1 .. Len(p) /\ k + j \in 1 .. k + i
      BY <1>1, <1>5
    <3>2. inc[k + j].before <= inc[k + i].before
      BY <1>6, <3>1 DEF HistoryOf
    <3> QED
      BY <1>6, <3>1, <3>2
  <2> QED
    BY <2>1, <2>2
<1>8. HistoryOf(p, box)
  BY <1>4, <1>7 DEF HistoryOf
<1>9. FinalOf(inc, box) <= FinalOf(p, box)
  <2>1. CASE p = <<>>
    BY <2>1, HistoryType DEF FinalOf
  <2>2. CASE p # <<>>
    <3>1. 1 \in 1 .. Len(p)
      BY <1>8, <2>2, HistoryType
    <3>2. k + 1 \in 1 .. n /\ p[1] = inc[k + 1]
      BY <1>6, <3>1
    <3> QED
      BY <2>2, <3>2, HistoryType DEF FinalOf
  <2> QED
    BY <2>1, <2>2
<1> QED
  BY <1>6, <1>8, <1>9 DEF p

(* L1 undoes the last one.                                                 *)
LEMMA HistoryFront ==
  ASSUME NEW inc, NEW box, HistoryOf(inc, box), inc # <<>>
  PROVE  LET p == Front(inc)
             e == inc[Len(inc)]
         IN  /\ Last(inc) = e /\ e \in Inclusion
             /\ HistoryOf(p, e.before)
             /\ FinalOf(inc, box) <= FinalOf(p, e.before)
             /\ \A i \in 1 .. Len(p) : \E j \in 1 .. Len(inc) : p[i] = inc[j]
<1> DEFINE n == Len(inc)
           p == Front(inc)
           e == inc[n]
<1>1. n \in Nat /\ n \in 1 .. n /\ Last(inc) = e /\ e \in Inclusion
      /\ e.before \in Nat
  BY HistoryType, LastOf DEF HistoryOf
<1>2. \A i \in 1 .. n - 1 : inc[i] \in Inclusion
  BY <1>1, HistoryType
<1>3. /\ p \in Seq(Inclusion)
      /\ Len(p) = IF 1 <= n - 1 THEN (n - 1) - 1 + 1 ELSE 0
      /\ \A i \in 1 .. (n - 1) - 1 + 1 : p[i] = inc[1 + i - 1]
  BY <1>1, <1>2, SubSeqProperties DEF Front
<1> HIDE DEF p
<1>4. Len(p) = n - 1
  <2> HIDE DEF n
  <2>1. n >= 1
    BY <1>1
  <2> QED
    BY <1>1, <1>3, <2>1
<1>5. \A i \in 1 .. Len(p) : i \in 1 .. n /\ p[i] = inc[i]
  <2>1. \A i \in 1 .. Len(p) : /\ i \in 1 .. n /\ 1 + i - 1 = i
                               /\ i \in 1 .. (n - 1) - 1 + 1
    BY <1>1, <1>4
  <2> QED
    BY <1>3, <2>1
<1>6. ASSUME NEW i \in 1 .. Len(p)
      PROVE  /\ p[i].before <= e.before
             /\ \A j \in 1 .. i : p[j].before <= p[i].before
  <2>1. i \in 1 .. n
    BY <1>5
  <2>2. inc[i].before <= e.before
    BY <1>1, <2>1 DEF HistoryOf
  <2>3. \A j \in 1 .. i : j \in 1 .. Len(p)
    BY <1>4, <1>1
  <2> QED
    BY <1>5, <2>1, <2>2, <2>3 DEF HistoryOf
<1>7. HistoryOf(p, e.before)
  BY <1>1, <1>3, <1>6 DEF HistoryOf
<1>8. FinalOf(inc, box) <= FinalOf(p, e.before)
  <2>1. CASE p = <<>>
    BY <1>1, <2>1, HistoryType DEF FinalOf
  <2>2. CASE p # <<>>
    <3>1. 1 \in 1 .. Len(p)
      BY <1>7, <2>2, HistoryType
    <3>2. p[1] = inc[1] /\ 1 \in 1 .. n
      BY <1>5, <3>1
    <3> QED
      BY <2>2, <3>2, HistoryType DEF FinalOf
  <2> QED
    BY <2>1, <2>2
<1> QED
  BY <1>1, <1>5, <1>7, <1>8 DEF p

-----------------------------------------------------------------------------
(* The loop of propose_batch.                                              *)
TypeLoop ==
  /\ pc \in {"recv", "nonce", "send", "wait"} /\ (pc = "recv" <=> batch = None)
  /\ retries \in 0 .. MaxRetries - 1
  /\ last_used_nonce \in Nat \cup {None}
  /\ delayed \in BOOLEAN
  /\ pc \in {"send", "wait"} => last_used_nonce # None

LoopStep == TypeLoop' /\ DelayedWhileRetrying'

(* The nonce last used is an old one, unless the account's is taken.       *)
NonceKept ==
  \/ last_used_nonce' \in {last_used_nonce, None}
  \/ last_used_nonce' = nonce /\ UNCHANGED l1Vars

LEMMA Loop ==
  ASSUME Inv, [Next]_vars
  PROVE  LoopStep /\ NonceKept
<1> USE DEF TypeLoop, DelayedWhileRetrying, LoopStep, NonceKept
<1>1. /\ TypeLoop /\ DelayedWhileRetrying
      /\ nonce \in Nat /\ MaxRetries \in Nat \ {0}
      /\ 0 \in 0 .. MaxRetries - 1
  BY LimitAssumption DEF Inv, TypeOK, NonceInv
<1>2. CASE UNCHANGED <<batchVars, delayed>>
  BY <1>1, <1>2 DEF batchVars
<1>3. CASE RecvBatch
  <2>1. queue # <<>> /\ queue \in Seq(Request) /\ pc = "recv"
    BY <1>3 DEF RecvBatch, Inv, TypeOK, Idle
  <2>2. Head(queue) \in Request
    BY <2>1, HeadTailProperties
  <2>3. batch' \in Batch /\ batch' # None
    BY <1>3, <2>2, BatchOfRequest DEF RecvBatch
  <2> QED
    BY <1>1, <1>3, <2>1, <2>3 DEF RecvBatch, flagVars
<1>4. CASE NextInGroup
  <2>1. rest # <<>> /\ rest \in Seq(Batch) /\ pc = "recv"
    BY <1>4 DEF NextInGroup, Inv, TypeOK
  <2>2. batch' \in Batch /\ batch' # None
    BY <1>4, <2>1, HeadTailProperties, NoneIsNot DEF NextInGroup
  <2> QED
    BY <1>1, <1>4, <2>1, <2>2 DEF NextInGroup, flagVars
<1>5. CASE SendBatch \/ OtherBlock \/ RequestResync \/ RecvResync \/ NextGroup
           \/ EndResync
  <2>1. UNCHANGED <<batchVars, delayed>>
    BY <1>5 DEF SendBatch, OtherBlock, RequestResync, RecvResync, NextGroup,
                EndResync, flagVars
  <2> QED
    BY <1>2, <2>1
<1>6. CASE GetNonce
  <2>1. CASE NoncePassed /\ GiveUp
    BY <1>1, <2>1 DEF GiveUp, Done, DelayedAfter
  <2>2. CASE /\ ~NoncePassed /\ last_used_nonce' = AccountNonce /\ pc' = "send"
             /\ UNCHANGED <<batch, retries, flagVars, owed>>
    <3>1. UNCHANGED l1Vars /\ last_used_nonce' = nonce /\ pc = "nonce"
      BY <1>6, <2>2 DEF GetNonce, AccountNonce
    <3>2. nonce # None
      BY <1>1, NoneIsNot
    <3> QED
      BY <1>1, <2>2, <3>1, <3>2 DEF flagVars
  <2> QED
    BY <1>6, <2>1, <2>2 DEF GetNonce
<1>7. CASE GasEstimationGivesUp \/ Proposed
  BY <1>1, <1>7 DEF GasEstimationGivesUp, Proposed, GiveUp, Done, DelayedAfter
<1>8. CASE SendAgain \/ NotIncluded
  <2>1. /\ pc # "recv" /\ pc' = "nonce"
        /\ UNCHANGED <<batch, retries, last_used_nonce, delayed>>
    BY <1>8 DEF SendAgain, NotIncluded, Again, flagVars
  <2> QED
    BY <1>1, <2>1
<1>9. CASE Sent
  BY <1>1, <1>9 DEF Sent, flagVars
<1>10. CASE RpcError \/ Reverted
  <2>1. /\ Fails /\ pc # "recv" /\ last_used_nonce' \in {last_used_nonce, None}
    BY <1>1, <1>10 DEF RpcError, Reverted, Attempting
  <2>2. retries + 1 \in 0 .. MaxRetries - 1 /\ retries + 1 > 0
    BY <1>1, <2>1 DEF Fails
  <2> QED
    BY <1>1, <2>1, <2>2 DEF Fails
<1>11. CASE Restart
  BY <1>1, <1>11 DEF Restart
<1>12. CASE ReorgCheckPasses \/ Include \/ PeerProposes \/ TurnChanges
            \/ L1Reorg
  <2>1. UNCHANGED <<batchVars, delayed>>
    BY <1>12 DEF ReorgCheckPasses, Include, PeerProposes, TurnChanges, L1Reorg,
                 flagVars
  <2> QED
    BY <1>2, <2>1
<1>13. CASE UNCHANGED vars
  <2>1. UNCHANGED <<batchVars, delayed>>
    BY <1>13 DEF vars, flagVars
  <2> QED
    BY <1>2, <2>1
<1> QED
  BY <1>3, <1>4, <1>5, <1>6, <1>7, <1>8, <1>9, <1>10, <1>11, <1>12, <1>13
  DEF Next, Process, Environment, LastRetryFails, ReorgCheckFails, Crash

-----------------------------------------------------------------------------
(* L1: the account and what is included.                                   *)
Nonces ==
  ~l1_reorged =>
    /\ last_used_nonce # None => last_used_nonce <= nonce
    /\ \A t \in pool : t.nonce = nonce
    /\ \A i \in 1 .. Len(included) :
         included[i].tx # None => included[i].tx.nonce < nonce

TypeL1 ==
  /\ pool \subseteq Tx /\ nonce \in Nat
  /\ my_turn \in BOOLEAN /\ l1_reorged \in BOOLEAN

ChainOK == TypeL1 /\ HistoryOf(included, inbox) /\ Nonces

FinalKept == FinalOf(included, inbox) <= FinalOf(included', inbox')

LEMMA OldTx ==
  /\ Old(None) = None
  /\ \A t \in Tx : /\ Old(t) \in Tx /\ Old(t) # None /\ Old(t).nonce = t.nonce
<1>1. ASSUME NEW t \in Tx
      PROVE  Old(t) \in Tx /\ Old(t).nonce = t.nonce
  BY <1>1, NoneIsNot DEF Old, Tx
<1> QED
  BY <1>1, NoneIsNot DEF Old

LEMMA RestartChain ==
  ASSUME ChainOK, Restart
  PROVE  ChainOK'
<1> DEFINE inc == included
           p == [i \in DOMAIN inc |-> [inc[i] EXCEPT !.tx = Old(@)]]
<1>1. /\ included' = p /\ pool' = {Old(t) : t \in pool}
      /\ last_used_nonce' = None
      /\ UNCHANGED <<my_turn, inbox, nonce, l1_reorged>>
  BY DEF Restart
<1>2. /\ inc \in Seq(Inclusion) /\ DOMAIN inc = 1 .. Len(inc)
      /\ Len(inc) \in Nat
  BY LenProperties DEF ChainOK, HistoryOf
<1>3. \A i \in 1 .. Len(inc) : inc[i] \in Inclusion
  BY HistoryType DEF ChainOK
<1>4. \A i \in 1 .. Len(inc) :
        /\ p[i] \in Inclusion /\ p[i].before = inc[i].before
        /\ p[i].tx # None =>
             inc[i].tx # None /\ p[i].tx.nonce = inc[i].tx.nonce
  <2> SUFFICES ASSUME NEW i \in 1 .. Len(inc)
               PROVE  /\ p[i] \in Inclusion /\ p[i].before = inc[i].before
                      /\ p[i].tx # None =>
                           inc[i].tx # None /\ p[i].tx.nonce = inc[i].tx.nonce
    OBVIOUS
  <2>1. p[i] = [inc[i] EXCEPT !.tx = Old(inc[i].tx)] /\ inc[i] \in Inclusion
    BY <1>2, <1>3
  <2>2. Old(inc[i].tx) \in Tx \cup {None}
    BY <2>1, OldTx DEF Inclusion
  <2>3. p[i] \in Inclusion /\ p[i].before = inc[i].before
        /\ p[i].tx = Old(inc[i].tx)
    <3> HIDE DEF p
    <3> QED
      BY <2>1, <2>2 DEF Inclusion
  <2>4. inc[i].tx \in Tx \/ inc[i].tx = None
    BY <2>1 DEF Inclusion
  <2> HIDE DEF p
  <2> QED
    BY <2>3, <2>4, OldTx
<1>5. p \in Seq(Inclusion) /\ Len(p) = Len(inc)
  <2>1. p \in [1 .. Len(inc) -> Inclusion]
    BY <1>2, <1>4
  <2> HIDE DEF p
  <2>2. p \in Seq(Inclusion)
    BY <1>2, <2>1, SeqDef
  <2> QED
    BY <1>2, <2>1, <2>2, LenProperties
<1> HIDE DEF p
<1>6. HistoryOf(p, inbox)
  <2>1. ASSUME NEW i \in 1 .. Len(p)
        PROVE  /\ p[i].before <= inbox
               /\ \A j \in 1 .. i : p[j].before <= p[i].before
    <3>1. \A j \in 1 .. i : j \in 1 .. Len(inc)
      BY <1>2, <1>5
    <3> QED
      BY <1>4, <1>5, <3>1 DEF ChainOK, HistoryOf
  <2> QED
    BY <1>5, <2>1 DEF ChainOK, HistoryOf
<1>7. pool' \subseteq Tx /\ \A t \in pool' : \E u \in pool : t.nonce = u.nonce
  BY <1>1, OldTx DEF ChainOK, TypeL1
<1>8. Nonces'
  BY <1>1, <1>4, <1>5, <1>7 DEF ChainOK, Nonces
<1> QED
  BY <1>1, <1>6, <1>7, <1>8 DEF ChainOK, TypeL1

LEMMA ChainStep ==
  ASSUME Inv, [Next]_vars
  PROVE  ChainOK' /\ (Restart \/ FinalKept)
<1>1. /\ ChainOK /\ TypeOK /\ NonceInv
      /\ HistoryOf(included, inbox)
      /\ pool \subseteq Tx /\ nonce \in Nat /\ inbox \in Nat
  BY DEF Inv, TypeOK, ChainOK, TypeL1, HistoryOf, HistoryInv, Inclusion, Nonces,
         NonceInv
<1>2. NonceKept /\ TypeLoop'
  BY Loop DEF LoopStep
<1>3. FinalOf(included, inbox) \in Nat
  BY <1>1, HistoryType
<1>4. CASE UNCHANGED l1Vars
  <2>1. UNCHANGED <<my_turn, inbox, nonce, pool, included, l1_reorged>>
    BY <1>4 DEF l1Vars
  <2>2. Nonces'
    BY <1>1, <1>2, <2>1 DEF NonceKept, Nonces, ChainOK
  <2>3. FinalKept
    BY <1>3, <2>1 DEF FinalKept
  <2>4. TypeL1' /\ HistoryOf(included', inbox')
    BY <1>1, <2>1 DEF ChainOK, TypeL1
  <2> QED
    BY <2>2, <2>3, <2>4 DEF ChainOK
<1>5. CASE Sent
  <2>1. /\ pc = "send" /\ nonce <= last_used_nonce
        /\ UNCHANGED <<last_used_nonce, my_turn, inbox, nonce, included,
                       l1_reorged>>
    BY <1>5 DEF Sent
  <2>2. /\ AtHand(TRUE) \in Tx /\ AtHand(TRUE).nonce = last_used_nonce
        /\ AtHand(FALSE) \in Tx /\ AtHand(FALSE).nonce = last_used_nonce
        /\ last_used_nonce \in Nat
    BY <1>1, <2>1, AtHandType
  <2>3. \A t \in Replaced : t \in pool \/ t = AtHand(FALSE)
    BY DEF Replaced
  <2>4. \A t \in pool' : t \in pool \/ t = AtHand(FALSE) \/ t = AtHand(TRUE)
    BY <1>5, <2>3 DEF Sent
  <2>5. ~l1_reorged => last_used_nonce = nonce
    BY <1>1, <2>1, <2>2, NoneIsNot DEF ChainOK, Nonces
  <2>6. pool' \subseteq Tx
    BY <1>1, <2>2, <2>4
  <2>7. Nonces'
    BY <1>1, <2>1, <2>2, <2>4, <2>5 DEF ChainOK, Nonces
  <2>8. FinalKept
    BY <1>3, <2>1 DEF FinalKept
  <2> QED
    BY <1>1, <2>1, <2>6, <2>7, <2>8 DEF ChainOK, TypeL1
<1>6. CASE ReorgCheckPasses
  <2>1. PICK k \in DOMAIN included :
          included' = SubSeq(included, k + 1, Len(included))
    BY <1>6 DEF ReorgCheckPasses
  <2>2. UNCHANGED <<last_used_nonce, my_turn, inbox, nonce, pool, l1_reorged>>
    BY <1>6 DEF ReorgCheckPasses, batchVars
  <2>3. k \in 1 .. Len(included)
    BY <1>1, LenProperties DEF HistoryOf
  <2>4. /\ HistoryOf(included', inbox)
        /\ FinalOf(included, inbox) <= FinalOf(included', inbox)
        /\ \A i \in 1 .. Len(included') :
             \E j \in 1 .. Len(included) : included'[i] = included[j]
    BY <1>1, <2>1, <2>3, HistorySuffix
  <2>5. Nonces'
    BY <1>1, <2>2, <2>4 DEF ChainOK, Nonces
  <2> QED
    BY <1>1, <2>2, <2>4, <2>5 DEF ChainOK, TypeL1, FinalKept
<1>7. CASE Include
  <2>1. PICK t \in pool, ok \in BOOLEAN :
          /\ t.nonce = nonce /\ (ok => Accepts(t))
          /\ inbox' = IF ok THEN t.end ELSE inbox
          /\ included' = Append(included, [tx |-> t, ok |-> ok, before |-> inbox])
    BY <1>7 DEF Include
  <2> DEFINE e == [tx |-> t, ok |-> ok, before |-> inbox]
  <2>2. /\ nonce' = nonce + 1 /\ pool' = {u \in pool : u.nonce > nonce}
        /\ UNCHANGED <<last_used_nonce, my_turn, l1_reorged>>
    BY <1>7 DEF Include, batchVars
  <2>3. t \in Tx /\ t.end \in Nat /\ t.n \in Nat
    BY <1>1, RequestType
  <2>4. e \in Inclusion /\ e.before = inbox /\ e.tx = t
    BY <1>1, <2>3 DEF Inclusion
  <2>5. inbox' \in Nat /\ inbox <= inbox'
    BY <1>1, <2>1, <2>3 DEF Accepts
  <2>6. included' = Append(included, e)
    BY <2>1
  <2> HIDE DEF e
  <2>7. /\ HistoryOf(included', inbox')
        /\ FinalOf(included', inbox') = FinalOf(included, inbox)
    BY <1>1, <2>4, <2>5, <2>6, HistoryAppend
  <2>8. \A i \in 1 .. Len(included') :
          \/ i \in 1 .. Len(included) /\ included'[i] = included[i]
          \/ included'[i] = e
    <3>1. /\ Len(included') = Len(included) + 1 /\ Len(included) \in Nat
          /\ included'[Len(included) + 1] = e
          /\ \A i \in 1 .. Len(included) : included'[i] = included[i]
      BY <1>1, <2>4, <2>6, AppendProperties, LenProperties DEF HistoryOf
    <3>2. \A i \in 1 .. Len(included') :
            i \in 1 .. Len(included) \/ i = Len(included) + 1
      BY <3>1
    <3> QED
      BY <3>1, <3>2
  <2>9. Nonces'
    <3> SUFFICES ASSUME ~l1_reorged
                 PROVE  /\ last_used_nonce # None => last_used_nonce <= nonce + 1
                        /\ \A u \in pool' : u.nonce = nonce + 1
                        /\ \A i \in 1 .. Len(included') :
                             included'[i].tx # None =>
                               included'[i].tx.nonce < nonce + 1
      BY <2>2 DEF Nonces
    <3>1. last_used_nonce # None => last_used_nonce <= nonce + 1
      BY <1>1 DEF ChainOK, Nonces, TypeOK
    <3>2. pool' = {}
      BY <1>1, <2>2 DEF ChainOK, Nonces
    <3>3. ASSUME NEW i \in 1 .. Len(included'), included'[i].tx # None
          PROVE  included'[i].tx.nonce < nonce + 1
      <4>1. CASE included'[i] = e
        BY <1>1, <2>1, <2>4, <4>1
      <4>2. CASE i \in 1 .. Len(included) /\ included'[i] = included[i]
        <5>1. included[i] \in Inclusion
          BY <1>1, <4>2, HistoryType
        <5>2. included[i].tx.nonce \in Nat
          BY <3>3, <4>2, <5>1, RequestType DEF Inclusion
        <5>3. included[i].tx.nonce < nonce
          BY <1>1, <3>3, <4>2 DEF ChainOK, Nonces
        <5> QED
          BY <1>1, <4>2, <5>2, <5>3
      <4> QED
        BY <2>8, <4>1, <4>2
    <3> QED
      BY <3>1, <3>2, <3>3
  <2>10. TypeL1'
    BY <1>1, <2>2 DEF ChainOK, TypeL1
  <2>11. FinalKept
    BY <1>3, <2>7 DEF FinalKept
  <2> QED
    BY <2>7, <2>9, <2>10, <2>11 DEF ChainOK
<1>8. CASE PeerProposes
  <2> DEFINE e == [tx |-> None, ok |-> TRUE, before |-> inbox]
  <2>1. /\ inbox' \in inbox + 1 .. Len(blocks) /\ included' = Append(included, e)
        /\ UNCHANGED <<last_used_nonce, my_turn, nonce, pool, l1_reorged>>
    BY <1>8 DEF PeerProposes, batchVars
  <2>2. e \in Inclusion /\ e.before = inbox /\ e.tx = None
    BY <1>1 DEF Inclusion
  <2>3. inbox' \in Nat /\ inbox <= inbox'
    <3>1. Len(blocks) \in Nat
      BY <1>1, LenProperties DEF TypeOK
    <3> QED
      BY <1>1, <2>1, <3>1
  <2> HIDE DEF e
  <2>4. /\ HistoryOf(included', inbox')
        /\ FinalOf(included', inbox') = FinalOf(included, inbox)
    BY <1>1, <2>1, <2>2, <2>3, HistoryAppend
  <2>5. \A i \in 1 .. Len(included') :
          \/ i \in 1 .. Len(included) /\ included'[i] = included[i]
          \/ included'[i] = e
    <3>1. /\ Len(included') = Len(included) + 1 /\ Len(included) \in Nat
          /\ included'[Len(included) + 1] = e
          /\ \A i \in 1 .. Len(included) : included'[i] = included[i]
      BY <1>1, <2>1, <2>2, AppendProperties, LenProperties DEF HistoryOf
    <3>2. \A i \in 1 .. Len(included') :
            i \in 1 .. Len(included) \/ i = Len(included) + 1
      BY <3>1
    <3> QED
      BY <3>1, <3>2
  <2>6. Nonces'
    BY <1>1, <2>1, <2>2, <2>5 DEF ChainOK, Nonces
  <2>7. FinalKept
    BY <1>3, <2>4 DEF FinalKept
  <2> QED
    BY <1>1, <2>1, <2>4, <2>6, <2>7 DEF ChainOK, TypeL1
<1>9. CASE L1Reorg
  <2>1. /\ ~l1_reorged /\ included # <<>> /\ Last(included).tx \in checks
        /\ inbox' = Last(included).before /\ nonce' = nonce - 1
        /\ pool' = pool \cup {Last(included).tx}
        /\ included' = Front(included) /\ l1_reorged' = TRUE
        /\ my_turn' = my_turn
    BY <1>9 DEF L1Reorg
  <2> DEFINE n == Len(included)
             e == included[n]
  <2>2. /\ Last(included) = e /\ e \in Inclusion
        /\ HistoryOf(Front(included), e.before)
        /\ FinalOf(included, inbox) <= FinalOf(Front(included), e.before)
        /\ n \in 1 .. n
    BY <1>1, <2>1, HistoryFront, HistoryType
  <2>3. e.tx \in Tx /\ e.tx # None
    BY <1>1, <2>1, <2>2, NoneIsNot DEF TypeOK
  <2>4. e.tx.nonce < nonce /\ e.tx.nonce \in Nat
    BY <1>1, <2>1, <2>2, <2>3, RequestType DEF ChainOK, Nonces
  <2> HIDE DEF e
  <2>5. nonce' \in Nat
    BY <1>1, <2>1, <2>4
  <2>6. TypeL1'
    BY <1>1, <2>1, <2>2, <2>3, <2>5 DEF ChainOK, TypeL1
  <2>7. Nonces'
    BY <2>1 DEF Nonces
  <2> QED
    BY <2>1, <2>2, <2>6, <2>7 DEF ChainOK, FinalKept
<1>10. CASE TurnChanges
  <2>1. /\ my_turn' \in BOOLEAN
        /\ UNCHANGED <<last_used_nonce, inbox, nonce, pool, included, l1_reorged>>
    BY <1>10 DEF TurnChanges, batchVars
  <2>2. Nonces'
    BY <1>1, <2>1 DEF Nonces, ChainOK
  <2>3. FinalKept
    BY <1>3, <2>1 DEF FinalKept
  <2> QED
    BY <1>1, <2>1, <2>2, <2>3 DEF ChainOK, TypeL1
<1>11. CASE Restart
  BY <1>1, <1>11, RestartChain
<1> QED
  BY <1>4, <1>5, <1>6, <1>7, <1>8, <1>9, <1>10, <1>11, L1Effects

-----------------------------------------------------------------------------
(* LivePending.                                                            *)
CountedOf(q, rs, b) == CountOf(q) + Len(rs) + (IF b = None THEN 0 ELSE 1)

LEMMA CountedType ==
  ASSUME NEW q \in Seq(Request), NEW rs \in Seq(Batch), NEW b
  PROVE  CountedOf(q, rs, b) \in Nat /\ CountOf(q) \in Nat /\ Len(rs) \in Nat
<1>1. CountOf(q) \in Nat
  BY CountIs
<1>2. Len(rs) \in Nat
  BY LenProperties
<1> QED
  BY <1>1, <1>2 DEF CountedOf

LEMMA LivePendingIs ==
  LivePendingExact <=> live_pending = CountedOf(queue, rest, batch)
BY DEF LivePendingExact, Waiting, CountOf, CountedOf

LEMMA CountStep ==
  ASSUME Inv, [Next]_vars, TypeWork'
  PROVE  live_pending' = CountedOf(queue', rest', batch')
<1>1. /\ queue \in Seq(Request) /\ rest \in Seq(Batch)
      /\ live_pending = CountedOf(queue, rest, batch)
      /\ batch \in Batch \cup {None}
      /\ pc = "recv" => batch = None
  BY LivePendingIs DEF Inv, TypeOK
<1>2. /\ queue' \in Seq(Request) /\ rest' \in Seq(Batch)
      /\ batch' \in Batch \cup {None}
  BY DEF TypeWork
<1>3. CountOf(queue) \in Nat /\ Len(rest) \in Nat
  BY <1>1, CountedType
<1> USE DEF CountedOf
<1>4. CASE SendBatch
  <2>1. PICK k \in 1 .. MaxPerBatch :
          /\ queue' = Append(queue, [resync |-> FALSE, start |-> Len(blocks) + 1,
                                     end |-> Len(blocks) + k, n |-> k])
          /\ live_pending' = live_pending + 1
          /\ UNCHANGED <<rest, batch>>
    BY <1>4 DEF SendBatch, batchVars
  <2> DEFINE r == [resync |-> FALSE, start |-> Len(blocks) + 1,
                   end |-> Len(blocks) + k, n |-> k]
  <2>2. r \in Request /\ ~r.resync
    BY LenProperties, LimitAssumption DEF Request, Inv, TypeOK
  <2>3. queue' = Append(queue, r)
    BY <2>1
  <2> HIDE DEF r
  <2>4. CountOf(queue') = CountOf(queue) + 1
    BY <1>1, <2>2, <2>3, CountAppend
  <2> QED
    BY <1>1, <1>3, <2>1, <2>4
<1>5. CASE RequestResync
  <2>1. PICK origin \in 0 .. inbox :
          queue' = Append(queue, [resync |-> TRUE, start |-> origin + 1,
                                  end |-> Len(blocks), n |-> 0])
    BY <1>5 DEF RequestResync
  <2> DEFINE r == [resync |-> TRUE, start |-> origin + 1, end |-> Len(blocks),
                   n |-> 0]
  <2>2. r \in Request /\ r.resync
    BY LenProperties DEF Request, Inv, TypeOK
  <2>3. queue' = Append(queue, r) /\ UNCHANGED <<live_pending, rest, batch>>
    BY <1>5, <2>1 DEF RequestResync, batchVars, flagVars
  <2> HIDE DEF r
  <2>4. CountOf(queue') = CountOf(queue)
    BY <1>1, <1>3, <2>2, <2>3, CountAppend
  <2> QED
    BY <1>1, <2>3, <2>4
<1>6. CASE RecvBatch
  <2>1. /\ queue # <<>> /\ ~Head(queue).resync /\ queue' = Tail(queue)
        /\ batch = None /\ rest' = rest /\ live_pending' = live_pending
        /\ batch' = [start |-> Head(queue).start, end |-> Head(queue).end,
                     n |-> Head(queue).n,
                     bns |-> BlocksOf(Head(queue))]
    BY <1>1, <1>6 DEF RecvBatch, Idle, flagVars
  <2>2. CountOf(queue) = CountOf(queue') + 1 /\ CountOf(queue') \in Nat
    BY <1>1, <1>2, <2>1, CountTail, CountIs
  <2>3. batch' # None
    <3>1. Head(queue) \in Request
      BY <1>1, <2>1, HeadTailProperties
    <3> QED
      BY <2>1, <3>1, BatchOfRequest
  <2> QED
    BY <1>1, <1>3, <2>1, <2>2, <2>3
<1>7. CASE RecvResync
  <2>1. /\ queue # <<>> /\ Head(queue).resync /\ queue' = Tail(queue)
        /\ UNCHANGED <<rest, batch, live_pending>>
    BY <1>7 DEF RecvResync, batchVars, flagVars
  <2>2. CountOf(queue') \in Nat
    BY <1>2, CountIs
  <2>3. CountOf(queue) = CountOf(Tail(queue)) + 0
    BY <1>1, <2>1, CountTail
  <2>4. CountOf(queue) = CountOf(queue')
    BY <2>1, <2>2, <2>3
  <2> QED
    BY <1>1, <2>1, <2>4
<1>8. CASE NextGroup
  <2>1. /\ pc = "recv" /\ rest = <<>> /\ live_pending' = Counted(Len(rest'))
        /\ UNCHANGED <<queue, batch>>
    BY <1>8 DEF NextGroup, batchVars
  <2>2. batch = None /\ Len(rest) = 0 /\ Len(rest') \in Nat
    BY <1>1, <1>2, <2>1, LenProperties
  <2> QED
    BY <1>1, <1>3, <2>1, <2>2 DEF Counted
<1>9. CASE NextInGroup
  <2>1. /\ pc = "recv" /\ rest # <<>> /\ batch' = Head(rest)
        /\ rest' = Tail(rest) /\ UNCHANGED <<queue, live_pending>>
    BY <1>9 DEF NextInGroup, flagVars
  <2>2. Len(rest') = Len(rest) - 1 /\ batch' # None /\ batch = None
    BY <1>1, <2>1, RestTail, NoneIsNot
  <2> QED
    BY <1>1, <1>3, <2>1, <2>2
<1>10. CASE EndsBatch
  <2>1. /\ batch # None /\ batch' = None /\ live_pending' = live_pending - 1
        /\ UNCHANGED <<queue, rest>>
    BY <1>10 DEF EndsBatch, Done, jobVars
  <2> QED
    BY <1>1, <1>3, <2>1
<1>11. CASE Restart
  <2>1. queue' = <<>> /\ rest' = <<>> /\ batch' = None /\ live_pending' = 0
    BY <1>11 DEF Restart
  <2>2. CountOf(queue') = 0
    <3>1. {i \in 1 .. Len(queue') : ~queue'[i].resync} = {}
      BY <2>1
    <3> QED
      BY <1>2, <3>1, CountIs, FS_EmptySet
  <2> QED
    BY <2>1, <2>2
<1>12. CASE OtherBlock \/ EndResync \/ ReorgCheckPasses \/ UNCHANGED work
  BY <1>1, <1>12
  DEF OtherBlock, EndResync, ReorgCheckPasses, work, jobVars, batchVars,
      flagVars
<1>13. TypeOK
  BY DEF Inv
<1> QED
  BY <1>4, <1>5, <1>6, <1>7, <1>8, <1>9, <1>10, <1>11, <1>12, <1>13, Effects

-----------------------------------------------------------------------------
(* The groups keep their anchors: the chain only grows.                    *)
LEMMA StraightStays ==
  ASSUME NEW g, g \subseteq 1 .. Len(blocks), Straight(g),
         \A i \in 1 .. Len(blocks) : blocks'[i] = blocks[i]
  PROVE  Straight(g)'
<1>1. \A i \in g : blocks'[i] = blocks[i]
  OBVIOUS
<1> QED
  BY <1>1 DEF Straight, Dense, AnchorsGrow

LEMMA StraightStep ==
  ASSUME Inv, [Next]_vars
  PROVE  StraightInv' /\ excused' \in BOOLEAN
<1> DEFINE tip == Len(blocks)
<1>1. /\ TypeOK /\ TypeWork /\ QueueOf(queue, tip)
      /\ job # None => job \in Request /\ Sound(job, tip)
      /\ \A g \in groups : Grouped(g, tip)
      /\ ~excused => \A g \in groups : Straight(g)
      /\ excused \in BOOLEAN
  BY WorkTypes DEF Inv, WorkInv, QueueOf, TypeWork, StraightInv, TypeOK
<1> HIDE DEF tip
<1>2. ASSUME groups' \subseteq groups, excused' = excused,
             \A i \in 1 .. Len(blocks) : blocks'[i] = blocks[i]
      PROVE  StraightInv' /\ excused' \in BOOLEAN
  <2>1. ASSUME ~excused, NEW g \in groups'
        PROVE  Straight(g)'
    <3>1. Straight(g) /\ g \subseteq 1 .. Len(blocks)
      BY <1>1, <1>2, <2>1 DEF Grouped, tip
    <3> QED
      BY <1>2, <3>1, StraightStays
  <2> QED
    BY <1>1, <1>2, <2>1 DEF StraightInv
<1>3. ASSUME NEW r \in Request, Sound(r, tip), StartResync(r), blocks' = blocks
      PROVE  StraightInv' /\ excused' \in BOOLEAN
  <2>1. /\ GroupsOf(r, groups') /\ excused' \in BOOLEAN
        /\ ~excused' => \A g \in groups' : Straight(g)
    BY <1>1, <1>3, StartResyncGroups DEF TypeWork, tip
  <2>2. ASSUME ~excused', NEW g \in groups'
        PROVE  Straight(g)'
    <3>1. Straight(g) /\ g \subseteq 1 .. Len(blocks)
      BY <2>1, <2>2 DEF GroupsOf, Grouped
    <3> QED
      BY <1>3, <3>1, StraightStays
  <2> QED
    BY <2>1, <2>2 DEF StraightInv
<1>4. CASE SendBatch \/ OtherBlock
  <2>1. PICK k \in Nat \ {0}, anchor \in Anchors : NewBlocks(k, anchor)
    <3>1. \A k \in 1 .. MaxPerBatch : k \in Nat \ {0}
      BY LimitAssumption
    <3>2. CASE SendBatch
      BY <3>1, <3>2 DEF SendBatch
    <3>3. CASE OtherBlock
      BY <3>3 DEF OtherBlock
    <3> QED
      BY <1>4, <3>2, <3>3
  <2>2. \A i \in 1 .. Len(blocks) : blocks'[i] = blocks[i]
    BY <1>1, <2>1, NewBlocksOnTop DEF TypeWork
  <2>3. UNCHANGED <<groups, excused>>
    BY <1>4 DEF SendBatch, OtherBlock, jobVars
  <2> QED
    BY <1>2, <2>2, <2>3
<1>5. CASE RequestResync \/ NextGroup \/ NextInGroup \/ EndsBatch
           \/ ReorgCheckPasses \/ UNCHANGED work
  <2>1. groups' \subseteq groups /\ UNCHANGED <<excused, blocks>>
    BY <1>5 DEF RequestResync, NextGroup, NextInGroup, EndsBatch,
                ReorgCheckPasses, work, jobVars, batchVars
  <2> QED
    BY <1>2, <2>1
<1>6. CASE RecvBatch \/ Restart
  <2>1. groups' = {} /\ excused' = FALSE
    BY <1>6 DEF RecvBatch, Restart, Idle
  <2> QED
    BY <2>1 DEF StraightInv
<1>7. CASE RecvResync
  <2>1. queue # <<>> /\ StartResync(Head(queue)) /\ blocks' = blocks
    BY <1>7 DEF RecvResync
  <2>2. Head(queue) \in Request /\ Sound(Head(queue), tip)
    BY <1>1, <2>1, QueueTail
  <2> QED
    BY <1>3, <2>1, <2>2
<1>8. CASE EndResync
  <2>1. job # None /\ blocks' = blocks
        /\ (UNCHANGED <<groups, excused>> \/ StartResync(job))
    BY <1>8 DEF EndResync
  <2>2. CASE UNCHANGED <<groups, excused>>
    BY <1>2, <2>1, <2>2
  <2>3. CASE StartResync(job)
    BY <1>1, <1>3, <2>1, <2>3
  <2> QED
    BY <2>1, <2>2, <2>3
<1> QED
  BY <1>1, <1>4, <1>5, <1>6, <1>7, <1>8, Effects

-----------------------------------------------------------------------------
(* What a batch holds.                                                     *)
LEMMA ExactStep ==
  ASSUME Inv, [Next]_vars
  PROVE  ExactInv'
<1> DEFINE tip == Len(blocks)
<1>1. /\ TypeOK /\ TypeWork /\ QueueOf(queue, tip)
      /\ \A g \in groups : Grouped(g, tip)
      /\ ~excused => \A g \in groups : Straight(g)
      /\ CountsFit(batch, rest)
      /\ SmallBlocks /\ ~excused => AllExact(batch, rest)
      /\ pc = "recv" => batch = None
  BY WorkTypes DEF Inv, WorkInv, StraightInv, QueueOf, TypeWork, ExactInv,
                   TypeOK
<1> HIDE DEF tip
<1>2. ASSUME CountsFit(batch', rest'),
             SmallBlocks /\ ~excused' => AllExact(batch', rest')
      PROVE  ExactInv'
  BY <1>2 DEF ExactInv, SmallBlocks, CountsFit, AllExact, Exact
<1>3. CASE SendBatch \/ OtherBlock \/ RequestResync \/ ReorgCheckPasses
           \/ UNCHANGED work
  <2>1. UNCHANGED <<batch, rest, excused>>
    BY <1>3 DEF SendBatch, OtherBlock, RequestResync, ReorgCheckPasses, work,
                jobVars, batchVars
  <2> QED
    BY <1>1, <1>2, <2>1
<1>4. CASE RecvResync \/ EndResync \/ Restart
  <2>1. batch' = None /\ rest' = <<>>
    BY <1>1, <1>4 DEF RecvResync, EndResync, Restart, Idle, batchVars
  <2>2. CountsFit(batch', rest') /\ AllExact(batch', rest')
    BY <2>1 DEF CountsFit, AllExact
  <2> QED
    BY <1>2, <2>2
<1>5. CASE RecvBatch
  <2>1. /\ queue # <<>> /\ ~Head(queue).resync /\ rest = <<>> /\ rest' = rest
        /\ batch' = [start |-> Head(queue).start, end |-> Head(queue).end,
                     n |-> Head(queue).n, bns |-> BlocksOf(Head(queue))]
    BY <1>5 DEF RecvBatch, Idle
  <2>2. Sound(Head(queue), tip)
    BY <1>1, <2>1, QueueTail
  <2>3. Exact(batch') /\ batch'.n <= MaxPerBatch
    BY <2>1, <2>2 DEF Sound, Exact, BlocksOf
  <2>4. CountsFit(batch', rest') /\ AllExact(batch', rest')
    BY <2>1, <2>3 DEF CountsFit, AllExact
  <2> QED
    BY <1>2, <2>4
<1>6. CASE NextGroup
  <2>1. PICK g \in groups : rest' = RequestsFrom(g)
    BY <1>6 DEF NextGroup
  <2>2. batch' = None /\ excused' = excused
    BY <1>1, <1>6 DEF NextGroup, batchVars
  <2>3. GroupOf(g)
    BY <1>1 DEF Grouped, GroupOf, tip
  <2>4. Requested(g, rest')
    BY <1>1, <2>1, <2>3, RequestsOfGroup DEF TypeWork
  <2>5. CountsFit(batch', rest')
    BY <2>2, <2>4 DEF CountsFit, Requested
  <2>6. SmallBlocks /\ ~excused' => AllExact(batch', rest')
    BY <1>1, <2>2, <2>4 DEF AllExact, Requested
  <2> QED
    BY <1>2, <2>5, <2>6
<1>7. CASE NextInGroup
  <2>1. /\ rest # <<>> /\ batch' = Head(rest) /\ rest' = Tail(rest)
        /\ excused' = excused
    BY <1>7 DEF NextInGroup
  <2>2. rest \in Seq(Batch)
    BY <1>1 DEF TypeWork
  <2>3. /\ Head(rest) = rest[1] /\ 1 \in 1 .. Len(rest)
        /\ \A i \in 1 .. Len(Tail(rest)) :
             i + 1 \in 1 .. Len(rest) /\ Tail(rest)[i] = rest[i + 1]
    BY <2>1, <2>2, RestTail
  <2>4. CountsFit(batch', rest')
    BY <1>1, <2>1, <2>3 DEF CountsFit
  <2>5. SmallBlocks /\ ~excused' => AllExact(batch', rest')
    BY <1>1, <2>1, <2>3 DEF AllExact
  <2> QED
    BY <1>2, <2>4, <2>5
<1>8. CASE EndsBatch
  <2>1. batch' = None /\ UNCHANGED <<rest, excused>>
    BY <1>8 DEF EndsBatch, Done, jobVars
  <2>2. CountsFit(batch', rest')
    BY <1>1, <2>1 DEF CountsFit
  <2>3. SmallBlocks /\ ~excused' => AllExact(batch', rest')
    BY <1>1, <2>1 DEF AllExact
  <2> QED
    BY <1>2, <2>2, <2>3
<1> QED
  BY <1>1, <1>3, <1>4, <1>5, <1>6, <1>7, <1>8, Effects

-----------------------------------------------------------------------------
(* Where the blocks handed over are.                                       *)
LEMMA KeptStep ==
  ASSUME Inv, [Next]_vars
  PROVE  KeptInv'
<1> DEFINE fin == FinalOf(included, inbox)
           fin2 == FinalOf(included', inbox')
<1>1. /\ TypeOK /\ TypeWork /\ NonceInv
      /\ QueueOf(queue, Len(blocks))
      /\ job # None => job \in Request /\ Sound(job, Len(blocks))
      /\ \A g \in groups : Grouped(g, Len(blocks))
      /\ \A bn \in owed : KeptIn(bn, fin, queue, rest, batch, groups, checks)
      /\ pc = "recv" => batch = None
  BY WorkTypes DEF Inv, WorkInv, KeptInv, QueueOf, TypeWork, TypeOK
<1>2. fin \in Nat /\ HistoryOf(included, inbox)
  <2>1. HistoryOf(included, inbox)
    BY DEF Inv, TypeOK, HistoryInv, HistoryOf, Inclusion
  <2> QED
    BY <2>1, HistoryType
<1>3. CASE Restart
  BY <1>3 DEF Restart, KeptInv
<1>4. ASSUME ~Restart
      PROVE  \A bn \in 1 .. fin : bn \in 1 .. fin2
  <2>1. ChainOK' /\ FinalKept
    BY <1>4, ChainStep
  <2>2. HistoryOf(included', inbox')
    BY <2>1 DEF ChainOK
  <2>3. fin2 \in Nat
    BY <2>2, HistoryType
  <2>4. fin <= fin2
    BY <2>1 DEF FinalKept
  <2> HIDE DEF fin, fin2
  <2> QED
    BY <1>2, <2>3, <2>4
<1> HIDE DEF fin, fin2
<1>5. ASSUME ~Restart, NEW bn \in owed',
             bn \in owed \/ KeptIn(bn, fin2, queue', rest', batch', groups', checks'),
             KeptIn(bn, fin, queue, rest, batch, groups, checks) =>
               KeptIn(bn, fin, queue', rest', batch', groups', checks')
      PROVE  KeptIn(bn, fin2, queue', rest', batch', groups', checks')
  BY <1>1, <1>4, <1>5 DEF KeptIn
<1>6. ASSUME ~Restart,
             \A bn \in owed' :
               /\ \/ bn \in owed
                  \/ KeptIn(bn, fin2, queue', rest', batch', groups', checks')
               /\ KeptIn(bn, fin, queue, rest, batch, groups, checks) =>
                    KeptIn(bn, fin, queue', rest', batch', groups', checks')
      PROVE  KeptInv'
  <2>1. \A bn \in owed' :
          KeptIn(bn, fin2, queue', rest', batch', groups', checks')
    BY <1>5, <1>6
  <2> QED
    BY <2>1 DEF KeptInv, fin2
<1>7. CASE ~Restart /\ (SendBatch \/ RequestResync)
  <2>1. PICK r \in Request :
          /\ queue' = Append(queue, r)
          /\ \A bn \in owed' : bn \in owed \/ bn \in BlocksOf(r)
          /\ UNCHANGED <<rest, batch, groups, checks>>
    <3>1. Len(blocks) \in Nat /\ inbox \in Nat
      BY <1>1, LenProperties DEF TypeOK
    <3>2. CASE SendBatch
      <4>1. PICK k \in 1 .. MaxPerBatch :
              /\ queue' = Append(queue,
                                 [resync |-> FALSE, start |-> Len(blocks) + 1,
                                  end |-> Len(blocks) + k, n |-> k])
              /\ owed' = owed \cup Len(blocks) + 1 .. Len(blocks) + k
        BY <3>2 DEF SendBatch
      <4> DEFINE r == [resync |-> FALSE, start |-> Len(blocks) + 1,
                       end |-> Len(blocks) + k, n |-> k]
      <4>2. r \in Request
        BY <3>1, LimitAssumption DEF Request
      <4>3. BlocksOf(r) = Len(blocks) + 1 .. Len(blocks) + k
        BY DEF BlocksOf
      <4>4. \A bn \in owed' : bn \in owed \/ bn \in BlocksOf(r)
        BY <4>1, <4>3
      <4>5. UNCHANGED <<rest, batch, groups, checks>>
        BY <3>2 DEF SendBatch, batchVars
      <4> QED
        BY <4>1, <4>2, <4>4, <4>5
    <3>3. CASE RequestResync
      <4>1. PICK origin \in 0 .. inbox :
              /\ queue' = Append(queue,
                                 [resync |-> TRUE, start |-> origin + 1,
                                  end |-> Len(blocks), n |-> 0])
              /\ owed' = owed \cup origin + 1 .. Len(blocks)
        BY <3>3 DEF RequestResync
      <4> DEFINE r == [resync |-> TRUE, start |-> origin + 1,
                       end |-> Len(blocks), n |-> 0]
      <4>2. r \in Request
        BY <3>1 DEF Request
      <4>3. BlocksOf(r) = origin + 1 .. Len(blocks)
        BY DEF BlocksOf
      <4>4. \A bn \in owed' : bn \in owed \/ bn \in BlocksOf(r)
        BY <4>1, <4>3
      <4>5. UNCHANGED <<rest, batch, groups, checks>>
        BY <3>3 DEF RequestResync, batchVars, flagVars
      <4> QED
        BY <4>1, <4>2, <4>4, <4>5
    <3> QED
      BY <1>7, <3>2, <3>3
  <2>2. /\ Len(queue') = Len(queue) + 1 /\ Len(queue) \in Nat
        /\ queue'[Len(queue) + 1] = r
        /\ \A i \in 1 .. Len(queue) : queue'[i] = queue[i]
    BY <1>1, <2>1, AppendProperties, LenProperties DEF QueueOf
  <2>3. Len(queue) + 1 \in 1 .. Len(queue')
    BY <2>2
  <2>4. \A i \in 1 .. Len(queue) : i \in 1 .. Len(queue')
    BY <2>2
  <2>5. \A bn \in BlocksOf(r) :
          KeptIn(bn, fin2, queue', rest', batch', groups', checks')
    BY <2>2, <2>3 DEF KeptIn
  <2>6. \A bn : KeptIn(bn, fin, queue, rest, batch, groups, checks) =>
                  KeptIn(bn, fin, queue', rest', batch', groups', checks')
    BY <2>1, <2>2, <2>4 DEF KeptIn
  <2> QED
    BY <1>6, <1>7, <2>1, <2>5, <2>6
<1>8. CASE ~Restart /\ (OtherBlock \/ UNCHANGED work)
  <2>1. UNCHANGED <<queue, rest, batch, groups, checks, owed>>
    BY <1>8 DEF OtherBlock, work, jobVars, batchVars, flagVars
  <2> QED
    BY <1>6, <1>8, <2>1
<1>9. CASE ~Restart /\ (RecvBatch \/ RecvResync)
  <2>1. /\ queue # <<>> /\ queue' = Tail(queue) /\ pc = "recv"
        /\ UNCHANGED <<rest, checks, owed>>
    BY <1>9 DEF RecvBatch, RecvResync, Idle, flagVars
  <2>2. /\ QueueOf(Tail(queue), Len(blocks))
        /\ Head(queue) \in Request /\ Sound(Head(queue), Len(blocks))
        /\ Head(queue) = queue[1] /\ 1 \in 1 .. Len(queue)
        /\ \A i \in 1 .. Len(queue) :
             i = 1 \/ (/\ i - 1 \in 1 .. Len(Tail(queue))
                       /\ queue[i] = Tail(queue)[i - 1])
    BY <1>1, <2>1, QueueTail
  <2>3. ASSUME NEW bn, bn \in BlocksOf(Head(queue))
        PROVE  \/ batch' # None /\ bn \in batch'.bns
               \/ \E g \in groups' : bn \in g
    <3>1. CASE RecvBatch
      <4>1. batch' = [start |-> Head(queue).start, end |-> Head(queue).end,
                      n |-> Head(queue).n,
                      bns |-> BlocksOf(Head(queue))]
        BY <3>1 DEF RecvBatch
      <4>2. batch' # None /\ batch'.bns = BlocksOf(Head(queue))
        BY <2>2, <4>1, BatchOfRequest
      <4> QED
        BY <2>3, <4>2
    <3>2. CASE RecvResync
      <4>1. StartResync(Head(queue))
        BY <3>2 DEF RecvResync
      <4>2. GroupsOf(Head(queue), groups')
        BY <1>1, <2>2, <4>1, StartResyncGroups DEF TypeWork
      <4> QED
        BY <2>3, <4>2 DEF GroupsOf
    <3> QED
      BY <1>9, <3>1, <3>2
  <2>4. groups = {} /\ batch = None
    BY <1>1, <1>9, <2>1 DEF RecvBatch, RecvResync, Idle
  <2>5. ASSUME NEW bn, KeptIn(bn, fin, queue, rest, batch, groups, checks)
        PROVE  KeptIn(bn, fin, queue', rest', batch', groups', checks')
    <3>1. CASE \E i \in 1 .. Len(queue) : bn \in BlocksOf(queue[i])
      BY <2>1, <2>2, <2>3, <3>1 DEF KeptIn
    <3>2. CASE ~(\E i \in 1 .. Len(queue) : bn \in BlocksOf(queue[i]))
      BY <2>1, <2>4, <2>5, <3>2 DEF KeptIn
    <3> QED
      BY <3>1, <3>2
  <2> QED
    BY <1>6, <1>9, <2>1, <2>5
<1>10. CASE ~Restart /\ NextGroup
  <2>1. PICK g \in groups : rest' = RequestsFrom(g) /\ groups' = groups \ {g}
    BY <1>10 DEF NextGroup
  <2>2. /\ rest = <<>> /\ UNCHANGED <<queue, batch, checks, owed>>
    BY <1>10 DEF NextGroup, batchVars
  <2>3. GroupOf(g)
    BY <1>1 DEF Grouped, GroupOf
  <2>4. \A bn \in g : \E i \in 1 .. Len(rest') : bn \in rest'[i].bns
    BY <1>1, <2>1, <2>3, RequestsOfGroup DEF Requested, TypeWork
  <2>5. \A bn : KeptIn(bn, fin, queue, rest, batch, groups, checks) =>
                  KeptIn(bn, fin, queue', rest', batch', groups', checks')
    BY <2>1, <2>2, <2>4 DEF KeptIn
  <2> QED
    BY <1>6, <1>10, <2>2, <2>5
<1>11. CASE ~Restart /\ NextInGroup
  <2>1. /\ pc = "recv" /\ rest # <<>> /\ batch' = Head(rest)
        /\ rest' = Tail(rest) /\ UNCHANGED <<queue, groups, checks, owed>>
    BY <1>11 DEF NextInGroup, flagVars
  <2>2. /\ Head(rest) \in Batch /\ Head(rest) = rest[1]
        /\ \A i \in 1 .. Len(rest) :
             i = 1 \/ (/\ i - 1 \in 1 .. Len(Tail(rest))
                       /\ rest[i] = Tail(rest)[i - 1])
    BY <1>1, <2>1, RestTail DEF TypeWork
  <2>3. batch = None /\ batch' # None
    BY <1>1, <2>1, <2>2, NoneIsNot
  <2>4. \A bn : KeptIn(bn, fin, queue, rest, batch, groups, checks) =>
                  KeptIn(bn, fin, queue', rest', batch', groups', checks')
    BY <2>1, <2>2, <2>3 DEF KeptIn
  <2> QED
    BY <1>6, <1>11, <2>1, <2>4
<1>12. CASE ~Restart /\ EndResync
  <2>1. groups = {} /\ UNCHANGED <<queue, rest, batch, checks, owed>>
    BY <1>12 DEF EndResync, batchVars, flagVars
  <2>2. \A bn : KeptIn(bn, fin, queue, rest, batch, groups, checks) =>
                  KeptIn(bn, fin, queue', rest', batch', groups', checks')
    BY <2>1 DEF KeptIn
  <2> QED
    BY <1>6, <1>12, <2>1, <2>2
<1>13. CASE ~Restart /\ EndsBatch
  <2>1. UNCHANGED <<queue, groups, rest>> /\ batch' = None /\ batch # None
    BY <1>13 DEF EndsBatch, Done, jobVars
  <2>2. CASE pc = "wait" /\ Done(Watched, {})
    <3>1. checks' = checks \cup {AtHand(TRUE)} /\ owed' = owed
      BY <2>2 DEF Done, Watched
    <3>2. AtHand(TRUE).bns = batch.bns
      BY <1>1, <2>2, AtHandType
    <3>3. \A bn : KeptIn(bn, fin, queue, rest, batch, groups, checks) =>
                    KeptIn(bn, fin, queue', rest', batch', groups', checks')
      BY <2>1, <3>1, <3>2 DEF KeptIn
    <3> QED
      BY <1>6, <1>13, <3>1, <3>3
  <2>3. CASE Done({}, batch.bns)
    <3>1. checks' = checks /\ owed' = owed \ batch.bns
      BY <2>3 DEF Done
    <3>2. \A bn \in owed' :
            KeptIn(bn, fin, queue, rest, batch, groups, checks) =>
              KeptIn(bn, fin, queue', rest', batch', groups', checks')
      BY <2>1, <3>1 DEF KeptIn
    <3> QED
      BY <1>6, <1>13, <3>1, <3>2
  <2> QED
    BY <1>13, <2>2, <2>3 DEF EndsBatch
<1>14. CASE ~Restart /\ ReorgCheckPasses
  <2>1. PICK t \in checks :
          checks' = checks \ {t} /\ owed' = owed \ t.bns
    BY <1>14 DEF ReorgCheckPasses
  <2>2. UNCHANGED <<queue, groups, rest, batch>>
    BY <1>14 DEF ReorgCheckPasses, jobVars, batchVars
  <2>3. \A bn \in owed' :
          KeptIn(bn, fin, queue, rest, batch, groups, checks) =>
            KeptIn(bn, fin, queue', rest', batch', groups', checks')
    BY <2>1, <2>2 DEF KeptIn
  <2> QED
    BY <1>6, <1>14, <2>1, <2>3
<1> QED
  BY <1>1, <1>3, <1>7, <1>8, <1>9, <1>10, <1>11, <1>12, <1>13, <1>14, Effects

-----------------------------------------------------------------------------
(* The invariant holds at first and every step preserves it.               *)
LEMMA InvInit ==
  ASSUME Init
  PROVE  Inv
<1>1. /\ queue = <<>> /\ job = None /\ groups = {} /\ rest = <<>>
      /\ excused = FALSE /\ batch = None /\ pc = "recv" /\ retries = 0 /\ last_used_nonce = None
      /\ live_pending = 0 /\ delayed = FALSE /\ checks = {}
      /\ owed = {} /\ l1_reorged = FALSE /\ blocks = <<>>
      /\ my_turn = TRUE /\ inbox = 0 /\ nonce = 0
      /\ pool = {} /\ included = <<>>
  BY DEF Init
<1>2. \A S : <<>> \in Seq(S)
  BY EmptySeq
<1>3. TypeOK
  <2>1. MaxRetries \in Nat \ {0}
    BY LimitAssumption
  <2>2. retries \in 0 .. MaxRetries - 1
    BY <1>1, <2>1
  <2>3. queue \in Seq(Request) /\ rest \in Seq(Batch)
    BY <1>1, <1>2
  <2>4. /\ blocks \in Seq([anchor: 0 .. MaxAnchor, size: Sizes])
        /\ included \in Seq([tx: Tx \cup {None}, ok: BOOLEAN, before: Nat])
    BY <1>1, <1>2
  <2> QED
    BY <1>1, <2>2, <2>3, <2>4 DEF TypeOK
<1>4. LivePendingExact
  <2>1. CountOf(queue) = 0
    <3>1. queue \in Seq(Request)
      BY <1>1, <1>2
    <3>2. {i \in 1 .. Len(queue) : ~queue[i].resync} = {}
      BY <1>1
    <3> QED
      BY <3>1, <3>2, CountIs, FS_EmptySet
  <2> QED
    BY <1>1, <2>1, LivePendingIs DEF CountedOf
<1>5. /\ DelayedWhileRetrying /\ WorkInv /\ StraightInv /\ KeptInv /\ ExactInv
      /\ HistoryInv /\ NonceInv
  BY <1>1
  DEF DelayedWhileRetrying, WorkInv, StraightInv, KeptInv, ExactInv, CountsFit,
      AllExact, HistoryInv, NonceInv
<1> QED
  BY <1>3, <1>4, <1>5 DEF Inv

LEMMA InvStep ==
  ASSUME Inv, [Next]_vars
  PROVE  Inv'
<1>1. TypeWork' /\ WorkInv'
  BY WorkStep
<1>2. TypeLoop' /\ DelayedWhileRetrying'
  BY Loop DEF LoopStep
<1>3. ChainOK'
  BY ChainStep
<1>4. HistoryInv' /\ NonceInv'
  BY <1>2, <1>3 DEF ChainOK, HistoryOf, HistoryInv, Nonces, NonceInv, TypeLoop
<1>5. live_pending' = CountedOf(queue', rest', batch')
  BY <1>1, CountStep
<1>6. live_pending' \in Nat
  BY <1>1, <1>5, CountedType DEF TypeWork
<1>7. LivePendingExact'
  BY <1>5 DEF LivePendingExact, Waiting, CountOf, CountedOf
<1>8. StraightInv' /\ excused' \in BOOLEAN
  BY StraightStep
<1>9. TypeOK'
  BY <1>1, <1>2, <1>3, <1>6, <1>8
  DEF TypeOK, TypeWork, TypeLoop, ChainOK, TypeL1, HistoryOf, L2, Inclusion
<1> QED
  BY <1>1, <1>2, <1>4, <1>7, <1>8, <1>9, ExactStep, KeptStep DEF Inv

THEOREM ProposerInvariant == Spec => []Inv
BY InvInit, InvStep, PTL DEF Spec

(* Types: in particular LivePending never goes below zero, whatever ends   *)
(* the batches it counts.                                                  *)
THEOREM ProposerTypes == Spec => []TypeOK
BY ProposerInvariant, PTL DEF Inv

(* LivePending counts what waits in the queue, in the Resync under way and *)
(* at hand: no path through propose_batch, resync or the queue leaves it   *)
(* too high, where it would throttle the sequencer for ever, or too low.   *)
THEOREM LivePendingCounts == Spec => []LivePendingExact
BY ProposerInvariant, PTL DEF Inv

(* The flag that stops the sequencer is up only while a batch is retried   *)
(* after a failure: giving up clears it as proposing does.                 *)
THEOREM DelaysWhileRetrying == Spec => []DelayedWhileRetrying
BY ProposerInvariant, PTL DEF Inv

(* A block that is kept somewhere is not dropped.                         *)
LEMMA KeptIsNoDrop == Inv => NoSilentDrop
<1> SUFFICES ASSUME Inv, NEW bn \in owed
             PROVE  bn \in 1 .. Final \cup StillToPropose
                           \cup UNION {t.bns : t \in checks}
  BY DEF NoSilentDrop
<1>1. KeptIn(bn, Final, queue, rest, batch, groups, checks)
  BY DEF Inv, KeptInv, Final, FinalOf
<1>2. DOMAIN queue = 1 .. Len(queue)
  BY LenProperties DEF Inv, TypeOK
<1>3. DOMAIN rest = 1 .. Len(rest)
  BY LenProperties DEF Inv, TypeOK
<1>4. CASE \E i \in 1 .. Len(queue) : bn \in BlocksOf(queue[i])
  BY <1>2, <1>4 DEF StillToPropose, Range
<1>5. CASE \E i \in 1 .. Len(rest) : bn \in rest[i].bns
  BY <1>3, <1>5 DEF StillToPropose, Pursued, Range
<1>6. CASE batch # None /\ bn \in batch.bns
  BY <1>6 DEF StillToPropose, Pursued
<1>7. CASE \E g \in groups : bn \in g
  BY <1>7 DEF StillToPropose
<1> QED
  BY <1>1, <1>4, <1>5, <1>6, <1>7 DEF KeptIn

(* Every block handed over stays in the queue, in a group or a request of  *)
(* a Resync, in the batch at hand or under watch until it is final on L1,  *)
(* unless its batch is given up or its watch ends.                         *)
THEOREM NoBlockDropped == Spec => []NoSilentDrop
BY ProposerInvariant, KeptIsNoDrop, PTL

(* Until L1 undoes an inclusion no two transactions of ours that may still *)
(* be included have different nonces: a retry or a restart replaces the    *)
(* one that was sent, and never adds to it.                                *)
THEOREM OneNonceAtATime == Spec => []OneNonce
<1>1. Inv => OneNonce
  BY DEF Inv, NonceInv, OneNonce
<1> QED
  BY <1>1, ProposerInvariant, PTL

(* If every block fits in a batch, a batch holds exactly the blocks that   *)
(* lie between its ends, whether the sequencer made it or a Resync that    *)
(* split the blocks it found by anchor, size and number; and, excused or   *)
(* not, never more than the limit.  Anchors may go down: then the blocks   *)
(* of one anchor are no run, and the validation has refused them, unless   *)
(* it was not told (pending, or the same second).                          *)
THEOREM BatchesExact ==
  ASSUME SmallBlocks
  PROVE  Spec => []BatchExact
<1>1. Inv => BatchExact
  <2> SUFFICES ASSUME Inv, NEW b \in Pursued
               PROVE  b.n <= MaxPerBatch /\ (~excused => Exact(b))
    BY DEF BatchExact, Exact
  <2>1. /\ CountsFit(batch, rest) /\ (~excused => AllExact(batch, rest))
        /\ DOMAIN rest = 1 .. Len(rest)
    BY LenProperties DEF Inv, ExactInv, TypeOK
  <2> QED
    BY <2>1 DEF Pursued, Range, CountsFit, AllExact
<1> QED
  BY <1>1, ProposerInvariant, PTL

=============================================================================
