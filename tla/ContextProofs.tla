--------------------------- MODULE ContextProofs ---------------------------
(* Theorems about the sequencer's context, for every value of the          *)
(* constants.                                                              *)
EXTENDS Context, SequenceTheorems, WellFoundedInduction, TLAPS

-----------------------------------------------------------------------------
(* Helpers.                                                                *)

(* A part of a sequence that lies within it.                               *)
LEMMA PartOfSeq ==
  ASSUME NEW S, NEW s \in Seq(S), NEW m \in Int, NEW n \in Int,
         m >= 1, n <= Len(s)
  PROVE  /\ SubSeq(s, m, n) \in Seq(S)
         /\ Len(SubSeq(s, m, n)) = IF m <= n THEN n - m + 1 ELSE 0
         /\ \A i \in 1 .. n - m + 1 : SubSeq(s, m, n)[i] = s[m + i - 1]
<1>1. \A i \in m .. n : s[i] \in S
  BY ElementOfSeq, LenProperties
<1> QED
  BY <1>1, SubSeqProperties

(* What the types leave open: the L1 is longer than l1_safe_lag, and the   *)
(* polled origin and the node's are on its chain.                          *)
OriginOnChain == l2_origin <= head_origin /\ head_origin <= Len(chain)

TypeInv == TypeOK /\ L1Lag < l1_head /\ OriginOnChain

LEMMA ReadyType == IsReady \in BOOLEAN /\ IsReady' \in BOOLEAN
BY Zenon DEF IsReady

LEMMA RememberedType ==
  ASSUME TypeOK, NEW b \in Block
  PROVE  Remembered(b) \subseteq Block
BY DEF Remembered, TypeOK

(* update_parent_block_id appends the block or leaves the kept part.       *)
LEMMA UpdateParentType ==
  ASSUME NEW kept \in Seq(Block), NEW b \in Block, UpdateParent(kept, b)
  PROVE  l2_headers' \in Seq(Block)
<1>1. Append(kept, b) \in Seq(Block)
  BY AppendProperties
<1> QED
  BY <1>1 DEF UpdateParent

(* new_preconf_l2_block keeps the types of what it changes.                *)
LEMMA NewPreconfType ==
  ASSUME TypeOK, NEW b \in Block, NewPreconfL2Block(b)
  PROVE  /\ l2_headers' \in Seq(Block)
         /\ to_verify' \subseteq Block
         /\ pruned_own' \subseteq Block
         /\ malformed' \in BOOLEAN
<1>1. l2_headers \in Seq(Block) /\ DOMAIN l2_headers = 1 .. Len(l2_headers)
      /\ malformed \in BOOLEAN
  BY LenProperties DEF TypeOK
<1>2. l2_headers' \in Seq(Block)
  <2>1. CASE UpdateParent(l2_headers, b)
    BY <1>1, <2>1, UpdateParentType
  <2>2. ASSUME NEW i \in DOMAIN l2_headers,
               UpdateParent(SubSeq(l2_headers, 1, i - 1), b)
        PROVE  l2_headers' \in Seq(Block)
    <3>1. 1 \in Int /\ i - 1 \in Int /\ i - 1 <= Len(l2_headers)
      BY <1>1
    <3>2. SubSeq(l2_headers, 1, i - 1) \in Seq(Block)
      BY <1>1, <3>1, PartOfSeq
    <3> QED
      BY <2>2, <3>2, UpdateParentType
  <2>3. CASE UNCHANGED l2_headers
    BY <1>1, <2>3
  <2> QED
    BY <2>1, <2>2, <2>3 DEF NewPreconfL2Block
<1>3. to_verify' \subseteq Block
  BY RememberedType DEF NewPreconfL2Block, Unverified
<1>4. pruned_own' \subseteq Block
  <2>1. pruned_own \subseteq Block
    BY DEF TypeOK
  <2> QED
    BY <2>1 DEF NewPreconfL2Block
<1>5. malformed' \in BOOLEAN
  BY <1>1, Zenon DEF NewPreconfL2Block
<1> QED
  BY <1>2, <1>3, <1>4, <1>5

(* The node adopts a block above its origin and next to its chain.         *)
LEMMA NodeAdoptsType ==
  ASSUME TypeInv, NEW b \in Block, NodeAdopts(b),
         head_origin < b.number, b.number <= Len(chain) + 1
  PROVE  /\ chain' \in Seq(Block) /\ chain' # <<>> /\ fork' \in Nat
         /\ l2_blocks_rx' \in Seq(Block)
         /\ head_origin' \in Nat /\ head_origin' <= Len(chain')
<1>1. /\ chain \in Seq(Block) /\ Len(chain) \in Nat
      /\ b.number \in Nat /\ head_origin \in Nat
  BY LenProperties DEF TypeInv, TypeOK, Block
<1>2. /\ SubSeq(chain, 1, b.number - 1) \in Seq(Block)
      /\ Len(SubSeq(chain, 1, b.number - 1)) = b.number - 1
  BY <1>1, PartOfSeq
<1>3. chain' \in Seq(Block) /\ chain' # <<>> /\ Len(chain') = b.number
  BY <1>1, <1>2, AppendProperties DEF NodeAdopts
<1>4. l2_blocks_rx' \in Seq(Block)
  <2>1. l2_blocks_rx \in Seq(Block)
    BY DEF TypeInv, TypeOK
  <2>2. Append(l2_blocks_rx, b) \in Seq(Block)
    BY <2>1, AppendProperties
  <2> QED
    BY <2>1, <2>2 DEF NodeAdopts
<1>5. fork' \in Nat /\ head_origin' = head_origin
  BY DEF NodeAdopts, Block
<1> QED
  BY <1>1, <1>3, <1>4, <1>5

(* The backfilled headers.                                                 *)
LEMMA HeadersUpToType ==
  ASSUME NEW n \in Nat, L1Lag < n
  PROVE  HeadersUpTo(n) \subseteq Header /\ HeadersUpTo(n) # {}
<1>1. n - L1Lag .. n \subseteq Nat /\ n \in n - L1Lag .. n
  BY LagAssumption
<1>2. HeadersUpTo(n) \subseteq Header
  BY <1>1 DEF HeadersUpTo, Header
<1>3. [number |-> n, live |-> TRUE] \in HeadersUpTo(n)
  BY <1>1 DEF HeadersUpTo
<1> QED
  BY <1>2, <1>3

(* A restart sets everything from the node and the L1 head.                *)
LEMMA RestartType ==
  ASSUME TypeInv, Restart
  PROVE  TypeInv'
<1>1. l1_head \in Nat /\ L1Lag < l1_head /\ L1Lag \in Nat \ {0}
  BY LagAssumption DEF TypeInv, TypeOK
<1>2. /\ l1_headers' \subseteq Header /\ l1_headers' # {}
      /\ {l1_head', l1_top', anchored'} \subseteq Nat /\ L1Lag < l1_head'
  <2>1. l1_head - L1Lag \in Nat
    BY <1>1
  <2> QED
    BY <1>1, <2>1, HeadersUpToType DEF Restart
<1>3. l2_blocks_rx' \in Seq(Block)
  <2>1. chain \in Seq(Block) /\ chain # <<>> /\ Len(chain) \in Nat
    BY LenProperties DEF TypeInv, TypeOK
  <2>2. CASE Len(chain) = 1
    BY <2>1, <2>2 DEF Restart
  <2>3. CASE Len(chain) # 1
    <3>1. Len(chain) # 0
      BY <2>1, EmptySeq, Zenon
    <3>2. Len(chain) - 1 >= 1
      BY <2>1, <2>3, <3>1
    <3>3. SubSeq(chain, Len(chain) - 1, Len(chain)) \in Seq(Block)
      BY <2>1, <3>2, PartOfSeq
    <3> QED
      BY <2>3, <3>3 DEF Restart
  <2> QED
    BY <2>2, <2>3
<1>4. <<>> \in Seq(Block)
  BY EmptySeq
<1>5. OriginOnChain'
  BY DEF Restart, OriginOnChain, nodeVars, TypeInv, TypeOK
<1>6. {polling', ready', l1_gap', reverted', malformed'} \subseteq BOOLEAN
  BY DEF Restart
<1> QED
  BY <1>2, <1>3, <1>4, <1>5, <1>6 DEF Restart, TypeInv, TypeOK, nodeVars

(* Every set of numbers has a least one.                                   *)
LEMMA LeastNatural ==
  ASSUME NEW S, S \subseteq Nat, S # {}
  PROVE  \E m \in S : \A k \in S : m <= k
<1> DEFINE R == OpToRel(<, Nat)
<1>1. IsWellFoundedOn(R, Nat)
  BY NatLessThanWellFounded
<1>2. \A x, y \in Nat : x < y => <<x, y>> \in R
  BY DEF OpToRel
<1> HIDE DEF R
<1>3. \E x \in S : \A y \in S : ~(<<y, x>> \in R)
  BY <1>1, WFMin
<1>4. \E x \in S : \A y \in S : ~(y < x)
  BY <1>2, <1>3
<1> QED
  BY <1>4

(* The first of the kept headers.                                          *)
LEMMA SafeIsFirst ==
  ASSUME l1_headers \subseteq Header, l1_headers # {}
  PROVE  /\ SafeL1 \in l1_headers /\ SafeNumber = SafeL1.number
         /\ SafeNumber \in Nat
         /\ \A h \in l1_headers : SafeNumber <= h.number
<1> DEFINE S == {h.number : h \in l1_headers}
<1>1. S \subseteq Nat /\ S # {}
  BY DEF Header
<1>2. PICK m \in S : \A k \in S : m <= k
  <2> HIDE DEF S
  <2> QED
    BY <1>1, LeastNatural
<1>3. \E h \in l1_headers : \A o \in l1_headers : h.number <= o.number
  BY <1>2
<1>4. SafeL1 \in l1_headers /\ \A o \in l1_headers : SafeL1.number <= o.number
  BY <1>3 DEF SafeL1
<1> QED
  BY <1>4 DEF SafeNumber, Header

LEMMA SafePrimed ==
  ASSUME l1_headers' \subseteq Header, l1_headers' # {}
  PROVE  /\ SafeL1' \in l1_headers' /\ SafeNumber' = SafeL1'.number
         /\ SafeNumber' \in Nat
         /\ \A h \in l1_headers' : SafeNumber' <= h.number
<1> DEFINE S == {h.number : h \in l1_headers'}
<1>1. S \subseteq Nat /\ S # {}
  BY DEF Header
<1>2. PICK m \in S : \A k \in S : m <= k
  <2> HIDE DEF S
  <2> QED
    BY <1>1, LeastNatural
<1>3. \E h \in l1_headers' : \A o \in l1_headers' : h.number <= o.number
  BY <1>2
<1>4. /\ SafeL1' \in l1_headers'
      /\ \A o \in l1_headers' : SafeL1'.number <= o.number
  BY <1>3 DEF SafeL1
<1> QED
  BY <1>4 DEF SafeNumber, Header

(* new_l1_block.                                                           *)
LEMMA KeptL1Type ==
  ASSUME NEW n \in Nat, NEW b \in Nat, l1_headers \subseteq Header
  PROVE  KeptL1(Orphaned(b), n) \subseteq Header /\ KeptL1(Orphaned(b), n) # {}
<1>1. Orphaned(b) \subseteq Header
  BY DEF Orphaned, Header
<1>2. [number |-> n, live |-> TRUE] \in Header
  BY DEF Header
<1> QED
  BY <1>1, <1>2 DEF KeptL1

LEMMA NewL1Type ==
  ASSUME TypeOK, NewL1Block
  PROVE  /\ l1_headers' \subseteq Header /\ l1_headers' # {}
         /\ {l1_head', l1_top', anchored'} \subseteq Nat /\ L1Lag < l1_head'
         /\ {l1_gap', reverted'} \subseteq BOOLEAN
<1>1. PICK n \in L1Lag + 1 .. MaxL1, b \in Int :
        /\ b \in 1 .. n
        /\ l1_headers' = KeptL1(Orphaned(b), n)
        /\ l1_head' = n
        /\ l1_gap' = (l1_gap \/ b < n)
        /\ l1_top' = Newer(l1_top, n)
        /\ anchored' = IF Deep(b) THEN SafeNumber'
                                  ELSE Newer(anchored, SafeNumber')
        /\ reverted' = (reverted \/ (~Deep(b) /\ b <= anchored))
  BY DEF NewL1Block
<1>2. n \in Nat /\ b \in Nat /\ L1Lag < n
  BY <1>1, LagAssumption, ContextBounds
<1>3. l1_headers' \subseteq Header /\ l1_headers' # {}
  BY <1>1, <1>2, KeptL1Type DEF TypeOK
<1>4. SafeNumber' \in Nat
  BY <1>3, SafePrimed
<1>5. l1_gap' \in BOOLEAN /\ reverted' \in BOOLEAN
  BY <1>1, Zenon
<1> QED
  BY <1>1, <1>2, <1>3, <1>4, <1>5 DEF Newer, TypeOK

(* Every variable keeps its type, whatever the three feeds deliver: one    *)
(* case per action of Next.                                                *)
LEMMA ContextTypeStep == TypeInv /\ [Next]_vars => TypeInv'
<1> SUFFICES ASSUME TypeInv, [Next]_vars PROVE TypeInv'
  OBVIOUS
<1>a. TypeOK /\ L1Lag < l1_head /\ OriginOnChain
  BY DEF TypeInv
<1>b. L1Lag \in Nat \ {0} /\ MaxL1 \in Nat
  BY LagAssumption, ContextBounds
<1>1. CASE NewL1Block
  <2>1. /\ l1_headers' \subseteq Header /\ l1_headers' # {}
        /\ {l1_head', l1_top', anchored'} \subseteq Nat /\ L1Lag < l1_head'
        /\ {l1_gap', reverted'} \subseteq BOOLEAN
    BY <1>1, NewL1Type, <1>a
  <2>2. ready' \in BOOLEAN
    BY <1>1, Zenon DEF NewL1Block
  <2> QED
    BY <1>1, <1>a, <2>1, <2>2
       DEF NewL1Block, TypeInv, TypeOK, OriginOnChain, nodeVars, originVars,
           pastVars
<1>2. CASE RecvL2
  <2>1. /\ l2_blocks_rx \in Seq(Block) /\ l2_blocks_rx # <<>>
        /\ NewPreconfL2Block(Head(l2_blocks_rx))
        /\ l2_blocks_rx' = Tail(l2_blocks_rx)
    BY <1>2, <1>a DEF RecvL2, TypeOK
  <2>2. Head(l2_blocks_rx) \in Block /\ l2_blocks_rx' \in Seq(Block)
    BY <2>1, HeadTailProperties
  <2>3. /\ l2_headers' \in Seq(Block) /\ to_verify' \subseteq Block
        /\ pruned_own' \subseteq Block /\ malformed' \in BOOLEAN
    BY <1>a, <2>1, <2>2, NewPreconfType
  <2>4. ready' \in BOOLEAN
    BY <1>2, Zenon DEF RecvL2
  <2> QED
    BY <1>2, <1>a, <2>2, <2>3, <2>4
       DEF RecvL2, TypeInv, TypeOK, OriginOnChain, nodeVars, l1Vars,
           originVars
<1>3. CASE NewOriginL2Block
  <2>1. CASE Restart
    BY <2>1, RestartType
  <2>2. ASSUME NEW h, h = Head(origin_blocks_rx),
               to_verify' = StillToVerify(h),
               NEW i \in 0 .. Len(l2_headers),
               l2_headers' = SubSeq(l2_headers, i + 1, Len(l2_headers)),
               confirmed' = h.number,
               origin_blocks_rx # <<>>,
               origin_blocks_rx' = Tail(origin_blocks_rx),
               UNCHANGED <<l1_headers, l1Vars, nodeVars, originVars, ready,
                           l2_blocks_rx, pruned_own, malformed>>
        PROVE  TypeInv'
    <3>1. /\ origin_blocks_rx \in Seq(Block) /\ l2_headers \in Seq(Block)
          /\ Len(l2_headers) \in Nat
      BY <1>a, LenProperties DEF TypeOK
    <3>2. h \in Block /\ origin_blocks_rx' \in Seq(Block)
      BY <2>2, <3>1, HeadTailProperties
    <3>3. l2_headers' \in Seq(Block)
      BY <2>2, <3>1, PartOfSeq
    <3>4. to_verify' \subseteq Block
      BY <1>a, <2>2 DEF StillToVerify, TypeOK
    <3>5. confirmed' \in Nat
      BY <2>2, <3>2 DEF Block
    <3> QED
      BY <1>a, <2>2, <3>2, <3>3, <3>4, <3>5
         DEF TypeInv, TypeOK, OriginOnChain, nodeVars, l1Vars, originVars
  <2> QED
    BY <1>3, <2>1, <2>2 DEF NewOriginL2Block
<1>4. CASE ParentPanics
  BY <1>4, RestartType DEF ParentPanics
<1>5. CASE SealBlock
  <2>1. PICK i \in DOMAIN l2_headers :
          LET p == l2_headers[i]
              n == p.number + 1
              b == [number |-> n, parent |-> p.fork, own |-> TRUE,
                    fork |-> IF n <= Len(chain) THEN fork + 1 ELSE fork]
          IN  /\ head_origin < n /\ n <= MaxBlock /\ b.fork <= MaxFork
              /\ p.number <= Len(chain) /\ chain[p.number] = p
              /\ NodeAdopts(b)
              /\ NewPreconfL2Block(b)
    BY <1>5 DEF SealBlock
  <2> DEFINE p == l2_headers[i]
             b == [number |-> p.number + 1, parent |-> p.fork, own |-> TRUE,
                   fork |-> IF p.number + 1 <= Len(chain) THEN fork + 1
                                                          ELSE fork]
  <2>2. p \in Block /\ fork \in Nat /\ Len(chain) \in Nat
    BY <1>a, ElementOfSeq, LenProperties DEF TypeOK
  <2>3. b \in Block /\ b.number = p.number + 1
    BY <2>2 DEF Block
  <2>4. /\ NodeAdopts(b) /\ NewPreconfL2Block(b)
        /\ head_origin < b.number /\ b.number <= Len(chain) + 1
    <3>1. NodeAdopts(b) /\ NewPreconfL2Block(b)
          /\ head_origin < p.number + 1 /\ p.number <= Len(chain)
      BY <2>1
    <3> HIDE DEF b
    <3> QED
      BY <2>2, <2>3, <3>1 DEF Block
  <2> HIDE DEF b, p
  <2>5. /\ chain' \in Seq(Block) /\ chain' # <<>> /\ fork' \in Nat
        /\ l2_blocks_rx' \in Seq(Block)
        /\ head_origin' \in Nat /\ head_origin' <= Len(chain')
    BY <2>3, <2>4, NodeAdoptsType
  <2>6. /\ l2_headers' \in Seq(Block) /\ to_verify' \subseteq Block
        /\ pruned_own' \subseteq Block /\ malformed' \in BOOLEAN
    BY <1>a, <2>3, <2>4, NewPreconfType
  <2>7. head_origin' = head_origin
    BY <2>4 DEF NodeAdopts
  <2> QED
    BY <1>5, <1>a, <2>5, <2>6, <2>7
       DEF SealBlock, TypeInv, TypeOK, OriginOnChain, l1Vars, originVars
<1>6. CASE OtherBlock
  <2>1. PICK n \in head_origin + 1 .. MaxBlock, own \in BOOLEAN :
          LET b == [number |-> n, parent |-> ForkAt(n - 1), own |-> own,
                    fork |-> IF n <= Len(chain) THEN fork + 1 ELSE fork]
          IN  n <= Len(chain) + 1 /\ NodeAdopts(b)
    BY <1>6 DEF OtherBlock
  <2> DEFINE b == [number |-> n, parent |-> ForkAt(n - 1), own |-> own,
                   fork |-> IF n <= Len(chain) THEN fork + 1 ELSE fork]
  <2>2. /\ fork \in Nat /\ Len(chain) \in Nat /\ head_origin \in Nat
        /\ MaxBlock \in Nat /\ chain \in Seq(Block)
    BY <1>a, ContextBounds, LenProperties DEF TypeOK
  <2>3. n \in Nat \ {0} /\ head_origin < n /\ n <= Len(chain) + 1
    BY <2>1, <2>2
  <2>4. ForkAt(n - 1) \in Nat
    <3>1. CASE n = 1
      BY <3>1 DEF ForkAt
    <3>2. CASE n # 1
      <4>1. n - 1 \in 1 .. Len(chain)
        BY <2>2, <2>3, <3>2
      <4>2. chain[n - 1] \in Block
        BY <2>2, <4>1, ElementOfSeq
      <4> QED
        BY <2>3, <3>2, <4>2 DEF ForkAt, Block
    <3> QED
      BY <3>1, <3>2
  <2>5. b \in Block /\ b.number = n
    BY <2>2, <2>3, <2>4 DEF Block
  <2>6. NodeAdopts(b)
    BY <2>1
  <2> HIDE DEF b
  <2>7. /\ chain' \in Seq(Block) /\ chain' # <<>> /\ fork' \in Nat
        /\ l2_blocks_rx' \in Seq(Block)
        /\ head_origin' \in Nat /\ head_origin' <= Len(chain')
    BY <2>3, <2>5, <2>6, NodeAdoptsType
  <2>8. head_origin' = head_origin
    BY <2>6 DEF NodeAdopts
  <2> QED
    BY <1>6, <1>a, <2>7, <2>8
       DEF OtherBlock, TypeInv, TypeOK, OriginOnChain, ctxVars, l1Vars,
           originVars, pastVars
<1>7. CASE Confirm
  <2>1. head_origin \in Nat /\ Len(chain) \in Nat /\ l2_origin \in Nat
    BY <1>a, LenProperties DEF TypeOK
  <2>2. head_origin' \in Nat /\ head_origin' >= head_origin
        /\ head_origin' <= Len(chain)
    BY <1>7, <2>1 DEF Confirm
  <2> QED
    BY <1>7, <1>a, <2>1, <2>2
       DEF Confirm, TypeInv, TypeOK, OriginOnChain, ctxVars, l1Vars,
           originVars, pastVars
<1>8. CASE OriginStart
  BY <1>8, <1>a
     DEF OriginStart, TypeInv, TypeOK, OriginOnChain, ctxVars, l1Vars,
         nodeVars, pastVars
<1>9. CASE PollOrigin
  <2>a. l2_origin' <= head_origin /\ l2_origin' \in Nat
    BY <1>9, <1>a DEF PollOrigin, OriginOnChain, TypeOK
  <2>b. polling' \in BOOLEAN
    BY <1>9, Zenon DEF PollOrigin
  <2>1. origin_blocks_rx' \in Seq(Block)
    <3>1. /\ l2_origin \in Nat /\ head_origin \in Nat /\ Len(chain) \in Nat
          /\ head_origin <= Len(chain) /\ chain \in Seq(Block)
          /\ origin_blocks_rx \in Seq(Block)
      BY <1>a, LenProperties DEF TypeOK, OriginOnChain
    <3>2. ASSUME NEW k \in l2_origin .. head_origin
          PROVE  origin_blocks_rx \o SubSeq(chain, l2_origin + 1, k)
                   \in Seq(Block)
      <4>1. /\ l2_origin + 1 >= 1 /\ k <= Len(chain) /\ k \in Int
            /\ l2_origin + 1 \in Int
        BY <3>1
      <4>2. SubSeq(chain, l2_origin + 1, k) \in Seq(Block)
        BY <3>1, <4>1, PartOfSeq
      <4> QED
        BY <3>1, <4>2, ConcatProperties
    <3> QED
      BY <1>9, <3>1, <3>2 DEF PollOrigin
  <2> QED
    BY <1>9, <1>a, <2>1, <2>a, <2>b
       DEF PollOrigin, TypeInv, TypeOK, OriginOnChain, ctxVars, l1Vars,
           nodeVars, pastVars
<1>10. CASE UNCHANGED vars
  BY <1>10, <1>a DEF TypeInv, TypeOK, OriginOnChain, vars, ctxVars, l1Vars,
     nodeVars, originVars, pastVars
<1> QED
  BY <1>1, <1>2, <1>3, <1>4, <1>5, <1>6, <1>7, <1>8, <1>9, <1>10 DEF Next

LEMMA ContextInit == Init => TypeInv
<1> SUFFICES ASSUME Init PROVE TypeInv
  OBVIOUS
<1>1. L1Lag \in Nat \ {0} /\ l1_head = L1Lag + 1
  BY LagAssumption DEF Init
<1>2. /\ l1_headers \subseteq Header /\ l1_headers # {}
      /\ {l1_head, l1_top, anchored} \subseteq Nat /\ L1Lag < l1_head
  BY <1>1, HeadersUpToType DEF Init
<1>4. /\ chain \in Seq(Block) /\ chain # <<>> /\ Len(chain) = 1
      /\ l2_blocks_rx \in Seq(Block)
  BY DEF Init, Block
<1>5. l2_headers \in Seq(Block) /\ origin_blocks_rx \in Seq(Block)
  BY EmptySeq DEF Init
<1>6. {polling, ready, l1_gap, reverted, malformed} \subseteq BOOLEAN
  BY DEF Init
<1> QED
  BY <1>2, <1>4, <1>5, <1>6 DEF Init, TypeInv, TypeOK, OriginOnChain

(* The context's variables always have the types of the source.            *)
THEOREM ContextTypes == Spec => []TypeOK
<1>1. TypeInv => TypeOK
  BY DEF TypeInv
<1> QED
  BY <1>1, ContextInit, ContextTypeStep, PTL DEF Spec

-----------------------------------------------------------------------------
(* The headers are sorted: it is inductive with the types.                 *)
LEMMA AppendSorted ==
  ASSUME NEW s \in Seq(Block), NEW b \in Block,
         \A i, j \in 1 .. Len(s) : i < j => s[i].number < s[j].number,
         \A i \in 1 .. Len(s) : s[i].number < b.number,
         l2_headers' = Append(s, b)
  PROVE  HeadersSorted'
<1>1. Len(s) \in Nat
  BY LenProperties
<1>2. /\ DOMAIN l2_headers' = 1 .. Len(s) + 1
      /\ \A i \in 1 .. Len(s) : l2_headers'[i] = s[i]
      /\ l2_headers'[Len(s) + 1] = b
  BY AppendProperties, LenProperties
<1>3. ASSUME NEW i \in 1 .. Len(s) + 1, NEW j \in 1 .. Len(s) + 1, i < j
      PROVE  l2_headers'[i].number < l2_headers'[j].number
  <2>1. i \in 1 .. Len(s)
    BY <1>1, <1>3
  <2>2. CASE j = Len(s) + 1
    BY <1>2, <2>1, <2>2
  <2>3. CASE j # Len(s) + 1
    <3>1. j \in 1 .. Len(s)
      BY <1>1, <2>3
    <3> QED
      BY <1>2, <1>3, <2>1, <3>1
  <2> QED
    BY <2>2, <2>3
<1> QED
  BY <1>2, <1>3 DEF HeadersSorted

(* A part of the headers is sorted.                                        *)
LEMMA PartSorted ==
  ASSUME l2_headers \in Seq(Block), HeadersSorted,
         NEW m \in Int, NEW n \in Int, m >= 1, n <= Len(l2_headers),
         NEW s, s = SubSeq(l2_headers, m, n)
  PROVE  \A i, j \in 1 .. Len(s) : i < j => s[i].number < s[j].number
<1>1. /\ Len(s) = IF m <= n THEN n - m + 1 ELSE 0
      /\ \A i \in 1 .. n - m + 1 : s[i] = l2_headers[m + i - 1]
  BY PartOfSeq
<1>2. Len(l2_headers) \in Nat /\ DOMAIN l2_headers = 1 .. Len(l2_headers)
  BY LenProperties
<1>3. ASSUME NEW i \in 1 .. Len(s), NEW j \in 1 .. Len(s), i < j
      PROVE  s[i].number < s[j].number
  <2>1. /\ i \in 1 .. n - m + 1 /\ j \in 1 .. n - m + 1
        /\ m + i - 1 \in 1 .. Len(l2_headers)
        /\ m + j - 1 \in 1 .. Len(l2_headers)
        /\ m + i - 1 < m + j - 1
    BY <1>1, <1>2, <1>3
  <2> QED
    BY <1>1, <1>2, <2>1 DEF HeadersSorted
<1> QED
  BY <1>3

(* A new block is appended only when it is above all kept headers.         *)
LEMMA NewPreconfSorted ==
  ASSUME TypeOK, HeadersSorted, NEW b \in Block, NewPreconfL2Block(b)
  PROVE  HeadersSorted'
<1>1. /\ l2_headers \in Seq(Block) /\ Len(l2_headers) \in Nat
      /\ DOMAIN l2_headers = 1 .. Len(l2_headers)
  BY LenProperties DEF TypeOK
<1>2. CASE Extends(b) /\ UpdateParent(l2_headers, b)
  <2>1. ASSUME NEW i \in 1 .. Len(l2_headers)
        PROVE  l2_headers[i].number < b.number
    <3>1. l2_headers # <<>> /\ Len(l2_headers) \in 1 .. Len(l2_headers)
      BY <1>1, EmptySeq
    <3>2. l2_headers[i] \in Block /\ Parent \in Block
      BY <1>1, <3>1, ElementOfSeq DEF Parent
    <3>3. Parent.number < b.number
      BY <1>2, <3>1, <3>2 DEF Extends, Follows, Block
    <3>4. l2_headers[i].number <= Parent.number
      <4>1. CASE i = Len(l2_headers)
        BY <3>2, <4>1 DEF Parent, Block
      <4>2. CASE i < Len(l2_headers)
        <5>1. l2_headers[i].number < Parent.number
          BY <1>1, <2>1, <3>1, <4>2 DEF HeadersSorted, Parent
        <5> QED
          BY <3>2, <5>1 DEF Block
      <4>3. i \in 1 .. Len(l2_headers) /\ Len(l2_headers) \in Nat
        BY <1>1, <2>1
      <4>4. i = Len(l2_headers) \/ i < Len(l2_headers)
        BY <4>3
      <4> QED
        BY <4>1, <4>2, <4>4
    <3> QED
      BY <3>2, <3>3, <3>4 DEF Block
  <2>2. \A i, j \in 1 .. Len(l2_headers) :
          i < j => l2_headers[i].number < l2_headers[j].number
    BY <1>1 DEF HeadersSorted
  <2>3. CASE l2_headers' = Append(l2_headers, b)
    BY <1>1, <2>1, <2>2, <2>3, AppendSorted
  <2>4. CASE l2_headers' = l2_headers
    BY <2>4 DEF HeadersSorted
  <2> QED
    BY <1>2, <2>3, <2>4 DEF UpdateParent
<1>3. ASSUME NEW i \in DOMAIN l2_headers, Replaces(b, i),
             UpdateParent(SubSeq(l2_headers, 1, i - 1), b)
      PROVE  HeadersSorted'
  <2> DEFINE s == SubSeq(l2_headers, 1, i - 1)
  <2>1. i \in 1 .. Len(l2_headers) /\ l2_headers[i].number = b.number
    BY <1>1, <1>3 DEF Replaces, Known
  <2>2. /\ s \in Seq(Block) /\ Len(s) = i - 1
        /\ \A j \in 1 .. i - 1 : s[j] = l2_headers[j]
    <3>1. 1 \in Int /\ i - 1 \in Int /\ i - 1 <= Len(l2_headers)
      BY <1>1, <2>1
    <3>2. /\ s \in Seq(Block)
          /\ Len(s) = IF 1 <= i - 1 THEN i - 1 - 1 + 1 ELSE 0
          /\ \A j \in 1 .. i - 1 - 1 + 1 : s[j] = l2_headers[1 + j - 1]
      BY <1>1, <3>1, PartOfSeq
    <3> HIDE DEF s
    <3> QED
      BY <1>1, <2>1, <3>2
  <2>3. \A j, k \in 1 .. Len(s) : j < k => s[j].number < s[k].number
    <3>1. i - 1 \in Int /\ i - 1 <= Len(l2_headers) /\ 1 >= 1 /\ 1 \in Int
      BY <1>1, <2>1
    <3>2. s = SubSeq(l2_headers, 1, i - 1)
      OBVIOUS
    <3> HIDE DEF s
    <3> QED
      BY <1>1, <3>1, <3>2, PartSorted
  <2>4. UpdateParent(s, b)
    BY <1>3
  <2> HIDE DEF s
  <2>5. ASSUME NEW j \in 1 .. Len(s) PROVE s[j].number < b.number
    <3>1. j \in 1 .. i - 1 /\ j < i /\ j \in 1 .. Len(l2_headers)
      BY <1>1, <2>1, <2>2, <2>5
    <3>2. l2_headers[j].number < l2_headers[i].number
      BY <1>1, <2>1, <3>1 DEF HeadersSorted
    <3> QED
      BY <2>1, <2>2, <3>1, <3>2
  <2>6. CASE l2_headers' = Append(s, b)
    BY <2>2, <2>3, <2>5, <2>6, AppendSorted
  <2>7. CASE l2_headers' = s
    <3>1. DOMAIN s = 1 .. Len(s)
      BY <2>2, LenProperties
    <3> QED
      BY <2>3, <2>7, <3>1 DEF HeadersSorted
  <2> QED
    BY <2>4, <2>6, <2>7 DEF UpdateParent
<1>4. CASE UNCHANGED l2_headers
  BY <1>4 DEF HeadersSorted
<1> QED
  BY <1>2, <1>3, <1>4 DEF NewPreconfL2Block

LEMMA SortedStep == TypeInv /\ HeadersSorted /\ [Next]_vars => HeadersSorted'
<1> SUFFICES ASSUME TypeInv, HeadersSorted, [Next]_vars PROVE HeadersSorted'
  OBVIOUS
<1>a. TypeOK
  BY DEF TypeInv
<1>1. CASE RecvL2
  <2>1. /\ l2_blocks_rx \in Seq(Block) /\ l2_blocks_rx # <<>>
        /\ NewPreconfL2Block(Head(l2_blocks_rx))
    BY <1>1, <1>a DEF RecvL2, TypeOK
  <2>2. Head(l2_blocks_rx) \in Block
    BY <2>1, HeadTailProperties
  <2> QED
    BY <1>a, <2>1, <2>2, NewPreconfSorted
<1>2. CASE SealBlock
  <2>1. PICK i \in DOMAIN l2_headers :
          LET p == l2_headers[i]
              n == p.number + 1
              b == [number |-> n, parent |-> p.fork, own |-> TRUE,
                    fork |-> IF n <= Len(chain) THEN fork + 1 ELSE fork]
          IN  NewPreconfL2Block(b)
    BY <1>2 DEF SealBlock
  <2> DEFINE p == l2_headers[i]
             b == [number |-> p.number + 1, parent |-> p.fork, own |-> TRUE,
                   fork |-> IF p.number + 1 <= Len(chain) THEN fork + 1
                                                          ELSE fork]
  <2>2. p \in Block /\ fork \in Nat
    BY <1>a, ElementOfSeq, LenProperties DEF TypeOK
  <2>3. b \in Block
    BY <2>2 DEF Block
  <2>4. NewPreconfL2Block(b)
    BY <2>1
  <2> HIDE DEF b
  <2> QED
    BY <1>a, <2>3, <2>4, NewPreconfSorted
<1>3. CASE NewOriginL2Block
  <2>1. CASE Restart
    BY <2>1 DEF Restart, HeadersSorted
  <2>2. ASSUME NEW i \in 0 .. Len(l2_headers),
               l2_headers' = SubSeq(l2_headers, i + 1, Len(l2_headers))
        PROVE  HeadersSorted'
    <3> DEFINE s == SubSeq(l2_headers, i + 1, Len(l2_headers))
    <3>1. /\ l2_headers \in Seq(Block) /\ Len(l2_headers) \in Nat
          /\ i + 1 \in Int /\ i + 1 >= 1
      BY <1>a, LenProperties DEF TypeOK
    <3>2. s \in Seq(Block)
      BY <3>1, PartOfSeq
    <3>3. \A j, k \in 1 .. Len(s) : j < k => s[j].number < s[k].number
      <4>1. s = SubSeq(l2_headers, i + 1, Len(l2_headers))
            /\ Len(l2_headers) <= Len(l2_headers) /\ Len(l2_headers) \in Int
        BY <3>1
      <4> HIDE DEF s
      <4> QED
        BY <3>1, <4>1, PartSorted
    <3>4. l2_headers' = s /\ DOMAIN s = 1 .. Len(s)
      BY <2>2, <3>2, LenProperties
    <3> HIDE DEF s
    <3> QED
      BY <3>3, <3>4 DEF HeadersSorted
  <2> QED
    BY <1>3, <2>1, <2>2 DEF NewOriginL2Block
<1>4. CASE ParentPanics
  BY <1>4 DEF ParentPanics, Restart, HeadersSorted
<1>5. CASE UNCHANGED l2_headers
  BY <1>5 DEF HeadersSorted
<1> QED
  BY <1>1, <1>2, <1>3, <1>4, <1>5
     DEF Next, NewL1Block, OtherBlock, Confirm, OriginStart, PollOrigin, vars,
         ctxVars

(* Over reorgs, missed, late and repeated blocks, and whatever the origin  *)
(* poll pops, the kept L2 headers are sorted by number: the last one, the  *)
(* parent of our next block, is the highest.                               *)
THEOREM HeadersStaySorted == Spec => []HeadersSorted
<1>1. Init => HeadersSorted
  BY DEF Init, HeadersSorted
<1>2. Init => TypeInv
  BY ContextInit
<1> QED
  BY <1>1, <1>2, ContextTypeStep, SortedStep, PTL DEF Spec

-----------------------------------------------------------------------------
(* The safe header.  As long as no L1 header was missed, the headers up to *)
(* the head are on the L1, and those from l1_top - L1Lag up to the head    *)
(* are all kept, so the safe one is not above l1_top - L1Lag: only a reorg *)
(* of more than L1Lag blocks reaches it.                                   *)
Keeps(H, k) == \E h \in H : h.number = k

FinalInv ==
  ~l1_gap =>
    /\ l1_head <= l1_top
    /\ \A h \in l1_headers : h.number <= l1_head => h.live
    /\ \A k \in l1_top - L1Lag .. l1_head : Keeps(l1_headers, k)
    /\ Keeps(l1_headers, l1_head)
    /\ anchored + L1Lag <= l1_top
    /\ ~reverted

(* The backfilled headers of a start.                                      *)
LEMMA KeepsUpTo ==
  ASSUME NEW n \in Nat, L1Lag < n, NEW k \in n - L1Lag .. n
  PROVE  \E h \in HeadersUpTo(n) : h.number = k
<1>1. [number |-> k, live |-> TRUE] \in HeadersUpTo(n)
  BY DEF HeadersUpTo
<1> QED
  BY <1>1

LEMMA FinalInit == Init => FinalInv
<1> SUFFICES ASSUME Init PROVE FinalInv
  OBVIOUS
<1>1. /\ L1Lag \in Nat \ {0} /\ l1_head = L1Lag + 1 /\ l1_top = l1_head
      /\ l1_headers = HeadersUpTo(l1_head) /\ anchored = 1 /\ ~reverted
  BY LagAssumption DEF Init
<1>2. \A k \in l1_head - L1Lag .. l1_head : Keeps(l1_headers, k)
  BY <1>1, KeepsUpTo DEF Keeps
<1>3. Keeps(l1_headers, l1_head)
  BY <1>1, <1>2
<1>4. \A h \in l1_headers : h.live
  BY <1>1 DEF HeadersUpTo
<1> QED
  BY <1>1, <1>2, <1>3, <1>4 DEF FinalInv

LEMMA FinalStep == TypeInv /\ FinalInv /\ [Next]_vars => FinalInv'
<1> SUFFICES ASSUME TypeInv, FinalInv, [Next]_vars PROVE FinalInv'
  OBVIOUS
<1>a. /\ TypeOK /\ TypeInv' /\ L1Lag \in Nat \ {0} /\ MaxL1 \in Nat
      /\ l1_headers \subseteq Header /\ l1_headers' \subseteq Header
      /\ l1_headers' # {}
      /\ {l1_head, l1_top, anchored} \subseteq Nat /\ L1Lag < l1_head
  BY ContextTypeStep, LagAssumption, ContextBounds DEF TypeInv, TypeOK
<1>1. CASE NewL1Block
  <2> SUFFICES ASSUME ~l1_gap'
               PROVE  /\ l1_head' <= l1_top'
                      /\ \A h \in l1_headers' : h.number <= l1_head' => h.live
                      /\ \A k \in l1_top' - L1Lag .. l1_head' :
                           Keeps(l1_headers', k)
                      /\ Keeps(l1_headers', l1_head')
                      /\ anchored' + L1Lag <= l1_top'
                      /\ ~reverted'
    BY DEF FinalInv, Keeps
  <2>1. PICK n \in Int, b \in Int :
          /\ n \in L1Lag + 1 .. MaxL1 /\ b \in 1 .. n /\ b <= l1_head + 1
          /\ l1_headers' = KeptL1(Orphaned(b), n)
          /\ l1_head' = n
          /\ l1_gap' = (l1_gap \/ b < n)
          /\ l1_top' = Newer(l1_top, n)
          /\ anchored' = IF Deep(b) THEN SafeNumber'
                                    ELSE Newer(anchored, SafeNumber')
          /\ reverted' = (reverted \/ (~Deep(b) /\ b <= anchored))
    <3>1. L1Lag + 1 .. MaxL1 \subseteq Int /\ \A m : 1 .. m \subseteq Int
      OBVIOUS
    <3> QED
      BY <1>1, <3>1 DEF NewL1Block
  <2>n. /\ l1_head \in Nat /\ l1_top \in Nat /\ anchored \in Nat
        /\ L1Lag \in Nat /\ 1 <= L1Lag
    BY <1>a
  <2>a. ~l1_gap /\ ~(b < n)
    BY <2>1
  <2>2. n = b /\ n \in Nat /\ n <= l1_head + 1 /\ ~l1_gap
    BY <1>a, <2>1, <2>a
  <2>3. l1_head <= l1_top /\ anchored + L1Lag <= l1_top /\ ~reverted
    BY <2>2 DEF FinalInv
  <2>b. \A h \in l1_headers : h.number <= l1_head => h.live
    BY <2>2 DEF FinalInv
  <2>c. \A k \in l1_top - L1Lag .. l1_head : Keeps(l1_headers, k)
    BY <2>2 DEF FinalInv
  <2>4. PICK t \in Nat : t = l1_top' /\ t = Newer(l1_top, n)
    BY <2>1, <2>2, <2>n DEF Newer
  <2>d. l1_top <= t /\ n <= t
    BY <2>2, <2>n, <2>4 DEF Newer
  <2>e. t <= l1_top \/ t <= n
    BY <2>2, <2>n, <2>4 DEF Newer
  <2>5. ASSUME NEW h \in l1_headers', h.number <= n PROVE h.live
    <3>1. CASE h = [number |-> n, live |-> TRUE]
      BY <3>1
    <3>2. ASSUME NEW g \in l1_headers, g.number # n,
                 h = [g EXCEPT !.live = @ /\ g.number < b]
          PROVE  h.live
      <4>1. g \in Header /\ h.number = g.number
            /\ h.live = (g.live /\ g.number < b)
        BY <1>a, <3>2 DEF Header
      <4>2. g.number < b /\ g.number <= l1_head
        BY <1>a, <2>2, <2>5, <3>2, <4>1 DEF Header
      <4>3. g.live
        BY <2>b, <3>2, <4>2
      <4> QED
        BY <4>1, <4>2, <4>3
    <3>3. h = [number |-> n, live |-> TRUE]
          \/ \E g \in l1_headers :
               h = [g EXCEPT !.live = @ /\ g.number < b] /\ h.number # n
      BY <2>1 DEF KeptL1, Orphaned
    <3>4. \A g \in l1_headers :
            [g EXCEPT !.live = @ /\ g.number < b].number = g.number
      BY <1>a DEF Header
    <3> QED
      BY <3>1, <3>2, <3>3, <3>4
  <2>6. [number |-> n, live |-> TRUE] \in l1_headers'
    BY <2>1 DEF KeptL1
  <2>7. ASSUME NEW k \in Int, k # n, Keeps(l1_headers, k), k >= n - L1Lag
        PROVE  Keeps(l1_headers', k)
    <3>1. PICK g \in l1_headers : g.number = k
      BY <2>7 DEF Keeps
    <3> DEFINE h == [g EXCEPT !.live = @ /\ g.number < b]
    <3>2. h \in Orphaned(b) /\ h.number = k
      BY <1>a, <3>1 DEF Orphaned, Header
    <3>3. h \in l1_headers'
      <4> HIDE DEF h
      <4> QED
        BY <2>1, <2>7, <3>2 DEF KeptL1
    <3> QED
      BY <3>2, <3>3 DEF Keeps
  <2>8. Keeps(l1_headers', n) /\ Keeps(l1_headers', l1_head')
    BY <2>1, <2>6 DEF Keeps
  <2>9. ASSUME NEW k \in t - L1Lag .. n PROVE Keeps(l1_headers', k)
    <3>1. CASE k = n
      BY <2>1, <2>8, <3>1 DEF Keeps
    <3>2. CASE k # n
      <4>1. k \in l1_top - L1Lag .. l1_head /\ k \in Int /\ k >= n - L1Lag
        BY <2>n, <2>2, <2>d, <3>2
      <4> QED
        BY <2>c, <2>7, <3>2, <4>1
    <3> QED
      BY <3>1, <3>2
  <2>10. PICK s \in Nat : s = SafeNumber' /\ s + L1Lag <= t
    <3>1. PICK s \in Nat : s = SafeNumber' /\ \A h \in l1_headers' : s <= h.number
      BY <1>a, SafePrimed
    <3>2. \A k : Keeps(l1_headers', k) => s <= k
      BY <3>1 DEF Keeps
    <3>3. s <= n
      BY <2>8, <3>2
    <3>4. CASE t - L1Lag <= n
      <4>1. t - L1Lag \in t - L1Lag .. n
        BY <2>n, <3>4
      <4>2. s <= t - L1Lag
        BY <2>9, <3>2, <4>1
      <4>3. s + L1Lag <= t
        BY <2>n, <4>2
      <4> QED
        BY <3>1, <4>3
    <3>5. CASE ~(t - L1Lag <= n)
      <4>1. s + L1Lag <= t
        BY <2>n, <2>2, <3>3, <3>5
      <4> QED
        BY <3>1, <4>1
    <3> QED
      BY <3>4, <3>5
  <2>11. anchored' + L1Lag <= l1_top'
    <3>1. anchored' = anchored \/ anchored' = s
      BY <2>1, <2>10 DEF Newer
    <3>2. anchored + L1Lag <= t
      BY <2>n, <2>3, <2>d
    <3>3. s + L1Lag <= t
      BY <2>10
    <3> QED
      BY <2>4, <3>1, <3>2, <3>3
  <2>12. ~reverted'
    <3>1. ~(~Deep(b) /\ b <= anchored)
      BY <2>n, <2>2, <2>3 DEF Deep
    <3> QED
      BY <2>1, <2>3, <3>1
  <2> QED
    BY <2>1, <2>4, <2>d, <2>5, <2>8, <2>9, <2>11, <2>12
<1>2. CASE Restart
  <2>1. /\ l1_headers' = HeadersUpTo(l1_head) /\ l1_top' = l1_head
        /\ l1_head' = l1_head /\ anchored' = l1_head - L1Lag /\ ~reverted'
    BY <1>2 DEF Restart
  <2>2. \A k \in l1_head - L1Lag .. l1_head : Keeps(l1_headers', k)
    BY <1>a, <2>1, KeepsUpTo DEF Keeps
  <2>3. Keeps(l1_headers', l1_head')
    BY <1>a, <2>1, <2>2 DEF Keeps
  <2>4. \A h \in l1_headers' : h.live
    BY <2>1 DEF HeadersUpTo
  <2> QED
    BY <1>a, <2>1, <2>2, <2>3, <2>4 DEF FinalInv, Keeps
<1>3. CASE UNCHANGED <<l1_headers, l1Vars>>
  BY <1>3 DEF FinalInv, Keeps, l1Vars
<1> QED
  BY <1>1, <1>2, <1>3
     DEF Next, RecvL2, NewOriginL2Block, ParentPanics, SealBlock, OtherBlock,
         Confirm, OriginStart, PollOrigin, vars, ctxVars

(* "keep a buffer to account for L1 reorgs" (context.rs:38): for every     *)
(* l1_safe_lag and every sequence of L1 blocks without a missed header,    *)
(* reorgs of any depth and restarts included, the safe header is on the    *)
(* L1, and none that was the safe one leaves it, unless by a reorg of more *)
(* than l1_safe_lag blocks.                                                *)
THEOREM SafeHeaderStays == Spec => []SafeHeaderFinal
<1>1. TypeInv /\ FinalInv => SafeHeaderFinal
  <2> SUFFICES ASSUME TypeInv, FinalInv, ~l1_gap
               PROVE  SafeL1.live /\ ~reverted
    BY DEF SafeHeaderFinal
  <2>1. SafeL1 \in l1_headers /\ \A h \in l1_headers : SafeL1.number <= h.number
    BY SafeIsFirst DEF TypeInv, TypeOK
  <2>2. SafeL1.number <= l1_head
    BY <2>1 DEF FinalInv, Keeps
  <2> QED
    BY <2>1, <2>2 DEF FinalInv
<1> QED
  BY <1>1, ContextInit, ContextTypeStep, FinalInit, FinalStep, PTL DEF Spec

-----------------------------------------------------------------------------
(* Which block is which.  A number and a fork name one block among all     *)
(* that the node, the channels and the context hold, because the node      *)
(* begins a fork whenever it replaces a block.                             *)
BlocksIn(s) == {s[i] : i \in 1 .. Len(s)}

Met ==
  BlocksIn(l2_headers) \cup to_verify \cup BlocksIn(l2_blocks_rx)
    \cup BlocksIn(origin_blocks_rx) \cup BlocksIn(chain)

Distinct ==
  \A b, c \in Met : b.number = c.number /\ b.fork = c.fork => b = c

Born ==
  \A b \in Met : b.fork <= fork /\ (b.fork = fork => b.number <= Len(chain))

BlockInv == Distinct /\ Born

LEMMA BlocksInType ==
  ASSUME NEW s \in Seq(Block) PROVE BlocksIn(s) \subseteq Block
BY ElementOfSeq DEF BlocksIn

LEMMA BlocksInEmpty == BlocksIn(<<>>) = {}
<1>1. 1 .. Len(<<>>) = {}
  BY EmptySeq
<1> QED
  BY <1>1 DEF BlocksIn

LEMMA BlocksInAppend ==
  ASSUME NEW s \in Seq(Block), NEW b \in Block
  PROVE  BlocksIn(Append(s, b)) = BlocksIn(s) \cup {b}
<1> DEFINE t == Append(s, b)
<1>1. /\ Len(s) \in Nat /\ Len(t) = Len(s) + 1 /\ t[Len(s) + 1] = b
      /\ \A i \in 1 .. Len(s) : t[i] = s[i]
  BY AppendProperties, LenProperties
<1> HIDE DEF t
<1>2. ASSUME NEW c \in BlocksIn(t) PROVE c \in BlocksIn(s) \cup {b}
  <2>1. PICK i \in 1 .. Len(t) : c = t[i]
    BY DEF BlocksIn
  <2>2. i = Len(s) + 1 \/ i \in 1 .. Len(s)
    BY <1>1
  <2> QED
    BY <1>1, <2>1, <2>2 DEF BlocksIn
<1>3. ASSUME NEW c \in BlocksIn(s) \cup {b} PROVE c \in BlocksIn(t)
  <2>1. CASE c = b
    <3>1. Len(s) + 1 \in 1 .. Len(t)
      BY <1>1
    <3> QED
      BY <1>1, <2>1, <3>1 DEF BlocksIn
  <2>2. ASSUME NEW i \in 1 .. Len(s), c = s[i] PROVE c \in BlocksIn(t)
    <3>1. i \in 1 .. Len(t)
      BY <1>1
    <3> QED
      BY <1>1, <2>2, <3>1 DEF BlocksIn
  <2> QED
    BY <2>1, <2>2 DEF BlocksIn
<1>4. BlocksIn(t) = BlocksIn(s) \cup {b}
  BY <1>2, <1>3
<1> QED
  BY <1>4 DEF t

LEMMA BlocksInPart ==
  ASSUME NEW s \in Seq(Block), NEW m \in Int, NEW n \in Int,
         m >= 1, n <= Len(s)
  PROVE  BlocksIn(SubSeq(s, m, n)) = {s[i] : i \in m .. n}
<1> DEFINE t == SubSeq(s, m, n)
<1>1. /\ Len(t) = IF m <= n THEN n - m + 1 ELSE 0
      /\ \A i \in 1 .. n - m + 1 : t[i] = s[m + i - 1]
  BY PartOfSeq
<1> HIDE DEF t
<1>2. ASSUME NEW i \in 1 .. Len(t) PROVE t[i] \in {s[j] : j \in m .. n}
  <2>1. i \in 1 .. n - m + 1 /\ m + i - 1 \in m .. n
    BY <1>1
  <2> QED
    BY <1>1, <2>1
<1>3. ASSUME NEW j \in m .. n PROVE s[j] \in BlocksIn(t)
  <2>1. /\ j - m + 1 \in 1 .. n - m + 1 /\ m + (j - m + 1) - 1 = j
        /\ j - m + 1 \in 1 .. Len(t)
    BY <1>1
  <2>2. t[j - m + 1] = s[j]
    BY <1>1, <2>1
  <2> QED
    BY <2>1, <2>2 DEF BlocksIn
<1>4. BlocksIn(t) = {s[i] : i \in m .. n}
  BY <1>2, <1>3 DEF BlocksIn
<1> QED
  BY <1>4 DEF t

LEMMA BlocksInPartOf ==
  ASSUME NEW s \in Seq(Block), NEW m \in Int, NEW n \in Int,
         m >= 1, n <= Len(s)
  PROVE  BlocksIn(SubSeq(s, m, n)) \subseteq BlocksIn(s)
<1>1. Len(s) \in Nat
  BY LenProperties
<1>2. \A i \in m .. n : i \in 1 .. Len(s)
  BY <1>1
<1>3. {s[i] : i \in m .. n} \subseteq BlocksIn(s)
  BY <1>2 DEF BlocksIn
<1> QED
  BY <1>3, BlocksInPart

LEMMA BlocksInConcat ==
  ASSUME NEW s \in Seq(Block), NEW t \in Seq(Block)
  PROVE  BlocksIn(s \o t) \subseteq BlocksIn(s) \cup BlocksIn(t)
<1>1. /\ Len(s) \in Nat /\ Len(t) \in Nat /\ Len(s \o t) = Len(s) + Len(t)
      /\ \A i \in 1 .. Len(s) + Len(t) :
           (s \o t)[i] = IF i <= Len(s) THEN s[i] ELSE t[i - Len(s)]
  BY ConcatProperties, LenProperties
<1>2. ASSUME NEW i \in 1 .. Len(s) + Len(t)
      PROVE  (s \o t)[i] \in BlocksIn(s) \cup BlocksIn(t)
  <2>1. CASE i <= Len(s)
    <3>1. i \in 1 .. Len(s) /\ (s \o t)[i] = s[i]
      BY <1>1, <2>1
    <3> QED
      BY <3>1 DEF BlocksIn
  <2>2. CASE ~(i <= Len(s))
    <3>1. i - Len(s) \in 1 .. Len(t) /\ (s \o t)[i] = t[i - Len(s)]
      BY <1>1, <2>2
    <3> QED
      BY <3>1 DEF BlocksIn
  <2> QED
    BY <2>1, <2>2
<1> QED
  BY <1>1, <1>2 DEF BlocksIn

LEMMA BlocksInQueue ==
  ASSUME NEW s \in Seq(Block), s # <<>>
  PROVE  /\ Head(s) \in BlocksIn(s) /\ Head(s) \in Block
         /\ Tail(s) \in Seq(Block) /\ BlocksIn(Tail(s)) \subseteq BlocksIn(s)
<1>1. /\ Head(s) = s[1] /\ Tail(s) \in Seq(Block) /\ Head(s) \in Block
      /\ Len(Tail(s)) = Len(s) - 1
      /\ \A i \in 1 .. Len(Tail(s)) : Tail(s)[i] = s[i + 1]
  BY HeadTailProperties
<1>2. Len(s) \in Nat /\ Len(s) # 0
  BY EmptySeq, LenProperties
<1>3. 1 \in 1 .. Len(s) /\ \A i \in 1 .. Len(Tail(s)) : i + 1 \in 1 .. Len(s)
  BY <1>1, <1>2
<1> QED
  BY <1>1, <1>3 DEF BlocksIn

-----------------------------------------------------------------------------
(* What the handlers do to the set of kept headers.                        *)
Kept == BlocksIn(l2_headers)

LEMMA KeptType ==
  ASSUME TypeOK
  PROVE  /\ Kept \subseteq Block /\ to_verify \subseteq Block
         /\ Len(l2_headers) \in Nat /\ l2_headers \in Seq(Block)
         /\ DOMAIN l2_headers = 1 .. Len(l2_headers)
BY BlocksInType, LenProperties DEF TypeOK, Kept

LEMMA KeptSorted ==
  ASSUME TypeOK, HeadersSorted,
         NEW i \in 1 .. Len(l2_headers), NEW j \in 1 .. Len(l2_headers)
  PROVE  /\ l2_headers[i].number \in Nat /\ l2_headers[j].number \in Nat
         /\ i < j => l2_headers[i].number < l2_headers[j].number
         /\ i = j \/ i < j \/ j < i
<1>1. l2_headers[i] \in Block /\ l2_headers[j] \in Block
  BY KeptType, ElementOfSeq
<1>2. i < j => l2_headers[i].number < l2_headers[j].number
  BY KeptType DEF HeadersSorted
<1>3. i \in Nat /\ j \in Nat
  BY KeptType
<1> QED
  BY <1>1, <1>2, <1>3 DEF Block

(* The parent is the highest header.                                       *)
LEMMA ParentHighest ==
  ASSUME TypeOK, HeadersSorted, l2_headers # <<>>
  PROVE  /\ Parent \in Kept /\ Parent.number \in Nat
         /\ \A c \in Kept : c.number <= Parent.number
<1>1. Len(l2_headers) \in 1 .. Len(l2_headers)
  BY KeptType, EmptySeq
<1>2. Parent \in Kept
  BY <1>1 DEF Kept, BlocksIn, Parent
<1>3. ASSUME NEW i \in 1 .. Len(l2_headers)
      PROVE  l2_headers[i].number <= Parent.number
  <2>1. /\ l2_headers[i].number \in Nat /\ Parent.number \in Nat
        /\ i < Len(l2_headers) => l2_headers[i].number < Parent.number
        /\ i = Len(l2_headers) \/ i < Len(l2_headers) \/ Len(l2_headers) < i
    BY <1>1, KeptSorted DEF Parent
  <2>2. ~(Len(l2_headers) < i)
    BY KeptType
  <2> QED
    BY <2>1, <2>2 DEF Parent
<1> QED
  BY <1>1, <1>2, <1>3, KeptSorted DEF Kept, BlocksIn, Parent

LEMMA KnownIn ==
  ASSUME TypeOK, NEW n
  PROVE  (Known(n) = {}) <=> (\A c \in Kept : c.number # n)
<1>1. Known(n) = {i \in 1 .. Len(l2_headers) : l2_headers[i].number = n}
  BY KeptType DEF Known
<1> QED
  BY <1>1 DEF Kept, BlocksIn

(* The block is appended above all headers, or is left out, not ours; or   *)
(* it takes the place of one of its number, and those above it go; or it   *)
(* is a malformed one, which drops them; or the headers stay.              *)
LEMMA NewPreconfSets ==
  ASSUME TypeOK, HeadersSorted, NEW b \in Block, NewPreconfL2Block(b)
  PROVE  \/ /\ \A c \in Kept : c.number < b.number
            /\ Kept' = Kept \cup {b}
            /\ to_verify' = Remembered(b) /\ pruned_own' = pruned_own
            /\ malformed' = malformed
         \/ /\ Kept' = Kept /\ to_verify' = to_verify
            /\ pruned_own' = pruned_own /\ malformed' = malformed
         \/ /\ Kept' = {c \in Kept : c.number < b.number} \cup {b}
            /\ to_verify' = Unverified(b)
            /\ pruned_own' = IF b.own THEN pruned_own \cup {b} ELSE pruned_own
            /\ malformed => malformed'
         \/ /\ Kept' = {c \in Kept : c.number < b.number} /\ ~b.own
            /\ to_verify' = Unverified(b) /\ pruned_own' = pruned_own
            /\ malformed'
         \/ /\ \E c \in Kept : b.number <= c.number
            /\ \A c \in Kept : c.number = b.number => c.fork = b.fork
            /\ Kept' = Kept
            /\ to_verify' = Remembered(b) /\ pruned_own' = pruned_own
            /\ malformed' = malformed
<1>1. CASE /\ Extends(b)
           /\ l2_headers' = Append(l2_headers, b)
           /\ to_verify' = Remembered(b)
           /\ UNCHANGED <<pruned_own, malformed>>
  <2>1. ASSUME NEW c \in Kept PROVE c.number < b.number
    <3>1. l2_headers # <<>>
      BY BlocksInEmpty DEF Kept
    <3>2. Parent.number < b.number
      <4>1. Parent.number \in Nat /\ b.number \in Nat
        BY <3>1, ParentHighest DEF Block
      <4> QED
        BY <1>1, <3>1, <4>1 DEF Extends, Follows
    <3>3. c.number \in Nat /\ Parent.number \in Nat /\ b.number \in Nat
          /\ c.number <= Parent.number
      BY <3>1, ParentHighest, KeptType DEF Block
    <3> QED
      BY <3>2, <3>3
  <2>2. Kept' = Kept \cup {b}
    BY <1>1, KeptType, BlocksInAppend DEF Kept
  <2> QED
    BY <1>1, <2>1, <2>2
<1>4. CASE /\ ~b.own /\ l2_headers' = l2_headers
           /\ to_verify' = Remembered(b)
           /\ UNCHANGED <<pruned_own, malformed>>
  BY <1>4 DEF Kept, Remembered
<1>2. ASSUME NEW i \in DOMAIN l2_headers, Replaces(b, i),
             UpdateParent(SubSeq(l2_headers, 1, i - 1), b),
             malformed' = (malformed \/ Len(l2_headers') < i)
      PROVE  \/ /\ Kept' = {c \in Kept : c.number < b.number} \cup {b}
                /\ malformed => malformed'
             \/ /\ Kept' = {c \in Kept : c.number < b.number} /\ ~b.own
                /\ malformed'
  <2>1. i \in 1 .. Len(l2_headers) /\ l2_headers[i].number = b.number
    BY <1>2, KeptType DEF Replaces, Known
  <2>2. 1 \in Int /\ i - 1 \in Int /\ i - 1 <= Len(l2_headers) /\ 1 >= 1
    BY <2>1, KeptType
  <2>3. /\ SubSeq(l2_headers, 1, i - 1) \in Seq(Block)
        /\ BlocksIn(SubSeq(l2_headers, 1, i - 1)) =
             {l2_headers[j] : j \in 1 .. i - 1}
    BY <2>2, KeptType, PartOfSeq, BlocksInPart
  <2>4. \/ Kept' = {l2_headers[j] : j \in 1 .. i - 1} \cup {b}
        \/ /\ Kept' = {l2_headers[j] : j \in 1 .. i - 1} /\ ~b.own
           /\ malformed'
    <3>1. CASE l2_headers' = Append(SubSeq(l2_headers, 1, i - 1), b)
      BY <2>3, <3>1, BlocksInAppend DEF Kept
    <3>2. CASE ~b.own /\ l2_headers' = SubSeq(l2_headers, 1, i - 1)
      <4>1. Len(SubSeq(l2_headers, 1, i - 1)) =
              IF 1 <= i - 1 THEN i - 1 - 1 + 1 ELSE 0
        BY <2>2, KeptType, PartOfSeq
      <4>2. Len(l2_headers') < i
        BY <2>1, <3>2, <4>1, KeptType
      <4> QED
        BY <1>2, <2>3, <3>2, <4>2 DEF Kept
    <3> QED
      BY <1>2, <3>1, <3>2 DEF UpdateParent
  <2>5. ASSUME NEW j \in 1 .. Len(l2_headers)
        PROVE  j \in 1 .. i - 1 <=> l2_headers[j].number < b.number
    <3>1. /\ l2_headers[i].number \in Nat /\ l2_headers[j].number \in Nat
          /\ i < j => l2_headers[i].number < l2_headers[j].number
          /\ j < i => l2_headers[j].number < l2_headers[i].number
          /\ i = j \/ i < j \/ j < i
      BY <2>1, KeptSorted
    <3>2. j \in 1 .. i - 1 <=> j < i
      BY <2>1, KeptType
    <3> QED
      BY <2>1, <3>1, <3>2
  <2>6. \A j \in 1 .. i - 1 : j \in 1 .. Len(l2_headers)
    BY <2>1, KeptType
  <2>7. {l2_headers[j] : j \in 1 .. i - 1} = {c \in Kept : c.number < b.number}
    BY <2>5, <2>6 DEF Kept, BlocksIn
  <2> QED
    BY <1>2, <2>4, <2>7
<1>3. CASE /\ Seen(b)
           /\ to_verify' = Remembered(b)
           /\ UNCHANGED <<l2_headers, pruned_own, malformed>>
  <2>1. l2_headers # <<>>
    BY <1>3 DEF Seen, Extends
  <2>2. /\ Parent \in Kept /\ Parent.number \in Nat /\ b.number \in Nat
        /\ \A c \in Kept : c.number <= Parent.number
    BY <2>1, ParentHighest DEF Block
  <2>3. \E c \in Kept : b.number <= c.number
    <3>1. CASE Known(b.number) = {}
      <4>1. ~(Parent.number < b.number)
        BY <1>3, <3>1 DEF Seen, Extends
      <4> QED
        BY <2>2, <4>1
    <3>2. CASE Known(b.number) # {}
      <4>1. PICK c \in Kept : c.number = b.number
        BY <3>2, KnownIn
      <4> QED
        BY <2>2, <4>1
    <3> QED
      BY <3>1, <3>2
  <2>4. \A c \in Kept : c.number = b.number => c.fork = b.fork
    <3>1. \A i \in 1 .. Len(l2_headers) :
            l2_headers[i].number = b.number => l2_headers[i].fork = b.fork
      BY <1>3, KeptType DEF Seen, Replaces, Known
    <3> QED
      BY <3>1 DEF Kept, BlocksIn
  <2> QED
    BY <1>3, <2>3, <2>4 DEF Kept
<1>5. ASSUME NEW i \in DOMAIN l2_headers, Replaces(b, i),
             UpdateParent(SubSeq(l2_headers, 1, i - 1), b),
             malformed' = (malformed \/ Len(l2_headers') < i),
             to_verify' = Unverified(b),
             pruned_own' = IF b.own THEN pruned_own \cup {b} ELSE pruned_own
      PROVE  \/ /\ Kept' = {c \in Kept : c.number < b.number} \cup {b}
                /\ to_verify' = Unverified(b)
                /\ pruned_own' = IF b.own THEN pruned_own \cup {b}
                                 ELSE pruned_own
                /\ malformed => malformed'
             \/ /\ Kept' = {c \in Kept : c.number < b.number} /\ ~b.own
                /\ to_verify' = Unverified(b) /\ pruned_own' = pruned_own
                /\ malformed'
  BY <1>2, <1>5
<1> QED
  BY <1>1, <1>3, <1>4, <1>5 DEF NewPreconfL2Block, UpdateParent

(* An origin header pops the headers below it.                             *)
LEMMA PoppedSets ==
  ASSUME TypeOK, HeadersSorted, NEW n \in Nat,
         NEW i \in 0 .. Len(l2_headers), Popped(n, i),
         l2_headers' = SubSeq(l2_headers, i + 1, Len(l2_headers))
  PROVE  Kept' = {c \in Kept : n <= c.number}
<1>1. /\ i + 1 \in Int /\ i + 1 >= 1 /\ Len(l2_headers) \in Int
      /\ Len(l2_headers) <= Len(l2_headers) /\ i \in Nat
  BY KeptType
<1>2. Kept' = {l2_headers[j] : j \in i + 1 .. Len(l2_headers)}
  BY <1>1, KeptType, BlocksInPart DEF Kept
<1>3. ASSUME NEW j \in 1 .. Len(l2_headers)
      PROVE  j \in i + 1 .. Len(l2_headers) <=> n <= l2_headers[j].number
  <2>1. j \in Nat /\ l2_headers[j].number \in Nat
    BY KeptType, KeptSorted
  <2>2. CASE j <= i
    <3>1. j \in 1 .. i
      BY <1>1, <2>1, <2>2
    <3>2. l2_headers[j].number < n
      BY <3>1 DEF Popped
    <3> QED
      BY <1>1, <2>1, <2>2, <3>2
  <2>3. CASE i < j
    <3>1. i + 1 \in 1 .. Len(l2_headers) /\ i < Len(l2_headers)
      BY <1>1, <2>1, <2>3, KeptType
    <3>2. n <= l2_headers[i + 1].number
      BY <3>1 DEF Popped
    <3>3. /\ l2_headers[i + 1].number \in Nat
          /\ i + 1 < j => l2_headers[i + 1].number < l2_headers[j].number
      BY <3>1, KeptSorted
    <3>4. i + 1 = j \/ i + 1 < j
      BY <1>1, <2>1, <2>3
    <3>5. n <= l2_headers[j].number
      BY <2>1, <3>2, <3>3, <3>4
    <3> QED
      BY <1>1, <2>1, <2>3, <3>5, KeptType
  <2> QED
    BY <1>1, <2>1, <2>2, <2>3
<1>4. \A j \in i + 1 .. Len(l2_headers) : j \in 1 .. Len(l2_headers)
  BY <1>1, KeptType
<1>5. {l2_headers[j] : j \in i + 1 .. Len(l2_headers)} =
        {c \in Kept : n <= c.number}
  BY <1>3, <1>4 DEF Kept, BlocksIn
<1> QED
  BY <1>2, <1>5

-----------------------------------------------------------------------------
(* The node's chain is numbered, and its blocks keep their names apart.    *)
ChainNumbered == \A n \in 1 .. Len(chain) : chain[n].number = n

LEMMA MetType == ASSUME TypeOK PROVE Met \subseteq Block
BY BlocksInType DEF TypeOK, Met

LEMMA SameBlocks ==
  ASSUME BlockInv, Met' \subseteq Met, fork' = fork, Len(chain') = Len(chain)
  PROVE  BlockInv'
BY DEF BlockInv, Distinct, Born

(* The node adopts a block as the new head of its chain.                   *)
LEMMA AdoptsChain ==
  ASSUME TypeInv, ChainNumbered, NEW b \in Block, NodeAdopts(b),
         head_origin < b.number, b.number <= Len(chain) + 1
  PROVE  /\ ChainNumbered' /\ Len(chain') = b.number
         /\ BlocksIn(chain') \subseteq BlocksIn(chain) \cup {b}
         /\ BlocksIn(l2_blocks_rx') \subseteq BlocksIn(l2_blocks_rx) \cup {b}
<1>1. /\ chain \in Seq(Block) /\ Len(chain) \in Nat
      /\ b.number \in Nat /\ head_origin \in Nat
      /\ l2_blocks_rx \in Seq(Block)
  BY LenProperties DEF TypeInv, TypeOK, Block
<1> DEFINE s == SubSeq(chain, 1, b.number - 1)
<1>2. /\ 1 \in Int /\ 1 >= 1 /\ b.number - 1 \in Int
      /\ b.number - 1 <= Len(chain)
  BY <1>1
<1>3. /\ s \in Seq(Block) /\ Len(s) = b.number - 1
      /\ \A i \in 1 .. b.number - 1 : s[i] = chain[i]
  <2>1. /\ s \in Seq(Block)
        /\ Len(s) = IF 1 <= b.number - 1 THEN b.number - 1 - 1 + 1 ELSE 0
        /\ \A i \in 1 .. b.number - 1 - 1 + 1 : s[i] = chain[1 + i - 1]
    BY <1>1, <1>2, PartOfSeq
  <2> HIDE DEF s
  <2> QED
    BY <1>1, <2>1
<1>4. BlocksIn(s) \subseteq BlocksIn(chain)
  BY <1>1, <1>2, BlocksInPartOf
<1>5. chain' = Append(s, b)
  BY DEF NodeAdopts
<1> HIDE DEF s
<1>6. /\ Len(chain') = b.number /\ chain'[b.number] = b
      /\ \A i \in 1 .. b.number - 1 : chain'[i] = chain[i]
  BY <1>1, <1>3, <1>5, AppendProperties
<1>7. ChainNumbered'
  <2> SUFFICES ASSUME NEW i \in 1 .. b.number PROVE chain'[i].number = i
    BY <1>6 DEF ChainNumbered
  <2>1. CASE i = b.number
    BY <1>6, <2>1
  <2>2. CASE i # b.number
    <3>1. i \in 1 .. b.number - 1 /\ i \in 1 .. Len(chain)
      BY <1>1, <2>2
    <3> QED
      BY <1>6, <3>1 DEF ChainNumbered
  <2> QED
    BY <2>1, <2>2
<1>8. BlocksIn(chain') \subseteq BlocksIn(chain) \cup {b}
  BY <1>3, <1>4, <1>5, BlocksInAppend
<1>9. BlocksIn(l2_blocks_rx') \subseteq BlocksIn(l2_blocks_rx) \cup {b}
  <2>1. BlocksIn(Append(l2_blocks_rx, b)) = BlocksIn(l2_blocks_rx) \cup {b}
    BY <1>1, BlocksInAppend
  <2>2. CASE l2_blocks_rx' = Append(l2_blocks_rx, b)
    BY <2>1, <2>2
  <2>3. CASE UNCHANGED l2_blocks_rx
    BY <2>3
  <2> QED
    BY <2>2, <2>3 DEF NodeAdopts
<1> QED
  BY <1>6, <1>7, <1>8, <1>9

(* A new block is born on a new fork, or above the whole chain.            *)
LEMMA AdoptsBlocks ==
  ASSUME TypeInv, BlockInv, NEW b \in Block, NodeAdopts(b),
         b.number <= Len(chain) + 1, Len(chain') = b.number,
         b.fork = IF b.number <= Len(chain) THEN fork + 1 ELSE fork,
         Met' \subseteq Met \cup {b}
  PROVE  BlockInv'
<1>1. /\ Met \subseteq Block /\ fork \in Nat /\ Len(chain) \in Nat
      /\ b.number \in Nat /\ fork' = b.fork
  BY MetType, LenProperties DEF TypeInv, TypeOK, Block, NodeAdopts
<1>2. ASSUME NEW c \in Met
      PROVE  ~(c.number = b.number /\ c.fork = b.fork)
  <2>1. /\ c.number \in Nat /\ c.fork \in Nat /\ c.fork <= fork
        /\ c.fork = fork => c.number <= Len(chain)
    BY <1>1 DEF BlockInv, Born, Block
  <2> QED
    BY <1>1, <2>1
<1>3. Distinct'
  <2> SUFFICES ASSUME NEW c \in Met', NEW d \in Met',
                      c.number = d.number, c.fork = d.fork
               PROVE  c = d
    BY DEF Distinct
  <2> QED
    BY <1>2 DEF BlockInv, Distinct
<1>4. Born'
  <2> SUFFICES ASSUME NEW c \in Met'
               PROVE  /\ c.fork <= fork'
                      /\ c.fork = fork' => c.number <= Len(chain')
    BY DEF Born
  <2>1. CASE c = b
    BY <1>1, <2>1
  <2>2. CASE c \in Met
    <3>1. /\ c.number \in Nat /\ c.fork \in Nat /\ c.fork <= fork
          /\ c.fork = fork => c.number <= Len(chain)
      BY <1>1, <2>2 DEF BlockInv, Born, Block
    <3> QED
      BY <1>1, <3>1
  <2> QED
    BY <2>1, <2>2
<1> QED
  BY <1>3, <1>4 DEF BlockInv

(* The context keeps nothing that it was not given.                        *)
LEMMA RememberedIn ==
  ASSUME NEW b
  PROVE  /\ Remembered(b) \subseteq to_verify \cup {b}
         /\ Unverified(b) \subseteq to_verify \cup {b}
BY DEF Unverified, Remembered

LEMMA NewPreconfMet ==
  ASSUME TypeOK, HeadersSorted, NEW b \in Block, NewPreconfL2Block(b)
  PROVE  /\ BlocksIn(l2_headers') \subseteq BlocksIn(l2_headers) \cup {b}
         /\ to_verify' \subseteq to_verify \cup {b}
<1>1. Kept' \subseteq Kept \cup {b} /\ to_verify' \subseteq to_verify \cup {b}
  BY NewPreconfSets, RememberedIn
<1> QED
  BY <1>1 DEF Kept

(* Our block stands on a header of ours that the node's chain has.         *)
LEMMA SealedBlock ==
  ASSUME TypeInv, SealBlock
  PROVE  \E b \in Block :
           /\ head_origin < b.number /\ b.number <= Len(chain) + 1
           /\ b.fork = IF b.number <= Len(chain) THEN fork + 1 ELSE fork
           /\ NodeAdopts(b) /\ NewPreconfL2Block(b)
<1>1. PICK i \in DOMAIN l2_headers :
        LET p == l2_headers[i]
            n == p.number + 1
            b == [number |-> n, parent |-> p.fork, own |-> TRUE,
                  fork |-> IF n <= Len(chain) THEN fork + 1 ELSE fork]
        IN  /\ head_origin < n /\ n <= MaxBlock /\ b.fork <= MaxFork
            /\ p.number <= Len(chain) /\ chain[p.number] = p
            /\ NodeAdopts(b)
            /\ NewPreconfL2Block(b)
  BY DEF SealBlock
<1> DEFINE p == l2_headers[i]
           b == [number |-> p.number + 1, parent |-> p.fork, own |-> TRUE,
                 fork |-> IF p.number + 1 <= Len(chain) THEN fork + 1
                                                        ELSE fork]
<1>2. p \in Block /\ fork \in Nat /\ Len(chain) \in Nat
  BY ElementOfSeq, LenProperties DEF TypeInv, TypeOK
<1>3. b \in Block /\ b.number = p.number + 1
      /\ b.fork = IF p.number + 1 <= Len(chain) THEN fork + 1 ELSE fork
  BY <1>2 DEF Block
<1>4. NodeAdopts(b) /\ NewPreconfL2Block(b)
      /\ head_origin < p.number + 1 /\ p.number <= Len(chain)
  BY <1>1
<1> HIDE DEF b
<1>5. p.number + 1 <= Len(chain) + 1
  BY <1>2, <1>4 DEF Block
<1> QED
  BY <1>3, <1>4, <1>5

LEMMA ForeignBlock ==
  ASSUME TypeInv, OtherBlock
  PROVE  \E b \in Block :
           /\ head_origin < b.number /\ b.number <= Len(chain) + 1
           /\ b.fork = IF b.number <= Len(chain) THEN fork + 1 ELSE fork
           /\ NodeAdopts(b)
<1>1. PICK n \in head_origin + 1 .. MaxBlock, own \in BOOLEAN :
        LET b == [number |-> n, parent |-> ForkAt(n - 1), own |-> own,
                  fork |-> IF n <= Len(chain) THEN fork + 1 ELSE fork]
        IN  n <= Len(chain) + 1 /\ NodeAdopts(b)
  BY DEF OtherBlock
<1> DEFINE b == [number |-> n, parent |-> ForkAt(n - 1), own |-> own,
                 fork |-> IF n <= Len(chain) THEN fork + 1 ELSE fork]
<1>2. /\ fork \in Nat /\ Len(chain) \in Nat /\ head_origin \in Nat
      /\ MaxBlock \in Nat /\ chain \in Seq(Block)
  BY ContextBounds, LenProperties DEF TypeInv, TypeOK
<1>3. n \in Nat \ {0} /\ head_origin < n /\ n <= Len(chain) + 1
  BY <1>1, <1>2
<1>4. ForkAt(n - 1) \in Nat
  <2>1. CASE n = 1
    BY <2>1 DEF ForkAt
  <2>2. CASE n # 1
    <3>1. n - 1 \in 1 .. Len(chain)
      BY <1>2, <1>3, <2>2
    <3>2. chain[n - 1] \in Block
      BY <1>2, <3>1, ElementOfSeq
    <3> QED
      BY <1>3, <2>2, <3>2 DEF ForkAt, Block
  <2> QED
    BY <2>1, <2>2
<1>5. b \in Block /\ b.number = n
      /\ b.fork = IF n <= Len(chain) THEN fork + 1 ELSE fork
  BY <1>2, <1>3, <1>4 DEF Block
<1>6. NodeAdopts(b)
  BY <1>1
<1> HIDE DEF b
<1> QED
  BY <1>3, <1>5, <1>6

-----------------------------------------------------------------------------
(* The inductive invariant of the verifications.  Unless a malformed block *)
(* truncated the headers, every block that waits for its origin header is  *)
(* covered by the kept ones; and the origin headers to come ascend from    *)
(* the last one.                                                           *)
Covered == \A v \in to_verify : \E c \in Kept : v.number <= c.number

KnownVerified == \A v \in to_verify, c \in Kept : c.number = v.number => c = v

OwnKept ==
  \A c \in Kept :
    c.own /\ c.number > confirmed => c \in to_verify \cup pruned_own

VerifyInv == (~malformed => Covered /\ KnownVerified) /\ OwnKept

OriginsAscend ==
  /\ confirmed <= l2_origin
  /\ \A i \in 1 .. Len(origin_blocks_rx) :
       /\ confirmed < origin_blocks_rx[i].number
       /\ origin_blocks_rx[i].number <= l2_origin
       /\ \A j \in 1 .. i - 1 :
            origin_blocks_rx[j].number < origin_blocks_rx[i].number

Inv ==
  /\ TypeInv /\ HeadersSorted /\ BlockInv /\ ChainNumbered
  /\ VerifyInv /\ OriginsAscend

(* new_preconf_l2_block, for a block whose name no other block has.        *)
LEMMA NewPreconfVerified ==
  ASSUME TypeOK, HeadersSorted, VerifyInv,
         NEW b \in Block, NewPreconfL2Block(b), confirmed' = confirmed,
         \A c \in Kept : c.number = b.number /\ c.fork = b.fork => c = b
  PROVE  VerifyInv'
<1> USE DEF VerifyInv, Covered, KnownVerified, OwnKept
<1>a. /\ Kept \subseteq Block /\ to_verify \subseteq Block
      /\ \A c \in Block : c.number \in Nat
  BY KeptType DEF Block
<1>1. CASE /\ \A c \in Kept : c.number < b.number
           /\ Kept' = Kept \cup {b}
           /\ to_verify' = Remembered(b) /\ pruned_own' = pruned_own
           /\ malformed' = malformed
  <2>7. OwnKept'
    <3>1. \A c \in Kept : c.number # b.number
      BY <1>1, <1>a
    <3> QED
      BY <1>1, <3>1 DEF Remembered
  <2> SUFFICES ASSUME ~malformed PROVE Covered' /\ KnownVerified'
    BY <1>1, <2>7
  <2>1. \A v \in to_verify : v.number < b.number
    <3> SUFFICES ASSUME NEW v \in to_verify PROVE v.number < b.number
      OBVIOUS
    <3>1. PICK c \in Kept : v.number <= c.number
      OBVIOUS
    <3>2. c.number < b.number /\ c.number \in Nat /\ b.number \in Nat
          /\ v.number \in Nat
      BY <1>1, <1>a
    <3> QED
      BY <3>1, <3>2
  <2>2. \A c \in Kept : c.number # b.number
    BY <1>1, <1>a
  <2>3. \A v \in to_verify : v.number # b.number
    BY <1>a, <2>1
  <2>4. to_verify' = IF b.own THEN to_verify \cup {b} ELSE to_verify
    BY <1>1, <2>3 DEF Remembered
  <2>5. Covered'
    <3> SUFFICES ASSUME NEW v \in to_verify'
                 PROVE  \E c \in Kept' : v.number <= c.number
      OBVIOUS
    <3>1. CASE v = b
      <4>1. b \in Kept' /\ v.number <= b.number
        BY <1>1, <1>a, <3>1
      <4> QED
        BY <4>1
    <3>2. CASE v \in to_verify
      BY <1>1, <3>2
    <3> QED
      BY <2>4, <3>1, <3>2
  <2>6. KnownVerified'
    BY <1>1, <2>2, <2>3, <2>4
  <2> QED
    BY <2>5, <2>6
<1>4. CASE /\ Kept' = Kept /\ to_verify' = to_verify
           /\ pruned_own' = pruned_own /\ malformed' = malformed
  BY <1>4
<1>5. CASE /\ Kept' = {c \in Kept : c.number < b.number} /\ ~b.own
           /\ to_verify' = Unverified(b) /\ pruned_own' = pruned_own
           /\ malformed'
  <2>1. \A c \in Kept : c.number < b.number => c.number # b.number
    BY <1>a
  <2> QED
    BY <1>5, <2>1 DEF Unverified, Remembered
<1>2. CASE /\ Kept' = {c \in Kept : c.number < b.number} \cup {b}
           /\ to_verify' = Unverified(b)
           /\ pruned_own' = IF b.own THEN pruned_own \cup {b} ELSE pruned_own
           /\ malformed => malformed'
  <2>1. to_verify' = {v \in to_verify : v.number < b.number}
    <3>1. ASSUME NEW v
          PROVE  v \in Unverified(b) <=> v \in to_verify /\ v.number < b.number
      <4>1. ~(b.number < b.number)
        BY <1>a
      <4>2. v.number < b.number => v # b
        BY <4>1
      <4>3. v \in to_verify => v.number \in Nat /\ b.number \in Nat
        BY <1>a
      <4>4. v \in to_verify /\ v.number < b.number => v.number # b.number
        BY <4>1
      <4> QED
        BY <4>2, <4>4 DEF Unverified, Remembered
    <3> QED
      BY <1>2, <3>1
  <2>2. Covered'
    <3> SUFFICES ASSUME NEW v \in to_verify'
                 PROVE  \E c \in Kept' : v.number <= c.number
      OBVIOUS
    <3>1. b \in Kept' /\ v.number <= b.number
      BY <1>2, <1>a, <2>1
    <3> QED
      BY <3>1
  <2>3. ~malformed => KnownVerified'
    <3> SUFFICES ASSUME ~malformed, NEW v \in to_verify',
                        NEW c \in Kept', c.number = v.number
                 PROVE  c = v
      OBVIOUS
    <3>1. v \in to_verify /\ v.number < b.number /\ v.number \in Nat
          /\ b.number \in Nat
      BY <1>a, <2>1
    <3>2. c # b
      BY <3>1
    <3> QED
      BY <1>2, <3>1, <3>2
  <2>4. OwnKept'
    BY <1>2, <2>1
  <2> QED
    BY <1>2, <2>2, <2>3, <2>4
<1>3. CASE /\ \E c \in Kept : b.number <= c.number
           /\ \A c \in Kept : c.number = b.number => c.fork = b.fork
           /\ Kept' = Kept
           /\ to_verify' = Remembered(b) /\ pruned_own' = pruned_own
           /\ malformed' = malformed
  <2>1. \A c \in Kept : c.number = b.number => c = b
    BY <1>3
  <2>4. OwnKept'
    BY <1>3, <2>1 DEF Remembered
  <2> SUFFICES ASSUME ~malformed PROVE Covered' /\ KnownVerified'
    BY <1>3, <2>4
  <2>2. Covered'
    BY <1>3, RememberedIn
  <2>3. KnownVerified'
    BY <1>3, <2>1, RememberedIn
  <2> QED
    BY <2>2, <2>3
<1> QED
  BY <1>1, <1>2, <1>3, <1>4, <1>5, NewPreconfSets

(* new_origin_l2_block for a header above all earlier ones.                *)
LEMMA OriginVerified ==
  ASSUME TypeOK, VerifyInv, NEW h \in Block, confirmed < h.number,
         Kept' = {c \in Kept : h.number <= c.number},
         to_verify' = StillToVerify(h),
         confirmed' = h.number, pruned_own' = pruned_own,
         malformed' = malformed
  PROVE  VerifyInv'
<1> USE DEF VerifyInv, Covered, KnownVerified, OwnKept
<1>a. /\ Kept \subseteq Block /\ to_verify \subseteq Block
      /\ \A c \in Block : c.number \in Nat
      /\ confirmed \in Nat
  BY KeptType DEF Block, TypeOK
<1>1. /\ to_verify' \subseteq to_verify
      /\ \A v \in to_verify : v.number > h.number => v \in to_verify'
      /\ \A v \in to_verify' : h \in to_verify \/ v.number > h.number
  <2>1. ~(h.number > h.number)
    BY <1>a
  <2>2. \A v : v.number > h.number => v # h
    BY <2>1
  <2> QED
    BY <2>2 DEF StillToVerify
<1>4. OwnKept'
  <2> SUFFICES ASSUME NEW c \in Kept', c.own, c.number > h.number
               PROVE  c \in to_verify' \cup pruned_own
    OBVIOUS
  <2>1. c \in Kept /\ c.number > confirmed
    BY <1>a
  <2> QED
    BY <1>1, <2>1
<1> SUFFICES ASSUME ~malformed PROVE Covered' /\ KnownVerified'
  BY <1>4
<1>2. Covered'
  <2> SUFFICES ASSUME NEW v \in to_verify'
               PROVE  \E c \in Kept' : v.number <= c.number
    OBVIOUS
  <2>1. PICK c \in Kept : v.number <= c.number
    BY <1>1
  <2>2. v.number \in Nat /\ c.number \in Nat /\ h.number \in Nat
    BY <1>1, <1>a
  <2>3. CASE v.number > h.number
    BY <2>1, <2>2, <2>3
  <2>4. CASE h \in to_verify /\ v.number <= h.number
    <3>1. PICK d \in Kept : h.number <= d.number
      BY <2>4
    <3>2. d \in Kept' /\ d.number \in Nat
      BY <1>a, <3>1
    <3> QED
      BY <2>2, <2>4, <3>1, <3>2
  <2> QED
    BY <1>1, <2>2, <2>3, <2>4
<1>3. KnownVerified'
  BY <1>1
<1> QED
  BY <1>2, <1>3

-----------------------------------------------------------------------------
(* The queue of origin headers ascends: the poll takes up where the last   *)
(* one left, even if that one failed half way.                             *)
LEMMA OriginsPolled ==
  ASSUME TypeInv, OriginsAscend, ChainNumbered, confirmed' = confirmed,
         l2_origin' = head_origin, NEW k \in l2_origin .. head_origin,
         origin_blocks_rx' =
           origin_blocks_rx \o SubSeq(chain, l2_origin + 1, k)
  PROVE  OriginsAscend'
<1> DEFINE s == origin_blocks_rx
           t == SubSeq(chain, l2_origin + 1, k)
           u == s \o t
<1>2. /\ l2_origin \in Nat /\ head_origin \in Nat /\ Len(chain) \in Nat
      /\ head_origin <= Len(chain) /\ chain \in Seq(Block)
      /\ s \in Seq(Block) /\ Len(s) \in Nat /\ confirmed \in Nat
      /\ k \in Nat /\ l2_origin <= k /\ k <= head_origin
  BY LenProperties DEF TypeInv, TypeOK, OriginOnChain
<1>4. /\ t \in Seq(Block) /\ Len(t) = k - l2_origin
      /\ \A i \in 1 .. k - l2_origin : t[i].number = l2_origin + i
  <2>1. /\ l2_origin + 1 \in Int /\ l2_origin + 1 >= 1
        /\ k \in Int /\ k <= Len(chain)
    BY <1>2
  <2>2. /\ t \in Seq(Block)
        /\ Len(t) = IF l2_origin + 1 <= k THEN k - (l2_origin + 1) + 1 ELSE 0
        /\ \A i \in 1 .. k - (l2_origin + 1) + 1 :
             t[i] = chain[l2_origin + 1 + i - 1]
    BY <1>2, <2>1, PartOfSeq
  <2> HIDE DEF t
  <2>3. Len(t) = k - l2_origin
    BY <1>2, <2>2
  <2>4. ASSUME NEW i \in 1 .. k - l2_origin
        PROVE  t[i].number = l2_origin + i
    <3>1. /\ i \in 1 .. k - (l2_origin + 1) + 1
          /\ l2_origin + 1 + i - 1 = l2_origin + i
          /\ l2_origin + i \in 1 .. Len(chain)
      BY <1>2, <2>4
    <3>2. t[i] = chain[l2_origin + i]
      BY <2>2, <3>1
    <3> QED
      BY <3>1, <3>2 DEF ChainNumbered
  <2> QED
    BY <2>2, <2>3, <2>4
<1> HIDE DEF t
<1>5. /\ Len(u) = Len(s) + Len(t)
      /\ \A i \in 1 .. Len(s) + Len(t) :
           u[i] = IF i <= Len(s) THEN s[i] ELSE t[i - Len(s)]
  BY <1>2, <1>4, ConcatProperties
<1>6. origin_blocks_rx' = u
  BY DEF t
<1> HIDE DEF u
<1>7. ASSUME NEW i \in 1 .. Len(s)
      PROVE  /\ u[i] = s[i] /\ s[i].number \in Nat
             /\ confirmed < s[i].number /\ s[i].number <= l2_origin
             /\ \A j \in 1 .. i - 1 : s[j].number < s[i].number
  <2>1. s[i] \in Block /\ i \in 1 .. Len(s) + Len(t) /\ i <= Len(s)
    BY <1>2, <1>4, ElementOfSeq
  <2> QED
    BY <1>5, <2>1 DEF OriginsAscend, Block
<1>8. ASSUME NEW i \in 1 .. Len(s) + Len(t), i > Len(s)
      PROVE  u[i].number = l2_origin + (i - Len(s))
             /\ i - Len(s) \in 1 .. k - l2_origin
  <2>1. i - Len(s) \in 1 .. k - l2_origin /\ ~(i <= Len(s))
    BY <1>2, <1>4, <1>8
  <2> QED
    BY <1>4, <1>5, <2>1
<1>9. ASSUME NEW i \in 1 .. Len(s) + Len(t)
      PROVE  /\ confirmed < u[i].number /\ u[i].number <= head_origin
             /\ \A j \in 1 .. i - 1 : u[j].number < u[i].number
  <2>1. CASE i <= Len(s)
    <3>1. i \in 1 .. Len(s)
      BY <1>2, <2>1
    <3>2. ASSUME NEW j \in 1 .. i - 1 PROVE u[j].number < u[i].number
      <4>1. j \in 1 .. Len(s)
        BY <1>2, <3>1
      <4> QED
        BY <1>7, <3>1, <4>1
    <3>3. /\ u[i].number \in Nat /\ confirmed < u[i].number
          /\ u[i].number <= l2_origin
      BY <1>7, <3>1
    <3>4. u[i].number <= head_origin
      BY <1>2, <3>3
    <3> QED
      BY <3>2, <3>3, <3>4
  <2>2. CASE i > Len(s)
    <3>a. u[i].number = l2_origin + (i - Len(s))
          /\ i - Len(s) \in 1 .. k - l2_origin
      BY <1>8, <2>2
    <3>1. u[i].number = l2_origin + (i - Len(s)) /\ i - Len(s) >= 1
          /\ i - Len(s) <= k - l2_origin /\ i - Len(s) \in Nat
      BY <1>2, <3>a
    <3>2. ASSUME NEW j \in 1 .. i - 1 PROVE u[j].number < u[i].number
      <4>1. j \in 1 .. Len(s) + Len(t)
        BY <1>2, <1>4
      <4>2. CASE j <= Len(s)
        <5>1. j \in 1 .. Len(s)
          BY <1>2, <4>2
        <5>2. u[j].number \in Nat /\ u[j].number <= l2_origin
          BY <1>7, <5>1
        <5> QED
          BY <1>2, <3>1, <5>2
      <4>3. CASE j > Len(s)
        <5>1. u[j].number = l2_origin + (j - Len(s))
          BY <1>8, <4>1, <4>3
        <5> QED
          BY <1>2, <3>1, <5>1
      <4> QED
        BY <1>2, <4>2, <4>3
    <3>3. confirmed <= l2_origin
      BY DEF OriginsAscend
    <3> QED
      BY <1>2, <3>1, <3>2, <3>3
  <2> QED
    BY <1>2, <2>1, <2>2
<1>10. confirmed' <= l2_origin'
  BY <1>2 DEF OriginsAscend, TypeInv, OriginOnChain
<1> QED
  BY <1>5, <1>6, <1>9, <1>10 DEF OriginsAscend

LEMMA OriginTaken ==
  ASSUME TypeInv, OriginsAscend, origin_blocks_rx # <<>>,
         origin_blocks_rx' = Tail(origin_blocks_rx), l2_origin' = l2_origin,
         confirmed' = Head(origin_blocks_rx).number
  PROVE  OriginsAscend' /\ confirmed < Head(origin_blocks_rx).number
<1> DEFINE s == origin_blocks_rx
           t == Tail(s)
<1>1. /\ s \in Seq(Block) /\ Len(s) \in Nat /\ Len(s) # 0
  BY EmptySeq, LenProperties DEF TypeInv, TypeOK
<1>2. /\ Head(s) = s[1] /\ Len(t) = Len(s) - 1
      /\ \A i \in 1 .. Len(t) : t[i] = s[i + 1]
  BY <1>1, HeadTailProperties
<1> HIDE DEF t
<1>3. 1 \in 1 .. Len(s)
  BY <1>1
<1>4. /\ confirmed < s[1].number /\ s[1].number <= l2_origin
  BY <1>3 DEF OriginsAscend
<1>5. ASSUME NEW i \in 1 .. Len(t)
      PROVE  /\ s[1].number < t[i].number /\ t[i].number <= l2_origin
             /\ \A j \in 1 .. i - 1 : t[j].number < t[i].number
  <2>1. i + 1 \in 1 .. Len(s) /\ 1 \in 1 .. (i + 1) - 1
    BY <1>1, <1>2
  <2>2. /\ s[i + 1].number <= l2_origin
        /\ \A j \in 1 .. (i + 1) - 1 : s[j].number < s[i + 1].number
    BY <2>1 DEF OriginsAscend
  <2>3. ASSUME NEW j \in 1 .. i - 1 PROVE t[j].number < t[i].number
    <3>1. j \in 1 .. Len(t) /\ j + 1 \in 1 .. (i + 1) - 1
      BY <1>1, <1>2
    <3> QED
      BY <1>2, <2>2, <3>1
  <2> QED
    BY <1>2, <2>1, <2>2, <2>3
<1>6. origin_blocks_rx' = t /\ confirmed' = s[1].number
  BY <1>2 DEF t
<1> QED
  BY <1>2, <1>4, <1>5, <1>6 DEF OriginsAscend

-----------------------------------------------------------------------------
(* The invariant, one case per action.                                     *)
LEMMA RestartInv == ASSUME Inv, Restart PROVE Inv'
<1>a. TypeInv /\ TypeOK /\ BlockInv /\ ChainNumbered
  BY DEF Inv, TypeInv
<1>1. TypeInv'
  BY <1>a, RestartType
<1>2. Kept' = {} /\ to_verify' = {} /\ BlocksIn(origin_blocks_rx') = {}
  BY BlocksInEmpty DEF Restart, Kept
<1>3. HeadersSorted'
  BY DEF Restart, HeadersSorted
<1>4. BlocksIn(l2_blocks_rx') \subseteq BlocksIn(chain)
  <2>1. chain \in Seq(Block) /\ chain # <<>> /\ Len(chain) \in Nat
    BY <1>a, LenProperties DEF TypeOK
  <2>2. CASE Len(chain) = 1
    BY <2>2 DEF Restart
  <2>3. CASE Len(chain) # 1
    <3>1. Len(chain) # 0
      BY <2>1, EmptySeq, Zenon
    <3>2. /\ Len(chain) - 1 >= 1 /\ Len(chain) - 1 \in Int
          /\ Len(chain) \in Int /\ Len(chain) <= Len(chain)
      <4>1. \A n \in Nat : n # 0 /\ n # 1 =>
              n - 1 >= 1 /\ n - 1 \in Int /\ n \in Int /\ n <= n
        OBVIOUS
      <4> QED
        BY <2>1, <2>3, <3>1, <4>1, Zenon
    <3>3. BlocksIn(SubSeq(chain, Len(chain) - 1, Len(chain)))
            \subseteq BlocksIn(chain)
      BY <2>1, <3>2, BlocksInPartOf
    <3> QED
      BY <2>3, <3>3 DEF Restart
  <2> QED
    BY <2>2, <2>3
<1>5. chain' = chain /\ fork' = fork
  BY DEF Restart, nodeVars
<1>6. Met' \subseteq Met
  BY <1>2, <1>4, <1>5 DEF Met, Kept
<1>7. BlockInv' /\ ChainNumbered'
  BY <1>a, <1>5, <1>6, SameBlocks DEF ChainNumbered
<1>8. VerifyInv'
  BY <1>2 DEF VerifyInv, Covered, KnownVerified, OwnKept
<1>9. OriginsAscend'
  <2>1. origin_blocks_rx' = <<>> /\ confirmed' = 0 /\ l2_origin' = 0
    BY DEF Restart
  <2>2. 1 .. Len(origin_blocks_rx') = {}
    BY <2>1, EmptySeq
  <2> QED
    BY <2>1, <2>2 DEF OriginsAscend
<1> QED
  BY <1>1, <1>3, <1>7, <1>8, <1>9 DEF Inv

LEMMA InvStep == Inv /\ [Next]_vars => Inv'
<1> SUFFICES ASSUME Inv, [Next]_vars PROVE Inv'
  OBVIOUS
<1>a. /\ TypeInv /\ TypeOK /\ HeadersSorted /\ BlockInv /\ ChainNumbered
      /\ OriginsAscend /\ VerifyInv
  BY DEF Inv, TypeInv
<1>b. TypeInv' /\ HeadersSorted'
  BY <1>a, ContextTypeStep, SortedStep
<1>c. SUFFICES /\ BlockInv' /\ ChainNumbered' /\ VerifyInv' /\ OriginsAscend'
               \/ Restart
  BY <1>b, RestartInv DEF Inv
<1>d. \A c \in Kept : c \in Met
  BY DEF Kept, Met
<1>1. CASE RecvL2
  <2>1. /\ l2_blocks_rx \in Seq(Block) /\ l2_blocks_rx # <<>>
        /\ NewPreconfL2Block(Head(l2_blocks_rx))
        /\ l2_blocks_rx' = Tail(l2_blocks_rx)
        /\ UNCHANGED <<chain, fork, l2_origin, origin_blocks_rx, confirmed>>
    BY <1>1, <1>a DEF RecvL2, TypeOK, nodeVars, originVars
  <2> DEFINE b == Head(l2_blocks_rx)
  <2>2. /\ b \in Block /\ b \in BlocksIn(l2_blocks_rx)
        /\ BlocksIn(l2_blocks_rx') \subseteq BlocksIn(l2_blocks_rx)
    BY <2>1, BlocksInQueue
  <2>3. /\ BlocksIn(l2_headers') \subseteq BlocksIn(l2_headers) \cup {b}
        /\ to_verify' \subseteq to_verify \cup {b}
    BY <1>a, <2>1, <2>2, NewPreconfMet
  <2>4. Met' \subseteq Met
    BY <2>1, <2>2, <2>3 DEF Met
  <2>5. \A c \in Kept : c.number = b.number /\ c.fork = b.fork => c = b
    BY <1>a, <1>d, <2>2 DEF BlockInv, Distinct, Met
  <2>6. VerifyInv'
    BY <1>a, <2>1, <2>2, <2>5, NewPreconfVerified
  <2>7. BlockInv' /\ ChainNumbered' /\ OriginsAscend'
    BY <1>a, <2>1, <2>4, SameBlocks DEF ChainNumbered, OriginsAscend
  <2> QED
    BY <2>6, <2>7
<1>2. CASE NewOriginL2Block
  <2> SUFFICES ASSUME ~Restart
               PROVE  BlockInv' /\ ChainNumbered' /\ VerifyInv' /\ OriginsAscend'
    OBVIOUS
  <2> DEFINE h == Head(origin_blocks_rx)
  <2>1. PICK i \in 0 .. Len(l2_headers) :
          /\ Popped(h.number, i)
          /\ l2_headers' = SubSeq(l2_headers, i + 1, Len(l2_headers))
    BY <1>2 DEF NewOriginL2Block
  <2>2. /\ origin_blocks_rx # <<>> /\ to_verify' = StillToVerify(h)
        /\ confirmed' = h.number
        /\ origin_blocks_rx' = Tail(origin_blocks_rx)
        /\ UNCHANGED <<chain, fork, l2_origin, l2_blocks_rx, pruned_own,
                       malformed>>
    BY <1>2 DEF NewOriginL2Block, nodeVars, originVars
  <2>3. /\ h \in Block
        /\ BlocksIn(origin_blocks_rx') \subseteq BlocksIn(origin_blocks_rx)
    BY <1>a, <2>2, BlocksInQueue DEF TypeOK
  <2>4. OriginsAscend' /\ confirmed < h.number
    BY <1>a, <2>2, OriginTaken
  <2>5. h.number \in Nat
    BY <2>3 DEF Block
  <2>6. Kept' = {c \in Kept : h.number <= c.number}
    BY <1>a, <2>1, <2>5, PoppedSets
  <2>7. VerifyInv'
    BY <1>a, <2>2, <2>3, <2>4, <2>6, OriginVerified
  <2>8. Met' \subseteq Met
    BY <2>2, <2>3, <2>6 DEF Met, Kept, StillToVerify
  <2> QED
    BY <1>a, <2>2, <2>4, <2>7, <2>8, SameBlocks DEF ChainNumbered
<1>3. CASE ParentPanics
  BY <1>3 DEF ParentPanics
<1>4. CASE SealBlock
  <2>1. PICK b \in Block :
          /\ head_origin < b.number /\ b.number <= Len(chain) + 1
          /\ b.fork = IF b.number <= Len(chain) THEN fork + 1 ELSE fork
          /\ NodeAdopts(b) /\ NewPreconfL2Block(b)
    BY <1>4, <1>a, SealedBlock
  <2>2. UNCHANGED <<l2_origin, origin_blocks_rx, confirmed>>
    BY <1>4 DEF SealBlock, originVars
  <2>3. /\ ChainNumbered' /\ Len(chain') = b.number
        /\ BlocksIn(chain') \subseteq BlocksIn(chain) \cup {b}
        /\ BlocksIn(l2_blocks_rx') \subseteq BlocksIn(l2_blocks_rx) \cup {b}
    BY <1>a, <2>1, AdoptsChain
  <2>4. /\ BlocksIn(l2_headers') \subseteq BlocksIn(l2_headers) \cup {b}
        /\ to_verify' \subseteq to_verify \cup {b}
    BY <1>a, <2>1, NewPreconfMet
  <2>5. Met' \subseteq Met \cup {b}
    BY <2>2, <2>3, <2>4 DEF Met
  <2>6. BlockInv'
    BY <1>a, <2>1, <2>3, <2>5, AdoptsBlocks
  <2>7. \A c \in Kept : ~(c.number = b.number /\ c.fork = b.fork)
    <3> SUFFICES ASSUME NEW c \in Kept
                 PROVE  ~(c.number = b.number /\ c.fork = b.fork)
      OBVIOUS
    <3>1. /\ c.number \in Nat /\ c.fork \in Nat /\ c.fork <= fork
          /\ c.fork = fork => c.number <= Len(chain)
      BY <1>a, <1>d, MetType DEF BlockInv, Born, Block
    <3>2. fork \in Nat /\ Len(chain) \in Nat
      BY <1>a, LenProperties DEF TypeOK
    <3> QED
      BY <2>1, <3>1, <3>2
  <2>8. VerifyInv'
    BY <1>a, <2>1, <2>2, <2>7, NewPreconfVerified
  <2> QED
    BY <1>a, <2>2, <2>3, <2>6, <2>8 DEF OriginsAscend
<1>5. CASE OtherBlock
  <2>1. PICK b \in Block :
          /\ head_origin < b.number /\ b.number <= Len(chain) + 1
          /\ b.fork = IF b.number <= Len(chain) THEN fork + 1 ELSE fork
          /\ NodeAdopts(b)
    BY <1>5, <1>a, ForeignBlock
  <2>2. UNCHANGED <<l2_headers, to_verify, l2_origin, origin_blocks_rx,
                    confirmed, pruned_own, malformed>>
    BY <1>5 DEF OtherBlock, ctxVars, originVars, pastVars
  <2>3. /\ ChainNumbered' /\ Len(chain') = b.number
        /\ BlocksIn(chain') \subseteq BlocksIn(chain) \cup {b}
        /\ BlocksIn(l2_blocks_rx') \subseteq BlocksIn(l2_blocks_rx) \cup {b}
    BY <1>a, <2>1, AdoptsChain
  <2>4. Met' \subseteq Met \cup {b}
    BY <2>2, <2>3 DEF Met
  <2>5. BlockInv'
    BY <1>a, <2>1, <2>3, <2>4, AdoptsBlocks
  <2> QED
    BY <1>a, <2>2, <2>3, <2>5
       DEF OriginsAscend, VerifyInv, Covered, KnownVerified, OwnKept, Kept
<1>6. ASSUME NEW k \in l2_origin .. head_origin,
             l2_origin' = head_origin,
             origin_blocks_rx' =
               origin_blocks_rx \o SubSeq(chain, l2_origin + 1, k),
             UNCHANGED <<l2_headers, to_verify, chain, fork, l2_blocks_rx,
                         confirmed, pruned_own, malformed>>
      PROVE  BlockInv' /\ ChainNumbered' /\ VerifyInv' /\ OriginsAscend'
  <2>3. BlocksIn(origin_blocks_rx') \subseteq
          BlocksIn(origin_blocks_rx) \cup BlocksIn(chain)
    <3>1. /\ l2_origin \in Nat /\ head_origin \in Nat /\ Len(chain) \in Nat
          /\ head_origin <= Len(chain) /\ chain \in Seq(Block)
          /\ origin_blocks_rx \in Seq(Block)
      BY <1>a, LenProperties DEF TypeInv, TypeOK, OriginOnChain
    <3>2. /\ l2_origin + 1 \in Int /\ l2_origin + 1 >= 1
          /\ k \in Int /\ k <= Len(chain)
      BY <3>1
    <3>3. /\ SubSeq(chain, l2_origin + 1, k) \in Seq(Block)
          /\ BlocksIn(SubSeq(chain, l2_origin + 1, k)) \subseteq BlocksIn(chain)
      BY <3>1, <3>2, PartOfSeq, BlocksInPartOf
    <3>4. ASSUME NEW t, t \in Seq(Block), BlocksIn(t) \subseteq BlocksIn(chain)
          PROVE  BlocksIn(origin_blocks_rx \o t) \subseteq
                   BlocksIn(origin_blocks_rx) \cup BlocksIn(chain)
      BY <3>1, <3>4, BlocksInConcat
    <3> QED
      BY <1>6, <3>3, <3>4
  <2>4. Met' \subseteq Met
    BY <1>6, <2>3 DEF Met
  <2>5. BlockInv' /\ ChainNumbered'
    BY <1>a, <1>6, <2>4, SameBlocks DEF ChainNumbered
  <2>6. OriginsAscend'
    BY <1>a, <1>6, OriginsPolled
  <2> QED
    BY <1>a, <1>6, <2>5, <2>6
       DEF VerifyInv, Covered, KnownVerified, OwnKept, Kept
<1>8. ASSUME l2_origin' \in {l2_origin, head_origin},
             UNCHANGED <<l2_headers, to_verify, chain, fork, l2_blocks_rx,
                         origin_blocks_rx, confirmed, pruned_own, malformed>>
      PROVE  BlockInv' /\ ChainNumbered' /\ VerifyInv' /\ OriginsAscend'
  <2>1. Met' = Met /\ Kept' = Kept
    BY <1>8 DEF Met, Kept
  <2>2. BlockInv' /\ ChainNumbered' /\ VerifyInv'
    BY <1>a, <1>8, <2>1, SameBlocks
       DEF ChainNumbered, VerifyInv, Covered, KnownVerified, OwnKept
  <2>3. l2_origin <= l2_origin' /\ l2_origin \in Nat /\ l2_origin' \in Nat
        /\ confirmed \in Nat
    BY <1>a, <1>8 DEF TypeInv, TypeOK, OriginOnChain
  <2>4. OriginsAscend'
    <3>1. confirmed' <= l2_origin'
      BY <1>a, <1>8, <2>3 DEF OriginsAscend
    <3>2. ASSUME NEW i \in 1 .. Len(origin_blocks_rx)
          PROVE  /\ confirmed < origin_blocks_rx[i].number
                 /\ origin_blocks_rx[i].number <= l2_origin'
                 /\ \A j \in 1 .. i - 1 :
                      origin_blocks_rx[j].number < origin_blocks_rx[i].number
      <4>1. origin_blocks_rx[i] \in Block
        BY <1>a, ElementOfSeq DEF TypeOK
      <4>2. origin_blocks_rx[i].number \in Nat
            /\ origin_blocks_rx[i].number <= l2_origin
        BY <1>a, <4>1 DEF OriginsAscend, Block
      <4>3. origin_blocks_rx[i].number <= l2_origin'
        BY <2>3, <4>2
      <4> QED
        BY <1>a, <4>3 DEF OriginsAscend
    <3> QED
      BY <1>8, <3>1, <3>2 DEF OriginsAscend
  <2> QED
    BY <2>2, <2>4
<1>9. CASE PollOrigin
  <2>1. UNCHANGED <<l2_headers, to_verify, chain, fork, l2_blocks_rx,
                    confirmed, pruned_own, malformed>>
    BY <1>9 DEF PollOrigin, ctxVars, nodeVars, pastVars
  <2>2. CASE UNCHANGED <<l2_origin, origin_blocks_rx>>
    BY <1>8, <2>1, <2>2
  <2>3. ASSUME NEW k \in l2_origin .. head_origin, l2_origin' = head_origin,
               origin_blocks_rx' =
                 origin_blocks_rx \o SubSeq(chain, l2_origin + 1, k)
        PROVE  BlockInv' /\ ChainNumbered' /\ VerifyInv' /\ OriginsAscend'
    BY <1>6, <2>1, <2>3
  <2> QED
    BY <1>9, <2>2, <2>3 DEF PollOrigin
<1>10. CASE OriginStart
  BY <1>8, <1>10 DEF OriginStart, ctxVars, nodeVars, pastVars
<1>7. CASE UNCHANGED <<l2_headers, to_verify, chain, fork, l2_origin,
                       l2_blocks_rx, origin_blocks_rx, confirmed, pruned_own,
                       malformed>>
  BY <1>7, <1>8
<1> QED
  BY <1>1, <1>2, <1>3, <1>4, <1>5, <1>7, <1>9, <1>10
     DEF Next, NewL1Block, Confirm, vars, ctxVars, nodeVars, originVars,
         pastVars

LEMMA InvInit == Init => Inv
<1> SUFFICES ASSUME Init PROVE Inv
  OBVIOUS
<1> DEFINE g == [number |-> 1, fork |-> 0, parent |-> 0, own |-> FALSE]
<1>1. /\ chain = <<g>> /\ l2_blocks_rx = <<g>> /\ fork = 0
      /\ l2_headers = <<>> /\ origin_blocks_rx = <<>> /\ to_verify = {}
      /\ confirmed = 0 /\ l2_origin = 0
  BY DEF Init
<1>2. g.number = 1 /\ g.fork = 0
  OBVIOUS
<1> HIDE DEF g
<1>3. /\ Len(<<g>>) = 1 /\ <<g>>[1] = g
  OBVIOUS
<1>4. 1 .. Len(<<g>>) = {1} /\ Len(chain) = 1
  BY <1>1, <1>3
<1>5. BlocksIn(<<g>>) = {g}
  BY <1>3, <1>4 DEF BlocksIn
<1>6. Met = {g} /\ Kept = {}
  BY <1>1, <1>5, BlocksInEmpty DEF Met, Kept
<1>7. BlockInv
  BY <1>1, <1>2, <1>4, <1>6 DEF BlockInv, Distinct, Born
<1>8. ChainNumbered
  BY <1>1, <1>2, <1>3, <1>4 DEF ChainNumbered
<1>9. OriginsAscend
  <2>1. 1 .. Len(origin_blocks_rx) = {}
    BY <1>1, EmptySeq
  <2> QED
    BY <1>1, <2>1 DEF OriginsAscend
<1>10. VerifyInv
  BY <1>1, <1>6 DEF VerifyInv, Covered, KnownVerified, OwnKept
<1>11. HeadersSorted
  BY <1>1 DEF HeadersSorted
<1> QED
  BY <1>7, <1>8, <1>9, <1>10, <1>11, ContextInit DEF Inv

(* A block of ours that waits for its origin header is the one we keep     *)
(* with its number: new_origin_l2_block never compares the header with a   *)
(* block that a reorg we have seen replaced, however the three feeds       *)
(* interleave.                                                             *)
THEOREM VerifiesKept == Spec => []VerifiesKnownBlocks
<1>1. Inv => VerifiesKnownBlocks
  <2> SUFFICES ASSUME Inv, ~malformed,
                      NEW v \in to_verify, NEW i \in Known(v.number)
               PROVE  l2_headers[i] = v
    BY DEF VerifiesKnownBlocks
  <2>1. i \in 1 .. Len(l2_headers) /\ l2_headers[i].number = v.number
    BY KeptType DEF Known, Inv, TypeInv
  <2>2. l2_headers[i] \in Kept
    BY <2>1 DEF Kept, BlocksIn
  <2> QED
    BY <2>1, <2>2 DEF Inv, VerifyInv, KnownVerified
<1> QED
  BY <1>1, InvInit, InvStep, PTL DEF Spec

(* No block of ours is left out of the verification: each one among the    *)
(* headers waits for its origin header until one reaches it, or it was the *)
(* block of a reorg.                                                       *)
THEOREM OwnBlocksWait == Spec => []OwnBlocksVerified
<1>1. Inv => OwnBlocksVerified
  <2> SUFFICES ASSUME Inv, NEW i \in DOMAIN l2_headers, l2_headers[i].own,
                      l2_headers[i].number > confirmed
               PROVE  l2_headers[i] \in to_verify \cup pruned_own
    BY DEF OwnBlocksVerified
  <2>1. l2_headers[i] \in Kept
    BY KeptType DEF Kept, BlocksIn, Inv, TypeInv
  <2> QED
    BY <2>1 DEF Inv, VerifyInv, OwnKept
<1> QED
  BY <1>1, InvInit, InvStep, PTL DEF Spec

=============================================================================
