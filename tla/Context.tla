------------------------------ MODULE Context ------------------------------
(***************************************************************************)
(* SequencerContext (crates/sequencer/src/context.rs): what the sequencer  *)
(* remembers of the L1 and L2 chains, fed by three tasks that share no     *)
(* order (crates/sequencer/src/fetcher.rs): the L1 headers, the L2 blocks  *)
(* the node adopts, and the L2 headers that L1 has confirmed, polled.      *)
(*                                                                         *)
(* Environment: the L1, which extends and reorgs; the L2 node's chain,     *)
(* which other gateways and this one extend and which may reorg above the  *)
(* confirmed blocks; and its L1 origin.  The hash of an L2 block is its    *)
(* number and the fork it was born on; of an L1 header it only matters     *)
(* whether it is still on the L1, which the code cannot see.               *)
(***************************************************************************)
EXTENDS Integers, Sequences, FiniteSets

CONSTANTS
  L1Lag,              (* l1_safe_lag                                       *)
  MaxL1,              (* bound: L1 block numbers                           *)
  MaxBlock,           (* bound: L2 block numbers                           *)
  MaxFork,            (* bound: L2 forks                                   *)
  MaxQueue            (* bound: length of each channel                     *)

ASSUME LagAssumption == L1Lag \in Nat \ {0} /\ L1Lag < MaxL1
ASSUME ContextBounds == {MaxL1, MaxBlock, MaxFork, MaxQueue} \subseteq Nat

(* live: the block is on the L1; history, no operation reads it.           *)
Header == [number: Nat, live: BOOLEAN]

(* parent is the fork of the block's parent; own: our coinbase.            *)
Block == [number: Nat, fork: Nat, parent: Nat, own: BOOLEAN]

VARIABLES
  l1_headers,         (* the kept L1 headers                               *)
  l2_headers,         (* the kept L2 blocks, the last one is the parent    *)
  to_verify,          (* our blocks that no origin header has confirmed    *)
  l2_origin,          (* the shared atomic: L1 origin at the last poll     *)
  polling,            (* the origin poll is in its loop                    *)
  ready,              (* run() has left its waiting loop                   *)
  l2_blocks_rx,       (* channel: blocks the L2 subscription fetched       *)
  origin_blocks_rx,   (* channel: headers the origin poll fetched          *)
  chain,              (* the L2 node: block n is chain[n]                  *)
  fork,               (* the L2 node: the fork its next block is born on   *)
  head_origin,        (* the L2 node: taiko_headL1Origin                   *)
  l1_head,            (* the L1: its last block                            *)
  confirmed,          (* history: the highest origin header received       *)
  pruned_own,         (* history: our blocks dropped by their own reorg    *)
  malformed           (* history: a block without an anchor transaction    *)
                      (* truncated the headers and did not join them       *)

(* History of the L1 since the process started.                            *)
VARIABLES
  l1_gap,             (* an L1 header was missed                           *)
  l1_top,             (* the highest L1 block there was                    *)
  anchored,           (* the highest header that was the safe one since    *)
                      (* the last reorg of more than L1Lag blocks          *)
  reverted            (* a reorg of at most L1Lag blocks took it           *)

ctxVars == <<l1_headers, l2_headers, to_verify>>
l1Vars == <<l1_head, l1_gap, l1_top, anchored, reverted>>
originVars == <<l2_origin, polling>>
pastVars == <<confirmed, pruned_own, malformed>>
nodeVars == <<chain, fork, head_origin>>
vars == <<ctxVars, l1Vars, nodeVars, originVars, ready, l2_blocks_rx,
          origin_blocks_rx, pastVars>>

Newer(m, n) == IF m < n THEN n ELSE m
HeadersUpTo(n) == [number: n - L1Lag .. n, live: {TRUE}]

(* safe_l1_header: the first of the map, if any.                           *)
SafeL1 == CHOOSE h \in l1_headers : \A o \in l1_headers : h.number <= o.number
SafeNumber == IF l1_headers = {} THEN 0 ELSE SafeL1.number

Parent == l2_headers[Len(l2_headers)]
ForkAt(n) == IF n = 0 THEN 0 ELSE chain[n].fork

(* is_ready(): enough L1 headers and a parent.                             *)
IsReady == Cardinality(l1_headers) >= L1Lag /\ l2_headers # <<>>

(* l2_parent() panics when there is no header, in every tick.              *)
Running == ready => l2_headers # <<>>

Init ==
  /\ l1_head = L1Lag + 1 /\ l1_headers = HeadersUpTo(l1_head)
  /\ l1_gap = FALSE /\ l1_top = l1_head /\ anchored = 1 /\ reverted = FALSE
  /\ l2_headers = <<>> /\ to_verify = {}
  /\ l2_origin = 0 /\ polling = FALSE /\ ready = FALSE
  /\ chain = <<[number |-> 1, fork |-> 0, parent |-> 0, own |-> FALSE]>>
  /\ fork = 0 /\ head_origin = 0
  /\ l2_blocks_rx = chain /\ origin_blocks_rx = <<>>
  /\ confirmed = 0 /\ pruned_own = {} /\ malformed = FALSE

-----------------------------------------------------------------------------
(* new_l1_block(n): the headers more than L1Lag below n go, and n takes    *)
(* the place of a header with its number.                                  *)
Faulty_NotInserted(hs, n) == {h \in hs : h.number > n}
Faulty_KeptL1(hs, n) ==
  {h \in hs : h.number > n - L1Lag /\ h.number # n}
    \cup {[number |-> n, live |-> TRUE]}
KeptL1(hs, n) ==
  {h \in hs : h.number >= n - L1Lag /\ h.number # n}
    \cup {[number |-> n, live |-> TRUE]}

(* A reorg takes the blocks from b on off the L1: more than L1Lag blocks,  *)
(* counted from the highest there was, if it is deep.                      *)
Orphaned(b) == {[h EXCEPT !.live = @ /\ h.number < b] : h \in l1_headers}
Deep(b) == l1_top - b + 1 > L1Lag

(* The L1 grows or reorgs: the blocks b .. n are new.  We receive the last *)
(* of them; the others, if any, were missed (a dropped subscription is not *)
(* backfilled).  Bound: a reorg leaves more than L1Lag blocks.             *)
NewL1Block ==
  /\ Running
  /\ \E n \in L1Lag + 1 .. MaxL1 : \E b \in 1 .. n :
       /\ b <= l1_head + 1
       /\ l1_headers' = KeptL1(Orphaned(b), n)
       /\ l1_head' = n
       /\ l1_gap' = (l1_gap \/ b < n)
       /\ l1_top' = Newer(l1_top, n)
       /\ anchored' = IF Deep(b) THEN SafeNumber'
                                 ELSE Newer(anchored, SafeNumber')
       /\ reverted' = (reverted \/ (~Deep(b) /\ b <= anchored))
  /\ UNCHANGED <<l2_headers, to_verify, nodeVars, originVars, l2_blocks_rx,
                 origin_blocks_rx, pastVars>>
  /\ ready' = (ready \/ IsReady')

-----------------------------------------------------------------------------
(* new_preconf_l2_block.  Our blocks are remembered for verification.      *)
Remembered(b) ==
  IF b.own THEN {v \in to_verify : v.number # b.number} \cup {b} ELSE to_verify

Known(n) == {i \in DOMAIN l2_headers : l2_headers[i].number = n}

(* It comes next, or after blocks we missed.                               *)
Follows(b) == Parent.number + 1 = b.number /\ Parent.fork = b.parent
Faulty_Extends(b) ==
  l2_headers # <<>> => Follows(b) \/ Parent.number <= b.number
Extends(b) ==
  l2_headers # <<>> =>
    Follows(b) \/ (Known(b.number) = {} /\ Parent.number < b.number)

(* It replaces header i: the headers from there on go, and so do the       *)
(* verifications, the one just remembered for b included.                  *)
Replaces(b, i) ==
  ~Extends(b) /\ i \in Known(b.number) /\ l2_headers[i].fork # b.fork

Faulty_Unverified(b) == Remembered(b)
Unverified(b) == {v \in Remembered(b) : v.number < b.number}

(* Otherwise we have seen it, or it is older than all we keep.             *)
Seen(b) == ~Extends(b) /\ \A i \in Known(b.number) : ~Replaces(b, i)

(* update_parent_block_id: b comes after the kept headers, unless it is a  *)
(* block without an anchor transaction, which ours never are.              *)
UpdateParent(kept, b) ==
  \/ l2_headers' = Append(kept, b)
  \/ ~b.own /\ l2_headers' = kept

NewPreconfL2Block(b) ==
  \/ /\ Extends(b)
     /\ UpdateParent(l2_headers, b)
     /\ to_verify' = Remembered(b)
     /\ UNCHANGED <<pruned_own, malformed>>
  \/ \E i \in DOMAIN l2_headers :
       /\ Replaces(b, i)
       /\ UpdateParent(SubSeq(l2_headers, 1, i - 1), b)
       /\ malformed' = (malformed \/ Len(l2_headers') < i)
       /\ to_verify' = Unverified(b)
       /\ pruned_own' = IF b.own THEN pruned_own \cup {b} ELSE pruned_own
  \/ /\ Seen(b)
     /\ to_verify' = Remembered(b)
     /\ UNCHANGED <<l2_headers, pruned_own, malformed>>

(* recv_blocks, L2 channel; run() starts its loop once is_ready().         *)
RecvL2 ==
  /\ Running
  /\ l2_blocks_rx # <<>>
  /\ NewPreconfL2Block(Head(l2_blocks_rx))
  /\ l2_blocks_rx' = Tail(l2_blocks_rx)
  /\ UNCHANGED <<l1_headers, l1Vars, nodeVars, originVars, origin_blocks_rx,
                 confirmed>>
  /\ ready' = (ready \/ IsReady')

-----------------------------------------------------------------------------
(* new_origin_l2_block(h): a block of ours must be the confirmed one, else *)
(* the process panics; missed verifications are dropped, and the headers   *)
(* below h are popped from the front.                                      *)
Mismatch(h) == \E v \in to_verify : v.number = h.number /\ v.fork # h.fork

Faulty_StillToVerify(h) ==
  IF h \in to_verify THEN to_verify \ {h} ELSE {}
StillToVerify(h) ==
  IF h \in to_verify THEN to_verify \ {h}
                     ELSE {v \in to_verify : v.number > h.number}

Popped(n, i) ==
  /\ \A j \in 1 .. i : l2_headers[j].number < n
  /\ i < Len(l2_headers) => l2_headers[i + 1].number >= n

(* The process stops and starts again: the backfilled L1 headers are in,   *)
(* the last two L2 blocks are to come, and the origin poll has not begun.  *)
Restart ==
  /\ l1_headers' = HeadersUpTo(l1_head)
  /\ l1_top' = l1_head /\ anchored' = l1_head - L1Lag
  /\ l1_gap' = FALSE /\ reverted' = FALSE
  /\ l2_headers' = <<>> /\ to_verify' = {}
  /\ l2_origin' = 0 /\ polling' = FALSE /\ ready' = FALSE
  /\ l2_blocks_rx' = IF Len(chain) = 1 THEN chain
                     ELSE SubSeq(chain, Len(chain) - 1, Len(chain))
  /\ origin_blocks_rx' = <<>>
  /\ confirmed' = 0 /\ pruned_own' = {} /\ malformed' = FALSE
  /\ UNCHANGED <<nodeVars, l1_head>>

NewOriginL2Block ==
  /\ origin_blocks_rx # <<>>
  /\ LET h == Head(origin_blocks_rx)
     IN  \/ Mismatch(h) /\ Restart
         \/ /\ ~Mismatch(h)
            /\ to_verify' = StillToVerify(h)
            /\ \E i \in 0 .. Len(l2_headers) :
                 /\ Popped(h.number, i)
                 /\ l2_headers' = SubSeq(l2_headers, i + 1, Len(l2_headers))
            /\ confirmed' = h.number
            /\ origin_blocks_rx' = Tail(origin_blocks_rx)
            /\ UNCHANGED <<l1_headers, l1Vars, nodeVars, originVars, ready,
                           l2_blocks_rx, pruned_own, malformed>>

ParentPanics == ~Running /\ Restart

-----------------------------------------------------------------------------
(* The L2 node adopts b on top of its block b.number - 1; its subscription *)
(* delivers b or, while it is down, does not.                              *)
NodeAdopts(b) ==
  /\ chain' = Append(SubSeq(chain, 1, b.number - 1), b)
  /\ fork' = b.fork
  /\ \/ Len(l2_blocks_rx) < MaxQueue /\ l2_blocks_rx' = Append(l2_blocks_rx, b)
     \/ UNCHANGED l2_blocks_rx
  /\ UNCHANGED head_origin

(* seal_block: our block, built on a header we had as parent, replaces     *)
(* what the node has above it; gossiped first, then adopted.               *)
SealBlock ==
  /\ ready
  /\ \E i \in DOMAIN l2_headers :
       LET p == l2_headers[i]
           n == p.number + 1
           b == [number |-> n, parent |-> p.fork, own |-> TRUE,
                 fork |-> IF n <= Len(chain) THEN fork + 1 ELSE fork]
       IN  /\ head_origin < n /\ n <= MaxBlock /\ b.fork <= MaxFork
           /\ p.number <= Len(chain) /\ chain[p.number] = p
           /\ NodeAdopts(b)
           /\ NewPreconfL2Block(b)
  /\ UNCHANGED <<l1_headers, l1Vars, originVars, ready, origin_blocks_rx,
                 confirmed>>

(* Another gateway extends the chain, or the node reorgs to a block that   *)
(* L1 derived, which may carry our coinbase.                               *)
OtherBlock ==
  /\ \E n \in head_origin + 1 .. MaxBlock, own \in BOOLEAN :
       LET b == [number |-> n, parent |-> ForkAt(n - 1), own |-> own,
                 fork |-> IF n <= Len(chain) THEN fork + 1 ELSE fork]
       IN  /\ n <= Len(chain) + 1 /\ b.fork <= MaxFork
           /\ own => n <= Len(chain)
           /\ NodeAdopts(b)
  /\ UNCHANGED <<ctxVars, l1Vars, originVars, ready, origin_blocks_rx,
                 pastVars>>

(* L1 confirms blocks of the node's chain.                                 *)
Confirm ==
  /\ head_origin' \in head_origin + 1 .. Len(chain)
  /\ UNCHANGED <<ctxVars, l1Vars, chain, fork, originVars, ready,
                 l2_blocks_rx, origin_blocks_rx, pastVars>>

(* fetch_origin_blocks, at the start and again after an error: the first   *)
(* request stores the current origin, the blocks below it are not fetched. *)
OriginStart ==
  /\ ~polling
  /\ l2_origin' = head_origin
  /\ polling' = TRUE
  /\ UNCHANGED <<ctxVars, l1Vars, nodeVars, ready, l2_blocks_rx,
                 origin_blocks_rx, pastVars>>

(* Its loop: the swap, then one header per confirmed block.  An error, of  *)
(* the origin request or part of the way, loses the rest.                  *)
PollOrigin ==
  /\ polling
  /\ \/ /\ l2_origin' = head_origin
        /\ \E k \in l2_origin .. head_origin :
             /\ Len(origin_blocks_rx) + (k - l2_origin) <= MaxQueue
             /\ origin_blocks_rx' =
                  origin_blocks_rx \o SubSeq(chain, l2_origin + 1, k)
             /\ polling' = (k = head_origin)
     \/ polling' = FALSE /\ UNCHANGED <<l2_origin, origin_blocks_rx>>
  /\ UNCHANGED <<ctxVars, l1Vars, nodeVars, ready, l2_blocks_rx, pastVars>>

Next ==
  \/ NewL1Block
  \/ RecvL2
  \/ NewOriginL2Block
  \/ ParentPanics
  \/ SealBlock
  \/ OtherBlock
  \/ Confirm
  \/ OriginStart
  \/ PollOrigin

Spec == Init /\ [][Next]_vars

-----------------------------------------------------------------------------
(* Every variable keeps the type the code gives it.                        *)
TypeOK ==
  /\ l1_headers \subseteq Header /\ l1_headers # {}
  /\ l2_headers \in Seq(Block) /\ to_verify \subseteq Block
  /\ l2_blocks_rx \in Seq(Block) /\ origin_blocks_rx \in Seq(Block)
  /\ chain \in Seq(Block) /\ chain # <<>>
  /\ {l2_origin, fork, head_origin, confirmed} \subseteq Nat
  /\ {l1_head, l1_top, anchored} \subseteq Nat
  /\ {polling, ready, l1_gap, reverted, malformed} \subseteq BOOLEAN
  /\ pruned_own \subseteq Block

(* "L2 blocks sorted by block number" (context.rs:35): the parent is the   *)
(* highest block we know, over reorgs, missed and late blocks.  The front  *)
(* of the list is popped and its tail truncated on that ground.            *)
HeadersSorted ==
  \A i, j \in DOMAIN l2_headers :
    i < j => l2_headers[i].number < l2_headers[j].number

(* A block of ours that waits to be verified is the one among the headers  *)
(* with its number: after a reorg was seen, an origin header never meets   *)
(* the replaced block, which would panic the process.  The exception is a  *)
(* reorg to a block without an anchor transaction, which truncates the     *)
(* headers and is not kept in their place.                                 *)
VerifiesKnownBlocks ==
  ~malformed => \A v \in to_verify : \A i \in Known(v.number) : l2_headers[i] = v

(* Each of our blocks among the headers is waiting to be verified until an *)
(* origin header reaches it, unless it replaced a known block: then the    *)
(* reorg that it is drops it from the verifications.                       *)
OwnBlocksVerified ==
  \A i \in DOMAIN l2_headers :
    l2_headers[i].own /\ l2_headers[i].number > confirmed =>
      l2_headers[i] \in to_verify \cup pruned_own

(* "keep a buffer to account for L1 reorgs" (context.rs:38): the safe      *)
(* header, whose number and state root go into an anchor, is on the L1,    *)
(* over reorgs of any depth and the orphaned headers that new_l1_block     *)
(* keeps above the new head; and no header that was the safe one ever      *)
(* leaves the L1, unless by a reorg of more than l1_safe_lag blocks.  It   *)
(* takes an L1 subscription that misses no header.                         *)
SafeHeaderFinal == ~l1_gap => SafeL1.live /\ ~reverted

-----------------------------------------------------------------------------
(* Statement of a comment that the code does not keep.                     *)

(* context.rs:36: the L2 headers "should never be empty after startup".    *)
HeadersNeverEmpty == ready => l2_headers # <<>>

=============================================================================
