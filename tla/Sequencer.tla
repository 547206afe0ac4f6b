----------------------------- MODULE Sequencer -----------------------------
(***************************************************************************)
(* The sequencer thread (crates/sequencer/src/sequencer.rs): one loop that *)
(* receives L1 and L2 headers, reads the lookahead, refreshes the anchor,  *)
(* builds a block (Sync -> Sorting -> sealed) and groups sealed blocks in  *)
(* an open batch that it hands to the proposer.                            *)
(*                                                                         *)
(* The loop is one process whose program counter names the calls of tick() *)
(* and state_transition() in their order.  Around it, as environment: the  *)
(* clock, the operator lookahead, the other gateways and the L2 node, the  *)
(* L1, and the proposer as far as the count of live proposals goes.  A     *)
(* panic aborts the process (Cargo.toml: panic = 'abort'), which is then   *)
(* restarted with empty memory.                                            *)
(*                                                                         *)
(* Transactions, simulations and nonces are the business of the block      *)
(* builder: here a build in progress may at any time be told to seal or to *)
(* discard.                                                                *)
(***************************************************************************)
EXTENDS Integers, Sequences, Turns

CONSTANTS
  None,               (* no open batch; SequencerState::Sync               *)
  BlockSizes,         (* compressed size estimates a sealed block can have *)
  TargetSize,         (* batch_target_size                                 *)
  TargetBlockTime,    (* target_block_time, in clock units                 *)
  MaxBlockSkips,      (* max_block_skips                                   *)
  TimeShiftLimit,     (* 230 s: check_time_shift sends the open batch      *)
  MaxTimeShift,       (* 255: what a u8 time shift can hold                *)
  MaxStall,           (* longest time one transition may block on an RPC   *)
  MaxAnchorErrors,    (* MAX_ANCHOR_ERRORS                                 *)
  MaxBlock,           (* bound: L2 block numbers                           *)
  MaxL1,              (* bound: L1 block numbers                           *)
  MaxPending,         (* bound: batches waiting at the proposer            *)
  MaxFeed             (* bound: undelivered L2 blocks of other gateways    *)

(* An open batch, ProposeBatchParams: age is now - last_timestamp, so it   *)
(* is negative while the last block's timestamp lies ahead of the clock.   *)
Batch == [anchor: Nat, start: Nat, end: Nat, len: Nat, size: Nat, age: Int]

(* A block in construction, SortData: shift is the time shift it will get  *)
(* in the open batch, age is now - its timestamp.                          *)
SortData == [block: Nat, anchor: Nat, shift: Int, age: Int,
             seal: BOOLEAN, discard: BOOLEAN]

(* What the sequencer needs of a block of another gateway.                 *)
FeedBlock == [number: Nat, anchor: Nat]

ASSUME NoneAssumption == None \notin Batch /\ None \notin SortData
ASSUME NoneViewAssumption ==
  /\ None \notin [anchor: Nat, start: Nat, end: Nat, len: Nat]
  /\ None \notin [block: Nat, anchor: Nat]
ASSUME SizeAssumption == BlockSizes \subseteq Nat /\ TargetSize \in Nat \ {0}
ASSUME TimeAssumption ==
  /\ {TargetBlockTime, TimeShiftLimit} \subseteq Nat \ {0}
  /\ {MaxTimeShift, MaxStall, MaxBlockSkips} \subseteq Nat
  /\ MaxBlockSkips * TargetBlockTime <= MaxTimeShift
  /\ TimeShiftLimit + MaxStall + TargetBlockTime <= MaxTimeShift
ASSUME BoundAssumption ==
  {MaxBlock, MaxL1, MaxPending, MaxFeed, MaxAnchorErrors} \subseteq Nat

VARIABLES
  pc,                 (* the call of the loop that comes next              *)
  state,              (* ctx.state: None is Sync, else the SortData        *)
  request,            (* proposer_request                                  *)
  anchor,             (* ctx.anchor's block id, 0 when there is none       *)
  parent,             (* ctx.l2_parent().block_number                      *)
  parent_anchor,      (* ctx.parent_anchor_block_id                        *)
  safe_l1,            (* ctx.safe_l1_header().number                       *)
  can_sequence,       (* flags.can_sequence                                *)
  can_propose,        (* flags.can_propose                                 *)
  needs_status_check, (* needs_status_check                                *)
  anchor_error_count, (* anchor_error_count                                *)
  live_pending        (* LivePending::current()                            *)

VARIABLES
  turn,               (* what the lookahead says of this operator          *)
  seen,               (* the loop has read the current turn                *)
  net,                (* highest block the L2 node knows (status endpoint) *)
  net_anchor,         (* anchor of that block                              *)
  feed,               (* l2_blocks_rx: blocks of other gateways            *)
  stall               (* time spent since the last time shift check        *)

(* History: what the properties remember.                                  *)
VARIABLES
  unsent,             (* blocks owed to L1 and not yet handed over         *)
  lost_flush,         (* a failed seal left a batch of an old anchor open  *)
  foreign,            (* the parent is not a block of this process, and no *)
                      (* refresh of the anchor has caught up with it       *)
  unchecked           (* a block was built behind the network's tip        *)

lookVars == <<can_sequence, can_propose, needs_status_check>>
chainVars == <<parent, parent_anchor, foreign, safe_l1>>
anchorVars == <<anchor, anchor_error_count>>
outVars == <<request, live_pending, unsent, lost_flush>>
envVars == <<turn, seen, net, net_anchor, feed>>
vars == <<pc, state, outVars, anchorVars, chainVars, lookVars, envVars,
          stall, unchecked>>

-----------------------------------------------------------------------------
Down == {"starting", "panic_anchor", "panic_shift"}
LoopSteps == {"recv", "check_sequence", "check_propose", "refresh", "clear",
              "time_shift", "transition", "anchoring"}

-----------------------------------------------------------------------------
(* Operators named Faulty_X are X with one mistake: what the properties    *)
(* are meant to catch.  No action uses them.                               *)
Blocks(r) == IF r = None THEN {} ELSE r.start .. r.end
SizeOf(r) == IF r = None THEN 0 ELSE r.size

Faulty_NeedsAnchorRefresh(a) == FALSE
NeedsAnchorRefresh(a) == anchor # a

Older(age) == IF age < MaxTimeShift THEN age + 1 ELSE age

Goto(from, to) == pc = from /\ pc' = to

(* LivePending::add_pending, if there is a batch to send.                  *)
Faulty_PendingAfter(r) == IF r = None THEN live_pending ELSE live_pending - 1
PendingAfter(r) == IF r = None THEN live_pending ELSE live_pending + 1

(* send_batch_to_proposer, once it does not defer: r is the open batch and *)
(* owed the blocks owed at that point of the handler.                      *)
SendBatch(r, owed) ==
  /\ request' = None
  /\ live_pending' = PendingAfter(r)
  /\ unsent' = owed \ Blocks(r)
  /\ lost_flush' = FALSE

KeepBatch(r, owed) ==
  /\ request' = r
  /\ unsent' = owed
  /\ UNCHANGED <<live_pending, lost_flush>>

(* send_batch_to_proposer(_, true): a build in progress is told to seal,   *)
(* the batch stays open.                                                   *)
Faulty_SendBatchChecked == SendBatch(request, unsent) /\ UNCHANGED state

SendBatchChecked ==
  \/ /\ state # None
     /\ state' = [state EXCEPT !.seal = TRUE]
     /\ UNCHANGED outVars
  \/ /\ state = None
     /\ SendBatch(request, unsent)
     /\ UNCHANGED state

Init ==
  /\ pc = "starting"
  /\ state = None /\ request = None
  /\ anchor = 0 /\ anchor_error_count = 0
  /\ parent = 0 /\ parent_anchor = 0 /\ foreign = TRUE /\ safe_l1 = 1
  /\ can_sequence = FALSE /\ can_propose = FALSE
  /\ needs_status_check = TRUE
  /\ live_pending = 0
  /\ turn = "off" /\ seen = FALSE
  /\ net = 0 /\ net_anchor = 0 /\ feed = <<>> /\ stall = 0
  /\ unsent = {} /\ lost_flush = FALSE /\ unchecked = FALSE

-----------------------------------------------------------------------------
(* The process stops: its memory is lost, with the requests queued for the *)
(* proposer.  to says which of the two assertions failed, if any.          *)
Abort(to) ==
  /\ pc' = to
  /\ state' = None /\ request' = None
  /\ anchor' = 0 /\ anchor_error_count' = 0
  /\ parent' = 0 /\ parent_anchor' = 0 /\ foreign' = TRUE
  /\ can_sequence' = FALSE /\ can_propose' = FALSE
  /\ needs_status_check' = TRUE
  /\ live_pending' = 0 /\ stall' = 0

(* run(): the fetchers backfill L2 blocks up to the node's tip, and the    *)
(* loop starts once it has a parent block and enough L1 headers.           *)
Startup ==
  /\ pc \in Down /\ pc' = "recv"
  /\ parent' = net
  /\ parent_anchor' = net_anchor
  /\ foreign' = TRUE
  /\ feed' = <<>>
  /\ lost_flush' = FALSE /\ unchecked' = FALSE
  /\ UNCHANGED <<state, request, live_pending, unsent, anchorVars, safe_l1,
                 lookVars, turn, seen, net, net_anchor, stall>>

(* recv_blocks, L1 channel: new_l1_block moves the oldest kept header,     *)
(* forward as a rule, back in an L1 reorg deeper than l1_safe_lag.         *)
RecvL1 ==
  /\ pc = "recv"
  /\ safe_l1' \in 1 .. MaxL1
  /\ UNCHANGED <<pc, state, outVars, anchorVars, parent, parent_anchor,
                 foreign, lookVars, envVars, stall, unchecked>>

(* new_preconf_l2_block for a block with another hash than ours: it        *)
(* extends the chain or jumps ahead (missed blocks) and becomes the        *)
(* parent; or it replaces a known block, which truncates the headers and   *)
(* returns true, and the loop panics if the open batch is affected.  The   *)
(* parent's anchor is kept when the anchor call cannot be decoded          *)
(* (update_parent_block_id); a block without an anchor transaction, which  *)
(* would not become the parent, is left out.                               *)
Faulty_BreaksBatch(n) == FALSE
BreaksBatch(n) == n <= parent /\ request # None /\ n <= request.end

AdoptBlock(n, a) ==
  /\ unsent' = IF n <= parent THEN {b \in unsent : b < n} ELSE unsent
  /\ \/ BreaksBatch(n) /\ Abort("starting")
     \/ /\ ~BreaksBatch(n)
        /\ parent' = n
        /\ parent_anchor' \in {a, parent_anchor}
        /\ foreign' = TRUE
        /\ UNCHANGED <<pc, state, request, live_pending, anchorVars, lookVars,
                       stall>>
  /\ UNCHANGED <<lost_flush, safe_l1, turn, seen, unchecked>>

(* A block older than the parent that is not among the kept headers is     *)
(* only warned about ("may cause an unhandled reorg").                     *)
IgnoreBlock(n) ==
  /\ n < parent
  /\ UNCHANGED <<pc, state, outVars, anchorVars, chainVars, lookVars, turn,
                 seen, stall, unchecked>>

(* recv_blocks, L2 channel.                                                *)
RecvL2 ==
  /\ pc = "recv"
  /\ feed # <<>>
  /\ \/ AdoptBlock(Head(feed).number, Head(feed).anchor)
     \/ IgnoreBlock(Head(feed).number)
  /\ feed' = Tail(feed)
  /\ UNCHANGED <<net, net_anchor>>

(* The L2 node reorgs to a new block n and reports it.                     *)
RecvReorg ==
  /\ pc = "recv"
  /\ feed = <<>>
  /\ \E n \in 1 .. parent, a \in 1 .. MaxL1 :
       /\ AdoptBlock(n, a)
       /\ net' = n /\ net_anchor' = a
  /\ UNCHANGED feed

(* fetch_txs and handle_sims, as far as the loop sees them: a simulation   *)
(* result may end the block or invalidate the build.                       *)
HandleSims ==
  /\ Goto("recv", "check_sequence")
  /\ \/ UNCHANGED state
     \/ state # None /\ state' = [state EXCEPT !.seal = TRUE]
     \/ state # None /\ state' = [state EXCEPT !.discard = TRUE]
  /\ UNCHANGED <<outVars, anchorVars, chainVars, lookVars, envVars, stall,
                 unchecked>>

(* check_can_sequence; ok stands for "proposing and L1 are not delayed".   *)
CheckCanSequence ==
  /\ Goto("check_sequence", "check_propose")
  /\ \E ok \in BOOLEAN : can_sequence' = (ok /\ MaySequence(turn))
  /\ needs_status_check' =
       (needs_status_check \/ (can_sequence' /\ ~can_sequence))
  /\ seen' = TRUE
  /\ UNCHANGED <<state, outVars, anchorVars, chainVars, can_propose, turn,
                 net, net_anchor, feed, stall, unchecked>>

(* check_resync: the last block a Resync request covers.                   *)
Faulty_ResyncTarget == IF request = None THEN parent - 1 ELSE request.start - 1
ResyncTarget == IF request = None THEN parent ELSE request.start - 1

(* check_can_propose, with check_resync on the rising edge: from then on   *)
(* the blocks above L2 origin are owed, less those the Resync covers.      *)
(* l2_origin is what the origin poll last stored: any block the node knows.*)
CheckCanPropose ==
  /\ Goto("check_propose", "refresh")
  /\ can_propose' = MayPropose(turn)
  /\ \E l2_origin \in 0 .. net :
       unsent' = IF can_propose' /\ ~can_propose
                 THEN (l2_origin + 1 .. parent) \ (l2_origin + 1 .. ResyncTarget)
                 ELSE unsent
  /\ UNCHANGED <<state, request, live_pending, lost_flush, anchorVars,
                 chainVars, can_sequence, needs_status_check, envVars, stall,
                 unchecked>>

(* maybe_refresh_anchor and update_anchor; old: the anchor's age exceeds   *)
(* anchor_batch_lag.                                                       *)
Faulty_RefreshDue(old) == anchor = 0 \/ old \/ SizeOf(request) > TargetSize

RefreshDue(old) ==
  \/ anchor = 0
  \/ safe_l1 > anchor /\ (old \/ SizeOf(request) > TargetSize)

MaybeRefreshAnchor ==
  /\ Goto("refresh", "clear")
  /\ \E old \in BOOLEAN :
       \/ /\ can_sequence /\ RefreshDue(old)
          /\ anchor' = safe_l1
          /\ foreign' = (foreign /\ safe_l1 < parent_anchor)
          /\ SendBatchChecked
       \/ /\ ~(can_sequence /\ RefreshDue(old))
          /\ UNCHANGED <<state, outVars, anchor, foreign>>
  /\ UNCHANGED <<anchor_error_count, parent, parent_anchor, safe_l1, lookVars,
                 envVars, stall, unchecked>>

(* tick(): clear the open batch when another operator's turn approaches.   *)
ClearProposal ==
  /\ Goto("clear", "time_shift")
  /\ IF ShouldClearProposal(turn) THEN SendBatchChecked
                                  ELSE UNCHANGED <<state, outVars>>
  /\ UNCHANGED <<anchorVars, chainVars, lookVars, envVars, stall, unchecked>>

(* tick(): send the open batch when its time shift grows too long.         *)
Faulty_TimeShiftMargin == request # None /\ request.age > MaxTimeShift - 1
Faulty_NoTimeShiftCheck == FALSE
TimeShiftTooLong == request # None /\ request.age > TimeShiftLimit

CheckTimeShift ==
  /\ Goto("time_shift", "transition")
  /\ stall' = 0
  /\ IF TimeShiftTooLong THEN SendBatchChecked ELSE UNCHANGED <<state, outVars>>
  /\ UNCHANGED <<anchorVars, chainVars, lookVars, envVars, unchecked>>

-----------------------------------------------------------------------------
(* state_transition in Sync.                                               *)
ReadyToAnchor ==
  /\ safe_l1 >= parent_anchor
  /\ can_sequence
  /\ SizeOf(request) < TargetSize
  /\ parent < MaxBlock /\ live_pending < MaxPending

(* Any of the early returns.  The two timers (500 ms after a failed        *)
(* anchor, one block time after the last block) make it always possible.   *)
StaySync ==
  /\ Goto("transition", "recv")
  /\ state = None
  /\ UNCHANGED <<state, outVars, anchorVars, chainVars, lookVars, envVars,
                 stall, unchecked>>

(* get_status_block: the highest block the soft block endpoint knows.      *)
Faulty_StatusOk == net <= parent + 1
StatusOk == net <= parent

(* should_check_status, a timer of 2 s restarted by every check, is an     *)
(* input: the check is made, or skipped.  When the endpoint knows a higher *)
(* block or does not answer, the transition ends in StaySync.              *)
StatusPass ==
  /\ Goto("transition", "anchoring")
  /\ state = None /\ ReadyToAnchor
  /\ needs_status_check
  /\ StatusOk
  /\ needs_status_check' = FALSE
  /\ UNCHANGED <<state, outVars, anchorVars, chainVars, can_sequence,
                 can_propose, envVars, stall, unchecked>>

StatusSkip ==
  /\ Goto("transition", "anchoring")
  /\ state = None /\ ReadyToAnchor
  /\ UNCHANGED <<state, outVars, anchorVars, chainVars, lookVars, envVars,
                 stall, unchecked>>

(* anchor_block succeeds: a new SortData on the parent, timestamped one    *)
(* block time ahead.                                                       *)
StartBlock ==
  [block |-> parent + 1, anchor |-> anchor,
   shift |-> IF request = None THEN 0 ELSE request.age + TargetBlockTime,
   age |-> -TargetBlockTime, seal |-> FALSE, discard |-> FALSE]

AnchorBlock ==
  /\ Goto("anchoring", "recv")
  /\ state = None /\ anchor # 0
  /\ state' = StartBlock
  /\ anchor_error_count' = 0
  /\ unchecked' = (unchecked \/ (needs_status_check /\ parent < net))
  /\ UNCHANGED <<outVars, anchor, chainVars, lookVars, envVars,
                 stall>>

AnchorFails ==
  /\ Goto("anchoring", "recv")
  /\ state = None /\ anchor_error_count < MaxAnchorErrors
  /\ anchor_error_count' = anchor_error_count + 1
  /\ UNCHANGED <<state, outVars, anchor, chainVars, lookVars, envVars, stall,
                 unchecked>>

-----------------------------------------------------------------------------
(* state_transition in Sorting: discard first, then seal, else go on.      *)
DiscardBlock ==
  /\ Goto("transition", "recv")
  /\ state # None /\ state.discard
  /\ IF NeedsAnchorRefresh(state.anchor) THEN SendBatch(request, unsent)
                                         ELSE UNCHANGED outVars
  /\ state' = None
  /\ UNCHANGED <<anchorVars, chainVars, lookVars, envVars, stall, unchecked>>

(* should_seal: told to, or past the target time with enough orders; past  *)
(* the last skip it must.                                                  *)
MaySeal == state # None /\ ~state.discard /\ (state.seal \/ state.age >= 0)
MustSeal ==
  state.discard \/ state.seal \/ state.age >= MaxBlockSkips * TargetBlockTime

KeepSorting ==
  /\ Goto("transition", "recv")
  /\ state # None /\ ~MustSeal
  /\ UNCHANGED <<state, outVars, anchorVars, chainVars, lookVars, envVars,
                 stall, unchecked>>

(* The open batch after the sealed block joins it.                         *)
ExtendedBatch(size) ==
  LET first == request = None
  IN  [anchor |-> IF first THEN state.anchor ELSE request.anchor,
       start  |-> IF first THEN state.block ELSE request.start,
       end    |-> state.block,
       len    |-> IF first THEN 1 ELSE request.len + 1,
       size   |-> SizeOf(request) + size,
       age    |-> state.age]

AnchorMismatch == request # None /\ request.anchor # state.anchor
ShiftOverflow == request # None /\ state.shift > MaxTimeShift

(* seal_block succeeds: sealed, gossiped, adopted as parent (unless it is  *)
(* older than the parent that arrived meanwhile, see IgnoreBlock), added   *)
(* to the batch, which is sent if the next block will use another anchor.  *)
SealBlock ==
  /\ Goto("transition", "recv")
  /\ MaySeal
  /\ ~AnchorMismatch /\ ~ShiftOverflow
  /\ \E size \in BlockSizes :
       LET r == ExtendedBatch(size)
           owed == {b \in unsent : b < state.block} \cup {state.block}
       IN  IF NeedsAnchorRefresh(state.anchor) THEN SendBatch(r, owed)
                                               ELSE KeepBatch(r, owed)
  /\ \/ parent' = state.block /\ parent_anchor' = state.anchor
        /\ foreign' = FALSE
     \/ state.block < parent /\ UNCHANGED <<parent, parent_anchor, foreign>>
  /\ net' = state.block /\ net_anchor' = state.anchor
  /\ state' = None
  /\ UNCHANGED <<anchorVars, safe_l1, lookVars, turn, seen, feed,
                 stall, unchecked>>

(* seal_block fails softly: the soft block endpoint refuses the block, or  *)
(* the simulator answers "block is nil".  The build is dropped; the open   *)
(* batch is not looked at.                                                 *)
SealRefused ==
  /\ Goto("transition", "recv")
  /\ MaySeal
  /\ state' = None
  /\ lost_flush' = (lost_flush \/
                      (request # None /\ NeedsAnchorRefresh(state.anchor)))
  /\ UNCHANGED <<request, live_pending, unsent, anchorVars, chainVars,
                 lookVars, envVars, stall, unchecked>>

(* seal_block panics after the block was gossiped: on its two assertions,  *)
(* or (to "starting") on an error that came too late.                      *)
SealPanics ==
  /\ pc = "transition"
  /\ MaySeal
  /\ \/ AnchorMismatch /\ Abort("panic_anchor")
     \/ ~AnchorMismatch /\ ShiftOverflow /\ Abort("panic_shift")
     \/ Abort("starting")
  /\ net' = state.block /\ net_anchor' = state.anchor
  /\ unsent' = {b \in unsent : b < state.block} \cup {state.block}
  /\ UNCHANGED <<lost_flush, safe_l1, turn, seen, feed, unchecked>>

-----------------------------------------------------------------------------
(* The process stops for a cause outside the loop, or on a panic that      *)
(* leaves no trace outside: a failed simulation, too many anchor errors,   *)
(* a failed seal, a mismatch of an origin block.                           *)
Crash ==
  /\ pc \in LoopSteps
  /\ Abort("starting")
  /\ UNCHANGED <<safe_l1, envVars, unsent, lost_flush, unchecked>>

(* Time passes where the loop blocks: in recv_blocks and in the RPCs of a  *)
(* transition.  In Sync a transition takes at most MaxStall.               *)
Tick ==
  /\ pc \in {"recv", "transition", "anchoring"}
  /\ \/ pc # "recv" /\ state = None /\ stall < MaxStall /\ stall' = stall + 1
     \/ (pc = "recv" \/ state # None) /\ UNCHANGED stall
  /\ request' = IF request = None THEN None
                ELSE [request EXCEPT !.age = Older(@)]
  /\ state' = IF state = None THEN None ELSE [state EXCEPT !.age = Older(@)]
  /\ UNCHANGED <<pc, live_pending, unsent, lost_flush, anchorVars, chainVars,
                 lookVars, envVars, unchecked>>

(* The lookahead moves on.  Two assumptions on the deployment: the loop    *)
(* reads every phase at least once, and the handover buffer is long enough *)
(* for this gateway to finish its block and send its batch before another  *)
(* operator starts to build.                                               *)
TurnStep ==
  /\ turn' \in FollowingTurns[turn]
  /\ seen \/ pc \in Down
  /\ PeersActive(turn') => state = None /\ request = None
  /\ seen' = FALSE
  /\ UNCHANGED <<pc, state, outVars, anchorVars, chainVars, lookVars, net,
                 net_anchor, feed, stall, unchecked>>

(* Another gateway builds on the tip, with an anchor of its own.           *)
PeerBlock ==
  /\ PeersActive(turn)
  /\ net < MaxBlock /\ Len(feed) < MaxFeed
  /\ net' = net + 1
  /\ net_anchor' \in net_anchor .. MaxL1
  /\ feed' = Append(feed, [number |-> net', anchor |-> net_anchor'])
  /\ UNCHANGED <<pc, state, outVars, anchorVars, chainVars, lookVars, turn,
                 seen, stall, unchecked>>

(* A dropped subscription loses a block: the fetcher does not backfill.    *)
FeedLoses ==
  /\ feed # <<>>
  /\ feed' = Tail(feed)
  /\ UNCHANGED <<pc, state, outVars, anchorVars, chainVars, lookVars, turn,
                 seen, net, net_anchor, stall, unchecked>>

(* The proposer is done with a batch.                                      *)
ProposalDone ==
  /\ live_pending > 0
  /\ live_pending' = live_pending - 1
  /\ UNCHANGED <<pc, state, request, unsent, lost_flush, anchorVars, chainVars,
                 lookVars, envVars, stall, unchecked>>

-----------------------------------------------------------------------------
LoopStep ==
  \/ Startup
  \/ HandleSims
  \/ CheckCanSequence
  \/ CheckCanPropose
  \/ MaybeRefreshAnchor
  \/ ClearProposal
  \/ CheckTimeShift
  \/ StaySync
  \/ StatusPass
  \/ StatusSkip
  \/ AnchorBlock
  \/ AnchorFails
  \/ DiscardBlock
  \/ KeepSorting
  \/ SealBlock
  \/ SealRefused
  \/ SealPanics

Receive == RecvL1 \/ RecvL2 \/ RecvReorg

Environment ==
  \/ Crash
  \/ Tick
  \/ TurnStep
  \/ PeerBlock
  \/ FeedLoses
  \/ ProposalDone

Next == LoopStep \/ Receive \/ Environment

Spec == Init /\ [][Next]_vars

(* Fairness.  That every RPC of the loop returns is an assumption on the   *)
(* endpoints, not something the code enforces: the soft block and status   *)
(* requests use a client without a timeout (sequencer.rs:815 and 846).     *)
(* Time keeps passing while the loop blocks (strong fairness: it blocks    *)
(* again and again, not continuously).                                     *)
EndpointsAnswer == WF_vars(LoopStep)
TimePasses == SF_vars(Tick)
FairSpec == Spec /\ EndpointsAnswer /\ TimePasses

-----------------------------------------------------------------------------
(* Every variable keeps the type the code gives it.                        *)
TypeOK ==
  /\ pc \in LoopSteps \cup Down
  /\ state \in SortData \cup {None}
  /\ request \in Batch \cup {None}
  /\ anchor \in Nat /\ anchor_error_count \in Nat /\ live_pending \in Nat
  /\ parent \in Nat /\ parent_anchor \in Nat /\ safe_l1 \in Nat
  /\ net \in Nat /\ net_anchor \in Nat /\ stall \in Nat
  /\ can_sequence \in BOOLEAN /\ can_propose \in BOOLEAN
  /\ needs_status_check \in BOOLEAN /\ seen \in BOOLEAN
  /\ lost_flush \in BOOLEAN /\ unchecked \in BOOLEAN /\ foreign \in BOOLEAN
  /\ turn \in Turns
  /\ feed \in Seq(FeedBlock)
  /\ unsent \subseteq Nat

(* The open batch always belongs to the anchor that its next block will    *)
(* have: the one the block in construction was anchored with, else         *)
(* ctx.anchor.  It is what the assertion in seal_block (sequencer.rs:735)  *)
(* relies on.  The exception is a batch left open by a failed seal after   *)
(* the anchor was refreshed: only then can the assertion fail.             *)
AnchorAgreement ==
  /\ request # None /\ ~lost_flush =>
       request.anchor = IF state = None THEN anchor ELSE state.anchor
  /\ pc = "panic_anchor" => lost_flush

(* The comment at sequencer.rs:498 ("timeShift is at most 255 secs"): as   *)
(* long as no call between the time shift check and the anchoring blocks   *)
(* for more than MaxTimeShift - TimeShiftLimit - TargetBlockTime, sealing  *)
(* never meets a time shift that does not fit in a u8.  That bound is an   *)
(* assumption: the status request between the two has no timeout.          *)
TimeShiftFits == pc # "panic_shift"

(* The blocks of the open batch are consecutive and end at the parent, so  *)
(* that the L1 derives from its block_params the very blocks that were     *)
(* gossiped: no block of another gateway ever lands between two of ours.   *)
(* It needs the handover buffer to be long enough (see TurnStep), and the  *)
(* first block of the turn to have been built on the network's tip.        *)
BatchContiguous ==
  request # None /\ ~unchecked /\ pc \notin Down =>
    /\ request.len = request.end - request.start + 1
    /\ request.end = parent

(* While this gateway may propose, every block above L2 origin that it     *)
(* knew when its turn began, or sealed since, is in the open batch or was  *)
(* handed to the proposer: the Resync of check_resync covers what an       *)
(* earlier turn, another operator or a crashed process left behind.        *)
TakeoverCovered ==
  can_propose /\ ~unchecked /\ pc \notin Down => unsent \subseteq Blocks(request)

Anchors == state = None /\ state' # None

(* Once a status check has passed in the current turn, no block is built   *)
(* behind the tip the network knows.  It says nothing of a block built     *)
(* within 2 s of a check that failed, which the code lets through although *)
(* the warning at sequencer.rs:271 says "waiting 2s" (see README).         *)
BuildsOnTip ==
  [][Anchors /\ ~needs_status_check /\ ~unchecked => parent >= net]_vars

(* A batch that a block in construction is going to join is never sent     *)
(* before that block is sealed or discarded ("avoid breaking the batch     *)
(* while sorting", sequencer.rs:787).                                      *)
BatchUnbroken ==
  [][state # None /\ state' # None /\ request # None => request' # None]_vars

(* The loop implements Batching: over its deferred flushes, discards,      *)
(* failed seals and panics a batch grows only by its own blocks, is handed *)
(* over once and whole, and is lost only with the process.                 *)
OpenBatch(r) ==
  IF r = None THEN None
  ELSE [anchor |-> r.anchor, start |-> r.start, end |-> r.end, len |-> r.len]

Building(s) ==
  IF s = None THEN None ELSE [block |-> s.block, anchor |-> s.anchor]

Batches == INSTANCE Batching WITH open <- OpenBatch(request),
                                  building <- Building(state),
                                  pending <- live_pending

BatchesWhole == Batches!Spec

(* A block is anchored behind its parent only if the parent is not a block *)
(* of this process and no refresh has caught up with the parent's anchor.  *)
(* state_transition compares the safe L1 block, not ctx.anchor, with the   *)
(* parent's anchor (sequencer.rs:220), and maybe_refresh_anchor ignores    *)
(* the parent: over refreshes, failed seals, L1 reorgs and blocks of other *)
(* gateways, the blocks this process chains on its own never step back.    *)
AnchorNotBehindParent ==
  [][Anchors /\ ~foreign => state'.anchor >= parent_anchor]_vars

(* An open batch does not stay as it is: it is handed over or its last     *)
(* block changes, whatever the block in construction comes to.  When no    *)
(* block joins it, its time shift sends it; while blocks keep joining, it  *)
(* is the anchor's age, its size or the handover that does, for the time   *)
(* shift is then only noted for the block in construction                  *)
(* (sequencer.rs:785-790).  In the handover window it is handed over.      *)
BatchFlushed ==
  /\ \A n \in 1 .. MaxBlock :
       (request # None /\ request.end = n) ~> (request = None \/ request.end # n)
  /\ (request # None /\ turn = "clearing") ~>
       (request = None \/ turn # "clearing")

-----------------------------------------------------------------------------
(* Statement of an assertion that the code does not keep.                  *)

(* sequencer.rs:735, assert_eq!(request.anchor_block_id, ..block_id).      *)
NoAnchorAssertion == pc # "panic_anchor"

=============================================================================
