------------------------------ MODULE Proposer ------------------------------
(***************************************************************************)
(* The proposer (crates/proposer/src/manager.rs, client.rs): one task that *)
(* lands on L1, one transaction after the other, the batches the sequencer *)
(* hands over and those it makes itself of the L2 blocks that a Resync     *)
(* finds missing.  It retries, replaces its transaction at higher fees,    *)
(* and when it cannot go on aborts the process.                            *)
(*                                                                         *)
(* Environment: the sequencer and other gateways (L2 blocks and requests), *)
(* the L1 chain with the inbox and router contracts, its mempool and block *)
(* builders, L1 reorgs, RPC errors, and crashes of the whole process.      *)
(* Fees are left out: a transaction is its nonce, its batch and whether it *)
(* is the last one sent for it.                                            *)
(***************************************************************************)
EXTENDS Integers, Sequences, FiniteSets, SequencesExt

CONSTANTS
  None,               (* no transaction, no batch, no nonce used yet       *)
  TargetSize,         (* batch_target_size                                 *)
  MaxPerBatch,        (* max_blocks_per_batch                              *)
  MaxRetries,         (* 3                                                 *)
  Sizes,              (* the compressed sizes blocks may have              *)
  MaxBlock,           (* bound: L2 block numbers                           *)
  MaxAnchor,          (* bound: anchor block ids                           *)
  MaxNonce,           (* bound: nonces of the operator's account           *)
  MaxQueue            (* bound: requests waiting                           *)

ASSUME SizeAssumption == Sizes \subseteq Nat
ASSUME LimitAssumption ==
  {TargetSize, MaxPerBatch, MaxRetries} \subseteq Nat \ {0}
ASSUME ProposerBounds ==
  {MaxBlock, MaxAnchor, MaxNonce, MaxQueue} \subseteq Nat

(* ProposeBatchParams, bns the numbers of the n blocks it holds, and       *)
(* ProposalRequest with the blocks of a Resync.                            *)
Batch == [start: Nat, end: Nat, n: Nat, bns: SUBSET Nat]
Request == [resync: BOOLEAN, start: Nat, end: Nat, n: Nat]
BlocksOf(r) == r.start .. r.end

Tx == [nonce: Nat, start: Nat, end: Nat, n: Nat, bns: SUBSET Nat, last: BOOLEAN]

ASSUME NoneAssumption == None \notin Nat \cup Batch \cup Request \cup Tx

VARIABLES
  queue,              (* new_blocks_rx                                     *)
  job,                (* the Resync to verify when proposed, or None       *)
  groups,             (* its blocks still to be made requests of           *)
  rest,               (* its requests still to be proposed                 *)
  excused,            (* history: anchors go down over its blocks, and the *)
                      (* validation was not to notice or has noticed       *)
  batch,              (* the batch propose_batch is at, or None            *)
  pc,                 (* where it is                                       *)
  retries,            (* as in propose_batch                               *)
  last_used_nonce,    (* None for u64::MAX                                 *)
  live_pending,       (* LivePending                                       *)
  delayed,            (* IS_PROPOSE_DELAYED                                *)
  checks,             (* transactions a reorg_check watches                *)
  owed,               (* history: blocks handed over and not given up      *)
  l1_reorged,         (* history: L1 has undone an inclusion (bound: once) *)
  blocks,             (* L2: anchor and size of each block                 *)
  my_turn,            (* L1: the router takes batches of this operator     *)
  inbox,              (* L1: the last proposed L2 block                    *)
  nonce,              (* L1: the account's nonce                           *)
  pool,               (* L1: our transactions that may still be included   *)
  included            (* L1: inclusions a reorg may undo, in order         *)

jobVars == <<queue, job, groups, rest, excused>>
batchVars == <<batch, pc, retries, last_used_nonce>>
flagVars == <<live_pending, delayed, checks>>
l1Vars == <<my_turn, inbox, nonce, pool, included, l1_reorged>>
vars == <<jobVars, batchVars, flagVars, l1Vars, owed, blocks>>

Init ==
  /\ queue = <<>> /\ job = None /\ groups = {} /\ rest = <<>>
  /\ excused = FALSE
  /\ batch = None /\ pc = "recv" /\ retries = 0 /\ last_used_nonce = None
  /\ live_pending = 0 /\ delayed = FALSE /\ checks = {}
  /\ owed = {} /\ l1_reorged = FALSE
  /\ blocks = <<>>
  /\ my_turn = TRUE /\ inbox = 0 /\ nonce = 0
  /\ pool = {} /\ included = <<>>

(* The process aborts and starts again; L1 keeps what was sent, nothing of *)
(* which is the last of a batch at hand.                                   *)
Old(t) == IF t = None THEN t ELSE [t EXCEPT !.last = FALSE]

Restart ==
  /\ queue' = <<>> /\ job' = None /\ groups' = {} /\ rest' = <<>>
  /\ excused' = FALSE
  /\ batch' = None /\ pc' = "recv" /\ retries' = 0
  /\ last_used_nonce' = None
  /\ live_pending' = 0 /\ delayed' = FALSE /\ checks' = {}
  /\ owed' = {}
  /\ pool' = {Old(t) : t \in pool}
  /\ included' = [i \in DOMAIN included |-> [included[i] EXCEPT !.tx = Old(@)]]
  /\ UNCHANGED <<my_turn, inbox, nonce, l1_reorged, blocks>>

-----------------------------------------------------------------------------
(* The sequencer hands over a batch of new blocks of one anchor, which may *)
(* be lower than the parent's: it is the one our context last took.  There *)
(* are no more than MaxPerBatch of them: nothing counts them, but the      *)
(* anchor is too old before.                                               *)
Anchors == 0 .. MaxAnchor

NewBlocks(k, anchor) ==
  /\ Len(blocks) + k <= MaxBlock
  /\ \E s \in [1 .. k -> Sizes] :
       blocks' = blocks \o [i \in 1 .. k |-> [anchor |-> anchor, size |-> s[i]]]

SendBatch ==
  /\ Len(queue) < MaxQueue
  /\ \E k \in 1 .. MaxPerBatch, anchor \in Anchors :
       /\ NewBlocks(k, anchor)
       /\ queue' = Append(queue, [resync |-> FALSE, start |-> Len(blocks) + 1,
                                  end |-> Len(blocks) + k, n |-> k])
       /\ owed' = owed \cup Len(blocks) + 1 .. Len(blocks) + k
  /\ live_pending' = live_pending + 1
  /\ UNCHANGED <<job, groups, rest, excused, batchVars, delayed, checks,
                 l1Vars>>

(* A block of another gateway, or of an open batch lost with the process.  *)
OtherBlock ==
  /\ \E anchor \in Anchors : NewBlocks(1, anchor)
  /\ UNCHANGED <<jobVars, batchVars, flagVars, l1Vars, owed>>

(* check_resync, once per turn or start (either may be short), from an     *)
(* origin that may be stale.                                               *)
RequestResync ==
  /\ my_turn /\ Len(queue) < MaxQueue
  /\ \E origin \in 0 .. inbox :
       /\ origin < Len(blocks)
       /\ queue' = Append(queue, [resync |-> TRUE, start |-> origin + 1,
                                  end |-> Len(blocks), n |-> 0])
       /\ owed' = owed \cup origin + 1 .. Len(blocks)
  /\ UNCHANGED <<job, groups, rest, excused, batchVars, flagVars, l1Vars,
                 blocks>>

-----------------------------------------------------------------------------
(* request_from_blocks: the blocks, by anchor and number, each in the last *)
(* request or, when it does not fit there, in a new one.  The compressed   *)
(* size of several is the sum of theirs.                                   *)
InAnchor(bns, a) == {bn \in bns : blocks[bn].anchor = a}
AnchorOf(bns) == Min({blocks[bn].anchor : bn \in bns})

Before(i, j) ==
  \/ blocks[i].anchor < blocks[j].anchor
  \/ blocks[i].anchor = blocks[j].anchor /\ i < j

FirstOf(bns) == CHOOSE bn \in bns : \A other \in bns \ {bn} : Before(bn, other)

NewRequest(bn) == [start |-> bn, end |-> bn, n |-> 0, bns |-> {}, size |-> 0]

WithBlock(cur, bn) ==
  [cur EXCEPT !.end = bn, !.n = @ + 1, !.bns = @ \cup {bn},
              !.size = @ + blocks[bn].size]

Full(cur, bn) == cur.size + blocks[bn].size > TargetSize \/ cur.n >= MaxPerBatch

Added(made, bn) ==
  IF Full(Last(made), bn)
  THEN Append(made, WithBlock(NewRequest(bn), bn))
  ELSE [made EXCEPT ![Len(made)] = WithBlock(@, bn)]

AddedUpTo(before, bns) ==
  LET made[k \in 0 .. Len(blocks)] ==
        IF k = 0 THEN before
        ELSE IF k \in bns THEN Added(made[k - 1], k)
        ELSE made[k - 1]
  IN  made

RequestsBelow(bns) ==
  LET made[a \in 0 .. MaxAnchor + 1] ==
        IF a = 0 THEN <<NewRequest(FirstOf(bns))>>
        ELSE AddedUpTo(made[a - 1], InAnchor(bns, a - 1))[Len(blocks)]
  IN  made

RequestsFrom(bns) ==
  LET made == RequestsBelow(bns)[MaxAnchor + 1]
  IN  [i \in DOMAIN made |-> [start |-> made[i].start, end |-> made[i].end,
                              n |-> made[i].n, bns |-> made[i].bns]]

(* resync: the blocks of one anchor are one batch; these are proposed as   *)
(* they are, or all blocks together on a new anchor if L1 would reorg any  *)
(* of them.                                                                *)
ByAnchor(bns) == {InAnchor(bns, a) : a \in {blocks[bn].anchor : bn \in bns}}
AllTogether(bns) == {bns}

(* validate_batch_params for the batches checked: none has too many blocks *)
(* or an anchor below that of the block before the Resync, and in order of *)
(* anchors none starts at an earlier time than the one before ended, which *)
(* tells nothing if blocks are tied, in one second.  How old an anchor and *)
(* a timestamp may be is a choice.                                         *)
Fits(bns, checked) ==
  \A g \in checked :
    /\ Cardinality(g) <= MaxPerBatch
    /\ Min(bns) > 1 => blocks[Min(bns) - 1].anchor <= AnchorOf(g)

InOrder(checked) ==
  \A g, h \in checked :
    AnchorOf(g) < AnchorOf(h) => \A i \in g, j \in h : i < j

Faulty_Validated(bns, checked, tied) == Fits(bns, checked)
Validated(bns, checked, tied) ==
  Fits(bns, checked) /\ (~tied => InOrder(checked))

(* A batch that seems to be in the mempool is not checked.                 *)
MaybePending(g) == \E t \in pool : t.start = Min(g) /\ t.end = Max(g)

AnchorsGrow(bns) ==
  \A i, j \in bns : i < j => blocks[i].anchor <= blocks[j].anchor

AsTheyAre(bns) ==
  \E pending \in SUBSET {g \in ByAnchor(bns) : MaybePending(g)},
     tied \in BOOLEAN :
    /\ Validated(bns, ByAnchor(bns) \ pending, tied)
    /\ excused' = (~AnchorsGrow(bns) /\ (tied \/ pending # {}))

(* The first may have to be done again, the second not.                    *)
StartResync(r) ==
  \/ /\ AsTheyAre(BlocksOf(r))
     /\ groups' = ByAnchor(BlocksOf(r)) /\ job' = r
  \/ /\ groups' = AllTogether(BlocksOf(r)) /\ job' = None
     /\ excused' = ~AnchorsGrow(BlocksOf(r))

(* run: the next request; a Resync starts with the blocks fetched.         *)
Idle == pc = "recv" /\ job = None /\ groups = {} /\ rest = <<>>

RecvBatch ==
  /\ Idle /\ queue # <<>> /\ ~Head(queue).resync
  /\ LET r == Head(queue)
     IN  batch' = [start |-> r.start, end |-> r.end, n |-> r.n,
                   bns |-> BlocksOf(r)]
  /\ pc' = "nonce" /\ queue' = Tail(queue) /\ excused' = FALSE
  /\ UNCHANGED <<job, groups, rest, retries, last_used_nonce, flagVars, l1Vars,
                 owed, blocks>>

RecvResync ==
  /\ Idle /\ queue # <<>> /\ Head(queue).resync
  /\ StartResync(Head(queue))
  /\ queue' = Tail(queue)
  /\ UNCHANGED <<rest, batchVars, flagVars, l1Vars, owed, blocks>>

(* The requests of the next anchor, then one after the other.              *)
Faulty_Counted(n) == live_pending
Counted(n) == live_pending + n

NextGroup ==
  /\ pc = "recv" /\ rest = <<>>
  /\ \E g \in groups :
       /\ \A other \in groups \ {g} : AnchorOf(g) < AnchorOf(other)
       /\ rest' = RequestsFrom(g)
       /\ groups' = groups \ {g}
  /\ live_pending' = Counted(Len(rest'))
  /\ UNCHANGED <<queue, job, excused, batchVars, delayed, checks, l1Vars, owed,
                 blocks>>

NextInGroup ==
  /\ pc = "recv" /\ rest # <<>>
  /\ batch' = Head(rest) /\ rest' = Tail(rest)
  /\ pc' = "nonce"
  /\ UNCHANGED <<queue, job, groups, excused, retries, last_used_nonce,
                 flagVars, l1Vars, owed, blocks>>

(* All are proposed, by anchor.  A block that cannot be fetched again to   *)
(* be verified starts the whole Resync again.                              *)
EndResync ==
  /\ pc = "recv" /\ job # None /\ groups = {} /\ rest = <<>>
  /\ \/ job' = None /\ UNCHANGED <<groups, excused>>
     \/ StartResync(job)
  /\ UNCHANGED <<queue, rest, batchVars, flagVars, l1Vars, owed, blocks>>

-----------------------------------------------------------------------------
(* propose_batch: an attempt ends in the next one, for one of the reasons  *)
(* that are not counted; or in an error, which is, up to the panic; or the *)
(* batch is done, proposed or given up.                                    *)
Again ==
  /\ pc' = "nonce"
  /\ UNCHANGED <<batch, retries, flagVars, owed>>

Fails ==
  /\ retries + 1 < MaxRetries
  /\ retries' = retries + 1 /\ delayed' = TRUE
  /\ pc' = "nonce"
  /\ UNCHANGED <<batch, live_pending, checks, owed>>

Faulty_DelayedAfter == delayed
DelayedAfter == FALSE

Done(watched, dropped) ==
  /\ live_pending' = live_pending - 1
  /\ delayed' = DelayedAfter
  /\ checks' = checks \cup watched
  /\ owed' = owed \ dropped
  /\ batch' = None /\ pc' = "recv" /\ retries' = 0

GiveUp == Done({}, batch.bns) /\ last_used_nonce' = None

(* An error of any RPC, or a revert the code does not handle in the gas    *)
(* estimation; the last one is the panic.                                  *)
Attempting == pc \in {"nonce", "send", "wait"}

RpcError ==
  /\ Attempting
  /\ Fails
  /\ UNCHANGED <<jobVars, last_used_nonce, l1Vars, blocks>>

LastRetryFails ==
  /\ Attempting /\ retries + 1 = MaxRetries
  /\ Restart

(* get_nonce: a higher one than last time tells that a transaction of ours *)
(* was included.                                                           *)
Faulty_AccountNonce == nonce + Cardinality({t.nonce : t \in pool})
AccountNonce == nonce

NoncePassed == last_used_nonce # None /\ AccountNonce > last_used_nonce

GetNonce ==
  /\ pc = "nonce"
  /\ \/ NoncePassed /\ GiveUp
     \/ /\ ~NoncePassed
        /\ last_used_nonce' = AccountNonce
        /\ pc' = "send"
        /\ UNCHANGED <<batch, retries, flagVars, owed>>
  /\ UNCHANGED <<jobVars, l1Vars, blocks>>

(* What the router and the inbox answer to a batch.                        *)
Accepts(b) == my_turn /\ b.n > 0 /\ inbox + b.n = b.end
AlreadyAhead(b) == inbox + b.n > b.end

(* The gas estimation meets the contracts: give up if it is not our turn,  *)
(* or if the last block id would be higher than expected.                  *)
GasEstimationGivesUp ==
  /\ pc = "send"
  /\ ~my_turn \/ (batch.n > 0 /\ AlreadyAhead(batch))
  /\ GiveUp
  /\ UNCHANGED <<jobVars, l1Vars, blocks>>

(* The last block's timestamp is still ahead of L1, or the fees do not     *)
(* replace the transaction in the mempool.                                 *)
SendAgain ==
  /\ pc = "send" /\ Accepts(batch)
  /\ Again
  /\ UNCHANGED <<jobVars, last_used_nonce, l1Vars, blocks>>

(* Sent, to the builders and to the mempool, with other fees than before.  *)
(* One of the transactions it replaces may still be included.              *)
AtHand(last) == [nonce |-> last_used_nonce, start |-> batch.start,
                 end |-> batch.end, n |-> batch.n, bns |-> batch.bns,
                 last |-> last]

Replaced ==
  {IF t = AtHand(TRUE) THEN AtHand(FALSE) ELSE t :
     t \in {u \in pool : u.nonce = last_used_nonce}}

Sent ==
  /\ pc = "send" /\ Accepts(batch) /\ nonce <= last_used_nonce
  /\ \E old \in {{t} : t \in Replaced} \cup {Replaced \ Replaced} :
       /\ old = {} => Replaced = {}
       /\ pool' = {t \in pool : t.nonce # last_used_nonce}
                  \cup old \cup {AtHand(TRUE)}
  /\ pc' = "wait"
  /\ UNCHANGED <<jobVars, batch, retries, last_used_nonce, flagVars, my_turn,
                 inbox, nonce, included, l1_reorged, owed, blocks>>

Landed(ok) ==
  \E i \in DOMAIN included :
    included[i].tx = AtHand(TRUE) /\ included[i].ok = ok

(* No receipt for a few blocks: again, with higher fees.                   *)
NotIncluded ==
  /\ pc = "wait" /\ ~Landed(TRUE) /\ ~Landed(FALSE)
  /\ Again
  /\ UNCHANGED <<jobVars, last_used_nonce, l1Vars, blocks>>

(* Its receipt: proposed, and watched; or reverted, an error, and the next *)
(* attempt takes any nonce.                                                *)
Faulty_Watched == {}
Watched == {AtHand(TRUE)}

Proposed ==
  /\ pc = "wait" /\ Landed(TRUE)
  /\ Done(Watched, {}) /\ last_used_nonce' = None
  /\ UNCHANGED <<jobVars, l1Vars, blocks>>

Reverted ==
  /\ pc = "wait" /\ Landed(FALSE)
  /\ Fails
  /\ last_used_nonce' = None
  /\ UNCHANGED <<jobVars, l1Vars, blocks>>

(* reorg_check, one safe lag after the receipt: it passes if there still   *)
(* is a receipt, of whatever status, and panics otherwise.                 *)
Earliest(t) == t \in checks /\ \A u \in checks : t.nonce <= u.nonce

ReorgCheckPasses ==
  \E t \in checks, i \in DOMAIN included :
    /\ Earliest(t) /\ included[i].tx = t
    /\ checks' = checks \ {t}
    /\ included' = SubSeq(included, i + 1, Len(included))
    /\ owed' = owed \ t.bns
    /\ UNCHANGED <<jobVars, batchVars, live_pending, delayed, my_turn, inbox,
                   nonce, pool, l1_reorged, blocks>>

ReorgCheckFails ==
  /\ \E t \in checks :
       Earliest(t) /\ \A i \in DOMAIN included : included[i].tx # t
  /\ Restart

-----------------------------------------------------------------------------
(* L1 includes a transaction; it may revert for other reasons too.         *)
Include ==
  /\ nonce + (IF l1_reorged THEN 1 ELSE 0) < MaxNonce
  /\ \E t \in pool, ok \in BOOLEAN :
       /\ t.nonce = nonce /\ (ok => Accepts(t))
       /\ inbox' = IF ok THEN t.end ELSE inbox
       /\ included' = Append(included, [tx |-> t, ok |-> ok, before |-> inbox])
  /\ nonce' = nonce + 1
  /\ pool' = {t \in pool : t.nonce > nonce}
  /\ UNCHANGED <<jobVars, batchVars, flagVars, my_turn, l1_reorged, owed,
                 blocks>>

(* Another operator proposes, blocks we handed over or not.                *)
PeerProposes ==
  /\ ~my_turn /\ \A i \in DOMAIN included : included[i].tx # None
  /\ inbox' \in inbox + 1 .. Len(blocks)
  /\ included' = Append(included, [tx |-> None, ok |-> TRUE, before |-> inbox])
  /\ UNCHANGED <<jobVars, batchVars, flagVars, my_turn, nonce, pool,
                 l1_reorged, owed, blocks>>

TurnChanges ==
  /\ my_turn' = ~my_turn
  /\ UNCHANGED <<jobVars, batchVars, flagVars, inbox, nonce, pool, included,
                 l1_reorged, owed, blocks>>

(* An L1 reorg undoes the last inclusion, if it is one whose receipt we    *)
(* have seen (any other is to us as if it came later); the transaction is  *)
(* back in the mempool, where it may stay for ever.                        *)
L1Reorg ==
  /\ ~l1_reorged /\ included # <<>> /\ Last(included).tx \in checks
  /\ inbox' = Last(included).before
  /\ nonce' = nonce - 1
  /\ pool' = pool \cup {Last(included).tx}
  /\ included' = Front(included)
  /\ l1_reorged' = TRUE
  /\ UNCHANGED <<jobVars, batchVars, flagVars, my_turn, owed, blocks>>

Crash == Restart

Process ==
  \/ RecvBatch
  \/ RecvResync
  \/ NextGroup
  \/ NextInGroup
  \/ EndResync
  \/ GetNonce
  \/ GasEstimationGivesUp
  \/ SendAgain
  \/ Sent
  \/ NotIncluded
  \/ Proposed
  \/ Reverted
  \/ RpcError
  \/ LastRetryFails
  \/ ReorgCheckPasses
  \/ ReorgCheckFails

Environment ==
  \/ SendBatch
  \/ OtherBlock
  \/ RequestResync
  \/ Include
  \/ PeerProposes
  \/ TurnChanges
  \/ L1Reorg
  \/ Crash

Next == Process \/ Environment

Spec == Init /\ [][Next]_vars

-----------------------------------------------------------------------------
(* Every variable keeps the type the code gives it; LivePending is         *)
(* unsigned.                                                               *)
TypeOK ==
  /\ queue \in Seq(Request) /\ job \in Request \cup {None}
  /\ groups \subseteq SUBSET Nat /\ rest \in Seq(Batch) /\ excused \in BOOLEAN
  /\ batch \in Batch \cup {None}
  /\ pc \in {"recv", "nonce", "send", "wait"} /\ (pc = "recv" <=> batch = None)
  /\ retries \in 0 .. MaxRetries - 1
  /\ last_used_nonce \in Nat \cup {None}
  /\ live_pending \in Nat /\ delayed \in BOOLEAN
  /\ checks \subseteq Tx /\ pool \subseteq Tx
  /\ owed \subseteq Nat
  /\ blocks \in Seq([anchor: 0 .. MaxAnchor, size: Sizes])
  /\ my_turn \in BOOLEAN /\ inbox \in Nat /\ nonce \in Nat
  /\ l1_reorged \in BOOLEAN
  /\ included \in Seq([tx: Tx \cup {None}, ok: BOOLEAN, before: Nat])

(* LivePending, on which the sequencer throttles its blocks, counts the    *)
(* batches still to propose, over the queue, the requests of a Resync and  *)
(* the batch at hand, whatever way each of them ends.                      *)
Waiting == Cardinality({i \in DOMAIN queue : ~queue[i].resync})

LivePendingExact ==
  live_pending = Waiting + Len(rest) + (IF batch = None THEN 0 ELSE 1)

(* Proposing counts as delayed, which stops the sequencer, only while a    *)
(* failed batch is retried: an idle proposer never blocks sequencing.      *)
DelayedWhileRetrying == delayed => batch # None /\ retries > 0

(* A batch is a run of L2 blocks that the router and the inbox take: all   *)
(* the blocks between its ends, and not too many, whatever the requests of *)
(* a Resync are split by, if every block fits in a batch of its own.  That *)
(* is so although anchors may go down, when the blocks of one anchor are   *)
(* no run: the validation refuses these as they are (manager.rs:906).  It  *)
(* cannot where it skips a batch that is pending (manager.rs:221) or the   *)
(* timestamps are the same; and what it refuses, manager.rs:259 proposes   *)
(* in the order of the old anchors.                                        *)
Pursued == (IF batch = None THEN {} ELSE {batch}) \cup Range(rest)

BatchExact ==
  \A b \in Pursued :
    /\ b.n <= MaxPerBatch
    /\ ~excused => b.n = b.end - b.start + 1 /\ b.bns = b.start .. b.end

(* No block handed over is forgotten: it is final on L1, watched for a     *)
(* reorg, or still to be proposed, unless its batch was given up for one   *)
(* of the three reasons the code tells or its watch ended.                 *)
Final == IF included = <<>> THEN inbox ELSE included[1].before

StillToPropose ==
  UNION ({b.bns : b \in Pursued} \cup {BlocksOf(r) : r \in Range(queue)}
         \cup groups)

NoSilentDrop ==
  owed \subseteq
    1 .. Final \cup StillToPropose
    \cup UNION {t.bns : t \in checks}

(* Until an L1 reorg, all transactions of ours that may still be included  *)
(* share one nonce, across retries and restarts: at most one of them is.   *)
OneNonce == ~l1_reorged => \A t \in pool : t.nonce = nonce

-----------------------------------------------------------------------------
(* Statement of an assertion that the code does not keep.                  *)

(* manager.rs:404, "no blocks to propose": a batch has blocks.             *)
NoEmptyBatch == batch # None => batch.n > 0

=============================================================================
