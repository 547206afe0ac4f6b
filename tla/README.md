# A TLA+ model of taiko-gateway

taiko-gateway is a preconfirmation gateway for Taiko: while it is the operator
of a turn it receives transactions, builds L2 blocks faster than L1, gossips
them as soft blocks, and lands them on L1 in batches of blocks that share an
anchor. This directory models the parts of it whose correctness depends on the
order of events: the operator lookahead that hands the turn from one gateway to
the next, the sequencer loop, what it remembers of the chains, the block builder
with its transaction pool, the proposer, the L1 account it sends from together
with the balance monitor, and the gateway composed of sequencer and proposer.

Check a module with `tlc -config <run>.cfg <module>`, the proofs with `tlapm
<module>Proofs.tla`, for `Sequencer`, `Lookahead`, `Context`, `Builder`, `Proposer`,
`Account` and `Gateway`: every safety property that a run checks is also a theorem,
for all values of the constants (section 4). `PROJECT.json` lists the components,
the runs, for each definition the lines it models, for each property a mutation of
the model that breaks it, the hazards of the code and the disagreements found.

## 1. Inventory

Paths are relative to `src/crates/`.

| component | state | operations | talks to |
|---|---|---|---|
| Sequencer loop, `sequencer/src/sequencer.rs` | state (Sync or Sorting), open batch, anchor, two turn flags, status-check flag and timers, anchor errors | one thread, `tick()`: receive headers, orders and simulations, read the turn, refresh the anchor, clear the open batch, anchor / sort / seal a block | all of the below |
| Sequencer context, `sequencer/src/context.rs` | kept L1 headers, kept L2 headers, our blocks to verify, L1 origin | `new_l1_block`, `new_preconf_l2_block`, `new_origin_l2_block` | fed by the fetchers over three channels |
| Block fetchers, `sequencer/src/fetcher.rs` | the last polled origin | backfill at start, two subscriptions, one poll | L1 and L2 node; the context |
| Block builder and pool, `sequencer/src/{sorting,tx_pool,types}.rs` | orders per sender, cached account nonces and the block they hold for; of a build: active orders, applied orders, best order, simulations in flight, learned nonces | `put`, `active_orders`, `update_new_block`, `clear_nonces`, `report_and_sanity_check`; `handle_new_tx`, `handle_sim`, `maybe_sim_next_batch`, `should_seal`, `should_discard` | driven by the loop; simulator client |
| Pending proposals and delay flag, `common/src/proposer.rs` | two process-wide atomics | `LivePending`, `set_propose_delayed`, `set_propose_ok` | written by loop and proposer, read by the loop |
| Proposer, `proposer/src/manager.rs` | the request at hand, retries, last used nonce | `run`, `resync`, `propose_batch`, `propose_one_batch` | requests from the loop over a channel; L1 |
| L1 client, `proposer/src/client.rs` | none (the fee caps learned live in `propose_batch`) | nonce, fee estimates with buffer and caps, send, bundle relay, receipts, `reorg_check` | L1 node, block builders, router and inbox contracts |
| Balance monitor, `common/src/balance.rs` | none | approval and deposit check before anything else starts; the deposit check again every 60 s | L1, from the proposer's account |
| Lookahead, `common/src/taiko/lookahead.rs`, `beacon.rs` | operators of this and the next epoch with the epoch they were read in, the handle's copy of them, whether preconfs are enabled, handover window | three polling tasks; `can_sequence`, `can_propose`, `should_clear_proposal` | whitelist, wrapper and router contracts, beacon clock; read by the loop and the proposer |
| Encoding, anchor transaction, signer, simulator client, soft block client, RPC server, configuration | mostly none | conversions and I/O | |

Everything runs in one process in which any panic aborts
(`panic = 'abort'` in `Cargo.toml`). Nothing is persisted: after a restart the
gateway knows what the L1 and L2 nodes tell it. That is why a crash is an action
of every module and why `Restart`/`Abort` reset all of a component's state.

What is hard about each part, and what makes it correct:

* **Sequencer loop.** The turn, the anchor, the parent and the clock all change
  while a block is in construction, so that flushing the open batch has to be
  deferred to the seal. Correct when a batch has one anchor, holds consecutive
  blocks ending at the parent, no block is anchored behind its parent, its time
  shifts fit a `u8`, every block of a turn ends up in a batch or a Resync, and no
  batch stays open for ever.
* **Lookahead.** Gateways do not talk to each other about turns: each derives its
  own from a contract that answers for the latest L1 block, at polls of its own,
  and from the clock. Around an epoch's edge they hold lookaheads of two epochs.
  Correct when at most one operator sequences, at most one proposes, and the one
  whose turn it is does.
* **Context.** Three unordered feeds, one of them polled, over reorgs, missed and
  late blocks. Correct when the headers stay sorted (everything pops and
  truncates on that ground), verifications are about blocks we still hold, and
  the safe L1 header is on the L1 and stays there.
* **Builder and pool.** Simulation answers arrive in any order, also for builds
  that are over; orders move between the pool, the active set, the best slot and
  the block. Correct when the block can be executed, the in-flight count is
  exact, a waiting build has nothing to do, and no user loses an order.
* **Proposer.** Retries, replacement transactions, restarts with a transaction in
  the mempool, reorgs after the receipt. Correct when the pending counter, on
  which the loop throttles, is exact, no handed-over block is forgotten, batches
  name the right blocks and two nonces never carry the same batch.
* **Account.** One nonce, two tasks, no lock: the proposer asks for the latest
  nonce, the provider of the balance monitor fills in the pending one. The three
  fees of a blob transaction are raised by different rules, and a replacement must
  double all three. Correct when the negotiation with the mempool ends, no
  transaction waits behind a nonce nobody sends, and L1 takes a batch at most once.
* **Gateway.** Sequencer and proposer share a queue, a delay flag and the process.
  A Resync is computed from what L1 was last seen to know and overlaps with what is
  queued; either task's panic loses the other's work. Correct when whatever is left
  behind by a fault is proposed by a later Resync, in order.

## 2. Modules

| module | models | variables | lines of TLA+ |
|---|---|---|---|
| `Sequencer` | the loop, with the turn, the L2 network, the L1 head, the clock and the proposer's counter as environment | 22 | ~660 |
| `MCSequencer` | block sizes for TLC | | |
| `Batching` | abstract: what the loop promises of its batches; `Sequencer` implements it | 3 | ~60 |
| `SequencerProofs` | theorems about `Sequencer`, the refinement of `Batching` among them | | ~2000 |
| `Turns` | the phases of a turn and their order, shared by `Sequencer`, `Lookahead` and `Gateway` | | ~35 |
| `Lookahead` | the lookahead of every gateway, over one clock and one L1 | 11 | ~390 |
| `MCLookahead` | symmetry for TLC | | |
| `LookaheadProofs` | theorems about `Lookahead` | | ~1060 |
| `Context` | the three header lists and their feeds | 19 (7 of them history) | ~360 |
| `ContextProofs` | theorems about `Context` | | ~2200 |
| `Builder` | pool and block in construction | 9 | ~375 |
| `MCBuilder` | two senders and three orders for TLC | | |
| `BuilderProofs` | theorems about `Builder` | | ~1290 |
| `Proposer` | the proposer task with the L1 | 20 | ~550 |
| `MCProposer` | the L2 chains of the run, for TLC | | |
| `ProposerProofs` | theorems about `Proposer`, and about the requests of a Resync | | ~3260 |
| `Account` | fees and nonces of the operator's account, shared by proposer and balance monitor | 14 | ~430 |
| `MCAccount` | two fee estimates for TLC | | |
| `AccountProofs` | theorems about `Account` | | ~980 |
| `Gateway` | extends `Proposer` and `Turns` by the sequencer's end of the queue: the composition | 24 (4 of its own) | ~220 |
| `Rollup` | abstract: blocks land in order and all of them do; `Gateway` implements it | 2 | ~25 |
| `GatewayProofs` | theorems about `Gateway`, on top of `ProposerProofs`; the safety of `Rollup` implemented | | ~2700 |

### 2.1 Sequencer

`pc` walks through `tick()` in the order of its calls:

    recv -> check_sequence -> check_propose -> refresh -> clear
         -> time_shift -> transition (-> anchoring) -> recv

so everything the environment does can fall between any two calls of the loop,
which is where the thread really can be overtaken: the turn, the node and the
proposer move on in other processes and tasks. `state` is the `SequencerState`
(`None` is `Sync`), `request` the open batch, `parent`, `parent_anchor` and
`safe_l1` what the loop reads of its context, the lookahead flags as in the code.
`RecvL1`, `RecvL2` and `RecvReorg` are `recv_blocks`; `HandleSims` is the part
of `fetch_txs`/`handle_sims` that ends a block; `MaybeRefreshAnchor`,
`ClearProposal` and `CheckTimeShift` are the three callers of
`send_batch_to_proposer`, which is `SendBatchChecked` (defer to the seal while
sorting) or `SendBatch`; `StaySync`, `StatusPass`, `StatusSkip`, `AnchorBlock`,
`AnchorFails` are `state_transition` in Sync; `DiscardBlock`, `KeepSorting`,
`SealBlock`, `SealRefused`, `SealPanics` in Sorting.

Timestamps are ages (`now - timestamp`), so that `Tick` ages the open batch and
the block in construction together and the clock needs no bound; an age stops
growing at `MaxTimeShift`, past which the code makes no distinction. `stall`
counts the time since the time-shift check: the RPCs between that check and the
anchoring may block, and `MaxStall` is how long they are assumed to
(`TimeAssumption`: 230 s + stall + block time <= 255 s). It is an assumption on the
endpoints: the status request, one of these, is made with `Client::new()`, which
has no timeout (sequencer.rs:846).

What the lookahead answers is one variable `turn` that goes round `off, next,
current, clearing, handed`, with `disabled` from anywhere (module `Turns`); that the
answers do go round like this is `TurnsFollow` of `Lookahead`, for a gateway that is
informed and whose window does not change. Two assumptions on the deployment are
guards of `TurnStep`: the loop reads each phase at least once, and the handover
buffer is long enough for this gateway to send its batch before another operator
builds.

`unsent` (blocks owed to L1), `lost_flush`, `unchecked` and `foreign` are history:
they record what happened and no guard reads them. The last three mark three known
deviations so that the properties hold outside of them and are still checked after
everything else: finding 1; the skipped status check of section 5; and a parent that
is not a block of this process (a peer's, an older process's, or one a reorg brought),
until a refresh has caught up with its anchor: on such a parent the code may anchor a
block behind it (section 5).

`OpenBatch` and `Building` are the mapping to `Batching`, see 2.7.

### 2.2 Lookahead

One clock, in half slots of L1, and one record of every variable per gateway.
`task` is where the lookahead task is: `Start` is its waiting loop, `BootCurrent`
and `BootNext` the first two calls of the whitelist, `BeginUpdate`, `AskCurrent`
and `AskNext` an update with its two calls, which are answered for the latest L1
block of that moment (`block_slot`) and stored with the epoch read before them.
`PollWrapper` and `PollRouter` are the other two tasks; a failed whitelist call
panics, which is `Crash`. `MaybeRefresh` moves the shared lookahead into the
handle's copy `last`, from which `CanSequence`, `CanPropose` and `ShouldClear`
answer. `operator_of` is the whitelist: what it says of an epoch does not change.

What the deployment has to provide is in the guard of `Tick`: at most `MaxMissed`
slots in a row without a block; a call answered within the slot in which it was
made; the router asked within a slot of the epoch's start. The first of these is
where a comment and the code part: lookahead.rs:163 says an update checks "there
has been at least a block in this epoch", but the code only checks that the slot
is late enough. With `MaxMissed = 3` `LookaheadTrue` fails: the last epoch's
operators are stored with this epoch's stamp. `MissedAssumption` (no more slots
missed in a row than the slots an epoch is old at its first update) is exactly what
the proof of `LookaheadTrue` needs, and `WindowAssumption` what that of `TurnsFollow`
needs: the handover buffer ends at least one step of the clock before its window
does, or a turn would go from "clearing" to "off" and its end never be read as
"handed".

The behaviour begins in epoch 1. In epoch 0 (a development chain just started)
`updated_epoch == 0` reads as "never updated" to `can_sequence` and as a stamp to
`can_propose`, so the two answer for different operators at the first edge.

### 2.3 Context

A block is its number, the fork it was born on and its parent's fork: two blocks
are the same exactly if their records are, which is all the code's hashes
decide. `chain` is the L2 node's; `NodeAdopts` truncates and extends it, and the
subscription delivers the block or loses it. `OriginStart` is the first request of
`fetch_origin_blocks`, before which the stored origin is 0 and after every error of
which it is taken anew; `PollOrigin` is its loop: it swaps the stored origin
and fetches headers up to the first error, which drops the rest as the code's
`?` does. `UpdateParent` is `update_parent_block_id` with its errors: a block of
another gateway whose first transaction is not an anchor truncates the list it
replaces a part of and does not join it (`malformed`); one that is an anchor but does
not decode joins it, and only the parent's anchor, which is in `Sequencer`, stays.

A kept L1 header knows whether it is still on the L1 (`live`, history). The L1
extends or reorgs at any depth: blocks from `b` on are replaced and `n` is the new
head we hear of, lower than the old one or not; what the code's `retain` keeps above
it is then orphaned. A reorg is deep when it takes more than `L1Lag` blocks counted
from the highest there was. `ready` is that `run()` has left its waiting loop; from
then on an empty header list is a panic (`ParentPanics`).

### 2.4 Builder

A state id of the simulator is the number of orders applied to the build, and
`Stale` once the build is over: the code compares ids only for equality with the
current one. `Outcomes` lists what an answer can do: executed (does not fit, is
the best so far, is not), refused for the nonce, for funds, for gas, with the
state unknown, or for a reason the code only logs. A refusal for funds may come at any
nonce: whether a simulator looks at the nonce first is not the gateway's to say. The
code then notes the order's own nonce as the account's (`NotesOwn`), of which
sorting.rs:270 says: "TODO: this updates the cache with the wrong nonce". `unfunded`
and `doubtful` (history) follow the accounts for which it is indeed another one, first
in the build and then in the pool's cache. `StateNonce` is the account nonce on the
state built so far: a simulator that executes what it is given. The base fee, the
sizes and prices are choices. `SimsAssumption` is that the configuration allows one
simulation at a time at least: with none, a build would wait for ever with orders
ready, and `NoLostWakeUp` be false.

### 2.5 Proposer

`pc` is where `propose_batch` is: waiting for a request, reading the nonce, sending,
waiting for the receipt. `job`, `groups` and `rest` are the rest of a Resync. A
group is a set of block numbers, and the groups are taken by the anchor of their
blocks. `Validated` is `validate_batch_params`, which decides between one group of
blocks per anchor (`AsTheyAre`) and all blocks together on a new anchor
(`AllTogether`): no group is too long, none is anchored below the parent of the
Resync's first block, and in the order of anchors none begins before the one ahead
of it ended (`InOrder`; by timestamps, which tell nothing of blocks of one second,
`tied`). How old an anchor and a timestamp may be is a choice, so the groups may be
refused at any time. A group that seems to be in the mempool already is not
validated (`MaybePending`).

A block may have any anchor, also one below its parent's (section 5): then the
blocks of an anchor may be no run, and these groups are what the validation refuses.
What it refuses is put together in the order of the old anchors (the `BTreeMap` of
manager.rs:159, flattened at 259), so `RequestsFrom`, which is
`request_from_blocks`, goes through the blocks by anchor and then by number
(`RequestsBelow`, `AddedUpTo`), and `Added` puts each in the last request or, when
it is full, in a new one. `excused` (history) is that a Resync went by blocks whose
anchors go down where nothing was validated: all together, next to a group taken for
pending, or with tied timestamps.

The sequencer hands over at most `MaxPerBatch` blocks at a time. Nothing in the code
counts them; it is the anchor's age that ends a batch before, `anchor_batch_lag` of
16 slots with a block every 2 s (gateway.example.toml), or about a hundred blocks.
That the limit read from the contracts is larger is an assumption. Again / Fails /
GiveUp / Done are the four ways an attempt ends. `my_turn`, `inbox`, `nonce`, `pool`
and `included` are L1: whether the router takes our batches, the last proposed
block, the account, our transactions that may still be included, and the inclusions
a reorg may still undo. A transaction that replaces another leaves at most one older
one behind that a block builder may still include. `owed` is history: blocks handed
over, until given up.

### 2.6 Account

`propose_one_batch` with all it calls, one fee or nonce decision per action: `pc`
goes `nonce -> build -> (relay -> private ->) send -> wait`, each an await of the
code during which L1 or the other task may move. `RawFee`, `AtLeastMin` and `FeesOf`
are the fees of `build_eip4844` and of the callers in `propose_batch`: the estimate
with `BUFFER_PERCENTAGE`, or the cap learned; all three doubled by `bump_fees` after
an attempt that was not included; the minimum for two of them. A failure of an
attempt is one of the code's `FailReason`s: `SendRefused` and `RpcError` are counted
(`Fails`, up to the panic), `Underpriced` learns a cap and tries again (`Again`),
`UnderpricedUnknown` learns nothing, `NotIncluded` bumps, `TimestampTooLarge` waits,
`GasEstimationGivesUp` drops the batch. `GetNonce` carries the rule of
manager.rs:564: the nonce of the last attempt is used, so the batch counts as done.

The balance monitor is the second task: `monitor` is where its check is, `pc =
"boot"` is the same check before the proposer starts, where a failure ends the
process and an approval (`Approved`) may come before the deposit. A failure in the
loop only waits for the next round.

L1, the mempool and the builders are external, modelled from what the code handles
or assumes of them: an account's blob transactions and its others exclude each
other in the mempool; a blob transaction is replaced only at twice each of its fees;
a tip above the fee cap is refused; a bundle stays with the builders until used or
expired. `mined` is what used each nonce, so that a receipt and the nonce's use can
differ. `named` (the fees the mempool called too low since it last changed) is
history, and no guard reads it; `receipt` is the chain's, read by the code through
`get_receipt`.

### 2.7 Batching

An abstract specification of three variables: the open batch (its anchor, ends and
length), the block in construction (its number and anchor), and how many batches wait.
A block joins only a batch of its anchor; a batch is handed over once, whole, and
not while a block that may join it is being built, except together with the end of
that block; what is lost is lost whole. `Sequencer` implements it:

    open     <- OpenBatch(proposer_request)     building <- Building(state)
    pending  <- live_pending

`SealBlock`, `DiscardBlock` and `SealRefused` are the three that end a build, with
the deferred flush that may go with them; `MaybeRefreshAnchor`, `ClearProposal` and
`CheckTimeShift` are `HandOver` when they send; a crash and a panic are `Fail`. The
rest of the loop is unseen. `BatchesWhole` is the property, `SequencerBatches` the
theorem.

### 2.8 Gateway and Rollup

`Proposer` takes any request at any time. In `Gateway` the requests are those of
the sequencer: `Seal` and `HandOver` make batches, `CheckCanPropose` asks for a
Resync when `can_propose` rises, from the origin last polled to the block before
the open batch (`ResyncTarget`, sequencer.rs:482). Both go through one queue;
`Restart` of `Proposer` and `Reset` are one event. The proposer's actions are
`Proposer`'s own, sorted by what they need to happen:

* `Propose` and `RefusedOnceMore` are the task itself. An error that is the
  contracts' answer to the batch is part of it, and so is the panic after the third.
* Faults are counted, up to `MaxFaults`: an RPC error, a failed reorg check, a
  crash or panic of either task, a revert, an origin poll behind L1, a turn that
  ends before the queue is empty or before the flag was read, the router being
  disabled.
* Environment without fault: inclusion, other operators that propose what was there
  when they took over, blocks of theirs, the phases of `Turns`.

L1 reorgs are left to `Proposer`, whose runs have them: here an inclusion is final.
Anchors that go down are left to it as well (`Upward`): with them the composition
does not keep its promise, see section 5.

`Rollup` is the promise to the user in two variables, the preconfirmed tip and the
last block L1 knows: blocks land in order, and every block lands (weak fairness of
`Land`). `BlocksLand` says that `Gateway` implements it, liveness included, under
`tip <- Len(blocks), inbox <- inbox`. A crash, a skipped or refused batch and a short
turn are steps of `Gateway` that `Rollup` does not see, and it still promises
that the blocks land.

## 3. Runs

| run | instance | what it shows |
|---|---|---|
| `seq_batch` | one gateway, 2 blocks, 2 anchors (559,720 states) | types, one anchor per batch, time shifts, `Batching` implemented, no block behind its parent's anchor, every batch flushed (liveness) |
| `seq_handover` | 3 blocks shared with peers, 1 anchor | contiguity, takeover coverage, building on the tip |
| `seq_assert` | 2 blocks, 2 anchors | finding 1 |
| `look_turns` | two gateways, epochs of 7 slots, windows of 2 and 3 slots, 2 missed slots in a row, from the start of one epoch into the first update of the next | exclusion, no idle turn, the phases of `Turns` |
| `ctx_headers` | 3 L1 blocks and a lag of 1, L1 reorgs of every depth that leaves two, 3 L2 blocks, 1 fork, channels of 2 | the header lists, the safe header |
| `ctx_empty` | 2 L1 blocks, 2 L2 blocks, no reorg | finding 2 |
| `builder_build` | 1 block, 2 senders, 3 orders, 2 fees, 2 simulations at a time, up to 2 late answers (453,035 states) | the build |
| `builder_pool` | 2 blocks, 1 fee, 1 simulation at a time (2,969,451 states) | the pool and its cache |
| `prop_retry` | two L2 chains of 2 and 3 blocks, 2 anchors, batches of up to 2, 2 retries, 2 inclusions, 1 reorg (2,607,062 states) | the proposer |
| `prop_empty` | 1 block larger than the target | finding 3 |
| `account_fees` | 1 batch, 2 nonces, 2 estimates, 2 retries, fees up to 24 (331,944 states) | fee negotiation, nonces of two tasks, one landing, every batch ends (liveness) |
| `gateway_land` | 2 blocks of one anchor, 2 faults, a queue of 2, 4 inclusions (604,133 states) | sequencer and proposer implement `Rollup`; nothing stranded without a fault |

Between them the passing runs fire every action of every module.

**Properties.** Each is stated above its definition. Those a reader would
want first:

* `AnchorAgreement` - the open batch always has the anchor its next block will
  have. This is what the assertion in `seal_block` rests on, over anchors that
  move during a build, deferred flushes, discards and failed seals.
* `TimeShiftFits` - with bounded RPC stalls no time shift overflows its `u8`.
* `BatchContiguous`, `TakeoverCovered`, `BuildsOnTip` - no peer's block lands
  inside one of our batches, and no block between the L1 origin and the tip is
  forgotten at a takeover, whoever built it.
* `AnchorNotBehindParent` - what a process builds on its own blocks never steps back
  in L1, although neither the refresh of the anchor nor the check of the parent's
  looks at both; what it builds on a peer's block may, and the model says so
  (section 5).
* `BatchFlushed` - no open batch stays as it is: it is handed over or grows, and in
  the handover window it is handed over. The time shift sends a batch that does not
  grow; while a block is being built it is only noted (sequencer.rs:785-790), and a
  batch that keeps growing is sent for the age of its anchor, its size or the
  handover.
* `BatchesWhole` - the loop implements `Batching`: over deferred flushes, discards,
  failed seals and panics a batch is handed over once and with every block of it.
* `NamedOnce`, `TipAboveCapIsLearned`, `BatchEnds` - the negotiation of three fees by
  three rules: the mempool never names the same fee twice for the same queued
  transaction, the code's own estimates never make a transaction no node takes, and
  the batch ends.
* `NoNonceGap`, `OneLanding` - two tasks that ask for different nonces leave no gap,
  and of all transactions of one batch L1 takes at most one, over replacements,
  bundles, lost answers, restarted attempts, reverts and deposits on its nonce.
* `NothingStranded`, `BlocksLand` - over the queue, Resyncs that overlap with it,
  other operators and faults, every block lands in order.
* `LookaheadTrue`, `OneSequencer`, `OneProposer`, `TurnNotIdle`, `TurnsFollow` -
  gateways that poll at different moments agree on whose turn it is, across the
  epoch's edge, missed slots, restarts and a change of the handover window.
* `HeadersSorted`, `VerifiesKnownBlocks`, `OwnBlocksVerified` - over reorgs and
  missed, late and duplicated blocks the header lists mean what the code takes
  them to mean.
* `SafeHeaderFinal` - the safe header, whose number and state root an anchor
  carries, is on the L1, with orphaned headers kept above a lower new head; and no
  header that was the safe one is reorged out, unless by a reorg deeper than
  `l1_safe_lag`.
* `BlockExecutable`, `InFlightExact`, `NoLostWakeUp` - with answers in any order
  and for builds long gone.
* `CacheSound`, `PoolKeepsOrders` - what a build learns never costs a user an order,
  unless an L2 reorg intervened or the account was refused for funds at another
  nonce than its own (sorting.rs:270, section 5). The nonce cache is valid for a
  height (types.rs:129-135), not for a block, and a reorg to another block of the
  same height leaves it valid and wrong until the next block.
* `BatchExact` - whatever a Resync finds, splits and puts together, a batch holds
  what lies between its ends, over anchors that go down and blocks that do not fit
  together.
* `LivePendingExact`, `NoSilentDrop`, `OneNonce` - over every way a batch ends,
  restarts with transactions in the mempool, and a reorg.

**Bounds.** They are constants marked "bound:" and guards of the environment or of
the creation of new items. Two anchors and two blocks give every relation the loop
distinguishes: a batch with an older anchor and a block with the newer, a batch that
is extended and one that is begun. Three blocks are needed for the handover (one of
ours, one of a peer, one more of ours). In `Context` one fork is one L2 block
replaced, with everything above it, by another; with a lag of 1, three L1 blocks and
heads from 2 to 3 an L1 reorg takes one block or, deeper than the lag, two, to a
head above, at or below the old one, and headers are missed or not (a reorg of an L2
reorg, and longer lags, are left to the theorems: with `MaxFork = 2` the run exceeds
its time). For the lookahead, 7 slots leave one slot between the first update (slot
3) and the longest window, and room for the buffer in the shortest; one edge of an
epoch is enough because `LookaheadTrue` says of a gateway at its end what it says at
its start. Two senders, one with two orders of which the second does not pay the
high fee, give the nonce rules their cases; late answers need two builds, hence
`MaxStale`. For the proposer `MaxRetries` is 2 where the code has 3 (one retry and
the panic; the third is a second retry), two nonces allow a batch to land behind
another, and L1 undoes one inclusion whose receipt was seen (undoing another is, to
the process, as if it came later). A queue of one means that a request is at hand
and another waits. The L2 chain of `prop_retry` is a prefix of one of two
(`MCBound`, the run's `CONSTRAINT`): `Large`, two blocks of one anchor that do not
fit in one batch, so that a Resync splits them; and `Down`, three blocks of anchors
1, 0, 1, whose groups have holes, with one inclusion and no reorg. A batch is also
full at two blocks, which three blocks put together on a new anchor exceed. Every
`CHECK_DEADLOCK` is on: no model stops.

`Account`: with `Buffer = 140` as in the code, the minimum at 4 and estimates of a
quiet and a busy chain, fees up to `MaxFee = 24` allow several rounds of
replacement, in which each of the three fees is the one that is too low. Past it the
transaction pays what L1 includes. Two nonces give a deposit in front of a batch, on
its nonce, and behind it; with one batch `OneLanding` is about its attempts, which
is where it could fail (two batches were checked for the invariants alone, without
the fairness, and pass; the theorem is for any number). `Gateway`: two blocks, one
or two per batch, with sizes that make a Resync of two split in two (`TargetSize =
3`, `Sizes = {2}`) while the sequencer hands over both in one; two faults are needed
for one that strands a block and one that hits the Resync meant to repair it; four
inclusions let every block be proposed twice. Three blocks with one fault, and two
anchors (that do not go down) with one fault, were checked too and pass.

**Fairness.** Each liveness property has a specification of its own.

* `Sequencer!FairSpec`, for `BatchFlushed`: weak fairness of the loop's steps
  (`EndpointsAnswer`: its waits poll, and its RPCs return, which is an assumption on
  the endpoints: the soft block and the status request are made with
  `Client::new()`, sequencer.rs:815 and 846, that has no timeout) and strong
  fairness of `Tick` (time passes whenever the loop blocks, which it does again and
  again but not all the time). Nothing is assumed of peers, L1 or the proposer.
  Fairness of `Startup` is part of the first: an aborted process is restarted. The
  property is about one last block of the batch at a time, so the bound on blocks
  cannot satisfy it: a batch whose last block changes without end is one that grows.
* `Account!FairSpec`, for `BatchEnds`: weak fairness of the proposer's steps and of
  the inclusion of a transaction that pays `MaxFee`; strong fairness of `BuildTx`
  (the estimation stops answering that the timestamp is too large once L1's clock
  has passed the last block) and of `Underpriced` (a node that gives details does
  not for ever answer without). The last is an assumption the code needs: an
  underpriced answer without details neither sleeps nor raises anything
  (manager.rs:509).
* `Gateway!FairSpec`, for `BlocksLand`: weak fairness of the sequencer's `HandOver`
  and `CheckCanPropose`, of the proposer, of inclusion and of the turn; strong
  fairness of `Sent` (a batch is sent in the end: `BatchEnds` is what `Account`
  says of that). A turn is long enough for the queue, unless a fault says
  otherwise; there may be `MaxFaults` of those, at any time. `Seal` is not fair:
  the gateway need not build.

## 4. Proofs

Every theorem is proved from the named assumptions of its module and nothing else.

### Sequencer

`SequencerProofs` proves, for every value of the constants that satisfies the
named assumptions of `Sequencer`:

| theorem | statement |
|---|---|
| `TypeCorrect` | `Spec => []TypeOK` |
| `AnchorsAgree` | `Spec => []AnchorAgreement` |
| `TimeShiftsFit` | `Spec => []TimeShiftFits` |
| `BatchesUnbroken` | `Spec => BatchUnbroken` |
| `AnchorKeepsUp` | `Spec => AnchorNotBehindParent` |
| `SequencerBatches` | `Spec => BatchesWhole`, the refinement of `Batching` |

Argument:

* `TypeStep` has one case per action; the helpers shared by several actions
  (`SendBatch`, `SendBatchChecked`, `Abort`, `AdoptBlock`) have lemmas of their
  own, cited by each.
* `AnchorAgreement` is not inductive alone: `Startup` and the first block after
  it need to know that a process that is down has neither a build in progress nor
  an open batch (`DownIsEmpty`). `AnchorInv` is the conjunction, `AnchorStep` its
  step, by action. The actions it is about are `MaybeRefreshAnchor` (the anchor
  moves: either no build is in progress and the batch goes, or the build is told
  to seal and keeps its anchor), `AnchorBlock`, and the four that end a build, of
  which `SealRefused` is the one that leaves `lost_flush`.
* `TimeShiftFits` rests on `TimeInv`: between the time-shift check and the
  anchoring the open batch is at most `TimeShiftLimit + stall` old, `stall` is at
  most `MaxStall`, and the shift of a build that joins a batch is at most
  `MaxTimeShift`. `AnchorBlock` adds one block time to the age, and
  `TimeAssumption` closes the sum; the shift of a build never changes afterwards.
* `BatchesUnbroken` follows by case analysis from the types. `AnchorKeepsUp` needs
  `ParentInv`: the anchor the next block will use is at least that of the block in
  construction, and that of the parent unless the parent is `foreign`. A refresh
  only raises it; a seal makes the parent a block that was anchored with it or
  before it; and whatever else sets the parent makes it foreign, until a refresh
  that reaches its anchor.
* `SequencerBatches`: `RefinementStep` maps each action to one of `Batching` or to
  none, by a lemma for each kind (`SendMapsToHandOver`, `SealMapsToSeal`,
  `AbortMapsToFail`, `ReceiveMapsToFail`, `HandleSimsUnseen`, `TickUnseen`). It
  needs only the types: that `None` differs from every batch and block, which makes
  the mapping faithful, and that a seal's extended batch is `Batching`'s `Joined`.
  That a seal joins a batch of its own anchor is the assertion at sequencer.rs:735,
  part of the guard of `SealBlock`; what happens when it does not hold is
  `SealPanics`, a `Fail`.

`SequencerProofs` also proves `BatchesContiguous` (`BatchContiguous`),
`TakeoversCovered` (`TakeoverCovered`) and `BlocksBuildOnTip` (`BuildsOnTip`).

* `TurnInv`: while others may build this gateway neither builds nor has a batch open,
  and it has read the last phase before the next one comes: the two assumptions in
  the guard of `TurnStep`.
* `CoverInv` (unless a block was built unchecked): with a batch open, a block in
  construction or a status check passed, the parent is the network's tip, so that
  no block of another gateway is left in the feed (`FeedBetween`). The batch
  then grows at the parent, and what `check_resync` asks for ends where it begins.

`TimeAssumption` is where the code's numbers (230 s, 255 s, a
block time of a few seconds) meet the deployment (an RPC stall of at most 20 s or
so).

### Context

`ContextProofs` proves of `Context`, from `LagAssumption` and `ContextBounds`:

| theorem | statement |
|---|---|
| `ContextTypes` | `Spec => []TypeOK` |
| `HeadersStaySorted` | `Spec => []HeadersSorted` |

`TypeOK` is not inductive: a restart counts back from the L1's head, and the
origin poll takes a part of the node's chain. `TypeInv` adds that the head is above
`l1_safe_lag`, and that the polled
origin is below the node's and that on its chain (`OriginOnChain`).
`HeadersSorted` is inductive with it: a block is appended when it is above the
parent, or after everything from its own number on was cut off, and popping
takes a prefix. `PartOfSeq`, `AppendSorted` and `PartSorted` are the facts about
sequences it needs.

`ContextProofs` also proves `SafeHeaderStays` (`SafeHeaderFinal`), `VerifiesKept`
(`VerifiesKnownBlocks`) and `OwnBlocksWait` (`OwnBlocksVerified`).

* `FinalInv`: without a missed header, the kept headers up to the head are on the L1
  (the orphaned ones are above it), and those from `L1Lag` below the highest block
  there was up to the head are all kept. So the safe one, the lowest, is never above
  that mark, and a reorg that takes it is deeper than `L1Lag`.
* A number and a fork name one block among all that the node, the channels and the
  context hold (`Distinct`), because a fork begins where a block is replaced
  (`Born`). `Covered` says that a block waiting to be verified is never above the
  headers kept; `OriginsAscend` that origin headers arrive above the last one.
  Together they make the two verification properties inductive, including a poll
  that pops headers and a restart that empties the lists.

### Account

`AccountProofs` proves of `Account`, from `NoneAssumption`, `EstimateAssumption`
(an estimate's tip does not exceed its fee), `FeeAssumption` (the buffer is at least
100 %) and `AccountBounds`:

| theorem | statement |
|---|---|
| `AccountTypeCorrect` | `Spec => []TypeOK` |
| `TipWithinCap` | `Spec => []TipAboveCapIsLearned` |
| `NoncesConsecutive` | `Spec => []NoNonceGap` |
| `BatchLandsOnce` | `Spec => []OneLanding` |
| `FeesNamedOnce` | `Spec => []NamedOnce` |

* `TipWithinCap`: `FeesOfOrder` says that without a cap learned the buffer
  (`BufferedMonotone`), the doubling and the minimum keep the order of tip and fee.
* `NoncesConsecutive` needs `NonceInv`: the proposer's nonce is never ahead of L1's,
  and every nonce below the one filled in for a deposit is still in the mempool or
  used. `NonceStep` follows by action; a replacement keeps the nonce, an inclusion
  takes the lowest.
* `BatchLandsOnce` needs `LandingInv`. What could still land of a batch has the
  nonce L1 takes next; a batch that has landed has nothing left that could; an
  attempt under way knows of a landing of its batch, because it used the nonce the
  attempt used last, so that the next `GetNonce` ends the batch; a receipt is true.
  The reverted attempt, after which `last_used_nonce` is forgotten, is where the
  parts need each other: nothing of the batch is left then, since its nonce is used.
* `FeesNamedOnce` needs `NamedInv` on top of both: the mempool holds one transaction
  of a batch at most, the caps learned since it took it are at least twice its fees,
  and so are the fees computed from them (`FeesCoverCap`: buffer, doubling and
  minimum never lower a cap).

### Lookahead

`LookaheadProofs`, from `ZeroAssumption`, `ClockAssumption`, `MissedAssumption` and
`WindowAssumption`, for any number of gateways, slots, windows and epochs:

| theorem | statement |
|---|---|
| `LookaheadTypes` | `Spec => [](TypeOK /\ ClockInv)` |
| `LookaheadsTrue` | `Spec => []LookaheadTrue` |
| `OneProposes` | `Spec => []OneProposer` |
| `OneSequences` | `Spec => []OneSequencer` |
| `TurnsNotIdle` | `Spec => []TurnNotIdle` |
| `PhasesFollow` | `Spec => TurnsFollow` |

* `ClockInv` bounds how far the latest L1 block lags behind the clock. The lemmas
  before it are about the clock: slot and epoch as quotients, and what one tick does
  to them (`SameSlot`, `NextSlot` or `NextEpoch`).
* `LookaheadTrue` is about what is stored; it is inductive only with what is on its
  way (`LookaheadInv`): a call in flight is answered by a block of this epoch, with
  the epoch read when it began (`AnswersCurrent`), and a task asleep late in the
  epoch has updated (`SleepsUpdated`). `BlockOfEpoch` is the step where
  `MissedAssumption` is used.
* From it the rest follows in one state at a time. `PhaseOfTurn` says that the
  three answers, computed from two stamped lookaheads, depend on the whitelist and the
  clock alone, whatever epoch the gateway's stamp is of; two gateways therefore agree.
* `PhasesFollow` compares two states: `GapInEpoch` and `GapAtEdge` say what a tick
  does to the two edges of the handover gap, inside an epoch and across its end.

### Builder

`BuilderProofs`, from the assumptions of `Builder`, for any senders, orders, fees and
number of simulations:

| theorem | statement |
|---|---|
| `BuilderTypes` | `Spec => []TypeOK` |
| `BlocksExecutable` | `Spec => []BlockExecutable` |
| `InFlightCounts` | `Spec => []InFlightExact` |
| `WakesUpForOrders` | `Spec => []NoLostWakeUp` |
| `CacheIsSound` | `Spec => []CacheSound` |
| `OrdersKept` | `Spec => PoolKeepsOrders` |

The properties need each other, so there is one inductive invariant, `BuilderInv`. A
block is executable because the best order was simulated on the nonce the state
still has (`BestOfState`), which holds because an answer for the current state
carries that state's nonce (`AnswersOfState`), which is why answers for other states
must not be counted (`InFlight`). What the build has learned of nonces is the
state's (`Learns`), except for the accounts in `unfunded`; that is what makes what
it hands to the pool true (`CacheOfBuild`, `CacheSound`), and so the orders removed
on that ground stale (`OrdersKept`), except for the accounts in `doubtful`. An
account whose nonce was noted wrong and of which an order is applied later has the
right one again, from the order. Each handler has a lemma about the record of the
build, before the actions are looked at.

### Proposer

`ProposerProofs`, from the assumptions of `Proposer`, for any number of blocks,
anchors, retries and requests, any sizes, and reorgs and crashes at any time:

| theorem | statement |
|---|---|
| `ProposerInvariant` | `Spec => []Inv` |
| `ProposerTypes` | `Spec => []TypeOK` |
| `LivePendingCounts` | `Spec => []LivePendingExact` |
| `DelaysWhileRetrying` | `Spec => []DelayedWhileRetrying` |
| `NoBlockDropped` | `Spec => []NoSilentDrop` |
| `OneNonceAtATime` | `Spec => []OneNonce` |
| `BatchesExact` | `SmallBlocks` (no block is larger than the target) `=> (Spec => []BatchExact)` |

* First what `request_from_blocks` returns, for every group of blocks and whatever
  their anchors (`RequestsOfGroup`): its requests cover the group and have at most
  `MaxPerBatch` blocks each; if every block fits in a batch of its own and the group
  is straight (a run of blocks whose anchors do not go down), each holds the blocks
  between its ends; and if the anchors do not go down, the requests follow one
  another. The invariant of that fold (`MadeOf`) is about the blocks done so far,
  those of lower anchors and, of this one, those of lower numbers (`NextAfter`).
  That the two recursive functions are what their equations say needs their
  existence (`AddedUpToIs`, `RequestsBelowIs`), by induction over the natural
  numbers from the least element of a set (`LeastNatural`, `InductionSet`).
* `WorkInv`: what waits names blocks that exist. `StraightInv`: unless `excused`,
  the groups of a Resync are straight. Anchors may go down, so this is the
  validation's doing: a group of one anchor with a hole has a block of another
  anchor in it, and then the two groups are not in order, which `InOrder` refuses
  (`ByAnchorStraight`); and where nothing was validated the anchors did not go down,
  or `excused` says so. It is what lets the previous facts be used when a group is
  taken (`ExactInv`).
* `KeptInv` is `NoSilentDrop` block by block. It needs `HistoryInv`: when the oldest
  inclusion is no longer undoable, more is final than before; so a block
  whose watch ends, or that a reorg undoes while watched, is still kept.
* `OneNonce` needs `NonceInv`: what may still be included has the nonce L1 takes
  next, no attempt holds a later one, and what was included has an earlier one.
* `BatchesExact` has the hypothesis `SmallBlocks`, and the code needs it: without it
  the first request of a Resync may be empty (finding 3).

### Gateway

`GatewayProofs`, from the assumptions of `Proposer` and `FaultAssumption`:

| theorem | statement |
|---|---|
| `GatewayInvariant` | `GatewaySpec => []GatewayInv` |
| `GatewayForgetsNothing` | `GatewaySpec => []NoSilentDrop` |
| `GatewayKeepsOrder` | `GatewaySpec => Promise!Spec`, the refinement of `Rollup` without fairness |
| `NothingIsStranded` | `GatewaySpec => []NothingStranded` |

* Every step of `Gateway` is a step of `Proposer` or puts a sound request in its queue
  (`GatewayEffects`, `EnqueueKeeps`): the proposer's invariant carries over.
* `OpenInv`: anchors only grow (`UpwardInv`, from the guards of `Seal` and
  `PeerBlock`), and the open batch is within the limit. With it the requests of
  every group come in the order of their blocks, also those of all blocks together.
* `EndsBy`: whatever the proposer works at, and whatever it sent, ends before the open
  batch. So a landing never passes the tip, which with the contract's check
  that batches follow each other is the refinement. Each request also has no
  more blocks than lie between its ends (`Spans`), of any sizes (`RequestsInOrder`).
* `NothingStranded` is about a history without faults, and `CalmInv` is what such a
  history keeps. `CalmL1`: only the batch at hand may land, and a used nonce means
  that it has. `OwnOnly`: while the flag is down the proposer has only batches of
  its own, in order up to the open one. `Reached`: once it is up, whatever is not on
  L1 ends in something the proposer will come to (the batch at hand, one of the
  requests or groups of a Resync, or one in the queue) that begins behind `inbox`,
  and that nothing before it meets: what precedes it and lands ends before it
  begins, or at the very end. At the rising edge that is the last of its own
  batches, or the Resync if others have landed part of that batch already
  (`ReachedAtRise`); at each handover it is the batch handed over
  (`ReachedAtHandOver`); a Resync passes it on to the last of its groups, and that
  to its last request (`ResyncReaches`, `GroupReaches`). A batch that is given up in
  our turn has landed, or its first block has (`EndsLanded`), which is why skipping
  it loses nothing. An idle proposer with nothing queued has nothing to come to, so
  all has landed.

### Only model-checked

Liveness (`BatchFlushed`, `BatchEnds`, and the fairness part of `BlocksLand`), for
which the installed provers have no backend, and the three properties that are
expected to fail. Everything else that a run checks is a theorem.

## 5. Findings and deviations

Each finding has a run that shows it:

1. `seq_assert`. A failed seal after an anchor refresh leaves the old anchor's
   batch open: the flush deferred to the seal is lost, and the next sealed block
   fails the assertion at `sequencer.rs:735`, after it was gossiped.
2. `ctx_empty`. An origin header handled before the L2 block of its number pops
   every header; the next tick panics.
3. `prop_empty`. A Resync whose first block alone exceeds the target size makes an
   empty batch: an assertion in a debug build, in a release build a panic after
   three attempts, and again after each restart.

`PROJECT.json` quotes the lines. Hazards that no property covers are listed
there with the reason.

Behaviour met on the way that a reader of the code may not expect. The models have
it where they reach it. Two of these the repository itself speaks of, a log line of
the status check and a TODO of the builder, which are quoted; of the others no line
says otherwise.

* Status check. It shares its condition with a 2 s timer (sequencer.rs:264), so the
  iterations that follow a check that failed skip it, and a block may be built
  behind the network's tip. The log of the failed check says "highest unsafe block
  id is greater than local block, waiting 2s" (sequencer.rs:271): nothing waits.
  `StatusSkip` of `Sequencer` is the branch; `BuildsOnTip` is about blocks built
  after a check that passed and leaves these out, as `unchecked` does for the
  properties of batches. Without that exception TLC finds `BuildsOnTip` violated.
* Anchor behind the parent's. `state_transition` compares the safe L1 header with
  the parent's anchor (sequencer.rs:220), but the block uses `ctx.anchor`
  (sequencer.rs:637), which an earlier turn may have set: on a peer's block a block
  can be anchored behind its parent. `AnchorNotBehindParent` says that it takes a
  parent of another process. What follows, if these blocks wait for a Resync
  together: `resync` groups them by anchor (manager.rs:159-178), the group of the
  lower anchor comes first, and the validation refuses to propose the groups as they
  are, for the parent's anchor or the order of the timestamps (manager.rs:883, 906).
  All blocks are then put together, but in the order of the old anchors
  (manager.rs:259): two blocks of anchors 1 and 0 become one request from 2 to 1.
  The contracts' expected last block id is 2, which manager.rs:473 reads as "already
  proposed", so the batch is skipped; or, where the two do not fit in one batch, the
  request for block 2 alone is refused up to the panic, and the restarted process
  asks for the same Resync. Either way the blocks do not land by this gateway.
  `Gateway` leaves it out (`Upward`); with that dropped and two anchors, TLC finds
  `NothingStranded` violated without a fault (blocks of size 1) and `BlocksLand`
  violated (of size 2). `Proposer` has it.
* Refusal for funds. The order's nonce is noted as the account's (sorting.rs:270:
  "TODO: this updates the cache with the wrong nonce, better to store the balance").
  It is the right one if the simulator looked at the nonce first, as a refusal for
  the nonce is another answer. If it did not, the sealed block hands the pool a
  nonce above the account's and the orders below it are dropped (tx_pool.rs:133),
  and later builds skip the account's next order until the cache is cleared.
  `CacheSound` and `PoolKeepsOrders` except that account, and show that no other one
  is hurt.
* Queue. The sequencer's batches are not limited by `max_blocks_per_batch`; those of
  a Resync are. (The models hand over no batch above the limit, see 2.5.) A batch
  handed over while the turn is "next" is attempted when the turn begins, before the
  Resync that would close the gap in front of it: it is refused three times, the
  process panics and restarts, and the Resync covers it.
* Proposer. A deposit, or an attempt that reverted unseen, uses the nonce, and the
  batch counts as confirmed (manager.rs:564); the next Resync repairs it. A batch
  found pending is logged as "skipping resync" and only its validation is skipped
  (manager.rs:229). A dry run returns before `LivePending` is decremented
  (manager.rs:406). A time shift above 255 s within one batch of a Resync is set to
  0 (manager.rs:821). The reorg check accepts any receipt, also of a transaction
  that was included again and reverted (client.rs:319).
* Fees. The caps learned may put the tip above the fee cap; such a transaction is
  refused three times and the process panics. A transaction sent again unchanged
  ("already known") counts as a failure. A cap learned stays the ground of later
  attempts of the batch, whatever the market does; only `bump_fees` doubles it. An
  underpriced answer without details is tried again at once, with the same fees,
  without a sleep and without being counted (manager.rs:509): on a node that never
  gives details this is an endless loop, which `BatchEnds` excludes by
  `SF_vars(Underpriced)`.
* Balance monitor. `.watch()` waits for ever when another transaction takes the
  deposit's nonce (balance.rs:155), at the start too, where nothing else runs yet;
  `maybe_alert_balance` alerts once, since `previous` is never reset
  (balance.rs:289-307).
* Lookahead. A whitelist call that straddles two epochs is stored with the old stamp
  (lookahead.rs:215).

## 6. Not modelled

* Encodings (batch parameters, blobs, compression), the anchor transaction,
  signing: pure conversions. `compressed_est` is a size that adds up; that of a
  real compressor is smaller, which makes batches larger and nothing else.
* Timestamps in the proposer: the time shifts of `request_from_blocks`, and of
  `validate_batch_params` how old an anchor or a timestamp may be (a refusal by
  choice); that timestamps grow from group to group is `InOrder`.
* In `Proposer` and `Gateway` the fees: an attempt is underpriced or not, by choice;
  `Account` has them. Gas, and the transaction of `build_eip1559`, which is never
  built (`should_use_blobs` is always true).
* Anchors that go down, in `Gateway` (section 5), and what a Resync repairs after
  the panic of a failed reorg check: `Proposer` ends its account of a block at the
  panic, `Gateway` has no L1 reorg.
* A soft block that the endpoint refuses after its peers took it: of a block gossiped
  before an error only the panic's (`SealPanics`) is adopted by the network.
* L1 reorgs in `Account`, `Gateway` and `Lookahead`, a whitelist that changes its
  answer, and a whitelist call that straddles two epochs.
* RPC server, simulator and soft block clients: I/O whose outcomes are choices of
  the models.
* `dry_run`, metrics, logging, alerts, configuration.
* The proposer's list of transactions pending at the start
  (`get_pending_proposals`): it is logged, and in a
  Resync only skips the validation of a batch.

## 7. Plan

Modelled: every component whose correctness depends on the order of events, the
account and the composition. What is left:

1. Proofs: `PhasesFollow` composed with `Sequencer`, whose environment it describes
   while a gateway is informed and its window does not change (so far the two
   modules share `Turns`); the L1 view of `Proposer` as a refinement of `Account`'s,
   so that `OneNonce` and `OneLanding` become one statement.
2. Pure modules: the time shifts and the timestamps of a Resync (manager.rs:808-911,
   `checks.rs`) against a reference definition, the blob split (`propose.rs`,
   `blob.rs`).
3. L1 reorgs in `Gateway`, under the fault bound, and anchors that go down, with the
   weaker promise that the code then keeps.
