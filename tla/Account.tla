------------------------------- MODULE Account -------------------------------
(***************************************************************************)
(* The operator's account on L1 and the two tasks that send from it: the   *)
(* proposer (crates/proposer/src/manager.rs, client.rs), which negotiates  *)
(* the fees of a batch with the mempool, and the balance monitor           *)
(* (crates/common/src/balance.rs), which deposits bond.  They share the    *)
(* account's nonce and know nothing of each other.                         *)
(*                                                                         *)
(* What a batch holds and whether its turn has passed is Proposer's        *)
(* business.  Here a batch is a number, and a transaction is its nonce,    *)
(* its batch (None for a deposit) and its three fees.                      *)
(*                                                                         *)
(* Environment: L1, the mempool of its node (which keeps blob transactions *)
(* and others of one account apart, and replaces a blob transaction only   *)
(* at twice its fees), block builders, RPC errors, and crashes.            *)
(***************************************************************************)
EXTENDS Integers, Sequences

CONSTANTS
  None,               (* no batch, no nonce used yet, no cap learned       *)
  Estimates,          (* fee estimates of the node, the defaults included  *)
  MinPriorityFee,     (* min_priority_fee                                  *)
  Buffer,             (* BUFFER_PERCENTAGE, 140                            *)
  MaxRetries,         (* 3                                                 *)
  MaxFee,             (* bound: L1 includes what pays as much per gas      *)
  MaxBatch,           (* bound: batches                                    *)
  MaxNonce            (* bound: nonces of the account                      *)

(* max_fee_per_gas, max_priority_fee_per_gas, max_fee_per_blob_gas.        *)
Kinds == {"fee", "tip", "blob"}
Fees == [Kinds -> Nat]

Tx == [nonce: Nat, batch: Nat \cup {None}, fees: Fees]
Receipts == [tx: Tx, ok: BOOLEAN]

ASSUME NoneAssumption ==
  None \notin Nat /\ None \notin Tx /\ None \notin Receipts
ASSUME EstimateAssumption ==
  Estimates \subseteq Fees /\ \A est \in Estimates : est["tip"] <= est["fee"]
ASSUME FeeAssumption ==
  MinPriorityFee \in Nat /\ Buffer \in Nat /\ Buffer >= 100
ASSUME AccountBounds ==
  {MaxRetries, MaxFee, MaxBatch, MaxNonce} \subseteq Nat \ {0}

VARIABLES
  pc,                 (* where propose_batch is                            *)
  batch,              (* the batch at hand, 0 before the first             *)
  retries,            (* as in propose_batch                               *)
  bump_fees,          (* as in propose_batch                               *)
  caps,               (* tip_cap, blob_fee_cap and gas_fee_cap             *)
  last_used_nonce,    (* None for u64::MAX                                 *)
  tx,                 (* the transaction of the attempt, or None           *)
  monitor,            (* where the balance monitor is                      *)
  deposit_nonce,      (* the nonce its provider filled in                  *)
  pool,               (* L1: the account's transactions in the mempool     *)
  bundles,            (* L1: those that only block builders know           *)
  mined,              (* L1: what used each nonce of the account           *)
  receipt,            (* L1: what used last_used_nonce since it was read   *)
  named               (* history: fees named since the mempool took a      *)
                      (* transaction or the batch began                    *)

attemptVars == <<batch, retries, bump_fees, caps, last_used_nonce>>
monitorVars == <<monitor, deposit_nonce>>
l1Vars == <<pool, bundles, mined>>
vars == <<pc, attemptVars, tx, monitorVars, l1Vars, receipt, named>>

NoCaps == [k \in Kinds |-> None]

Init ==
  /\ pc = "boot" /\ batch = 0 /\ retries = 0 /\ bump_fees = FALSE
  /\ caps = NoCaps /\ last_used_nonce = None /\ tx = None
  /\ monitor = "check" /\ deposit_nonce = None
  /\ pool = {} /\ bundles = {} /\ mined = <<>> /\ receipt = None
  /\ named = {}

(* The process aborts, with either task, and starts with the balance check.*)
Restart ==
  /\ pc' = "boot" /\ retries' = 0 /\ bump_fees' = FALSE
  /\ caps' = NoCaps /\ last_used_nonce' = None /\ tx' = None
  /\ monitor' = "check" /\ deposit_nonce' = None
  /\ receipt' = None /\ named' = {}
  /\ UNCHANGED <<batch, l1Vars>>

-----------------------------------------------------------------------------
(* The account as the node answers for it: latest and pending.             *)
AccountNonce == Len(mined)

Taken(txs) == {t.nonce : t \in txs}
Following(n, txs) ==
  n \notin Taken(txs) /\ AccountNonce .. n - 1 \subseteq Taken(txs)

Faulty_PendingNonce(n) == n >= AccountNonce /\ Following(n, pool \cup bundles)
PendingNonce(n) == n >= AccountNonce /\ Following(n, pool)

Deposits == {t \in pool : t.batch = None}
Queued == {t \in pool : t.batch # None /\ t.nonce = tx.nonce}

-----------------------------------------------------------------------------
(* The fees of an attempt: the estimates with their buffer, or what the    *)
(* mempool asked for; doubled after an attempt that was not included; and  *)
(* no less than min_priority_fee.                                          *)
Buffered(x) == (x * Buffer) \div 100

RawFee(est, k) ==
  IF caps[k] = None THEN Buffered(est[k])
  ELSE IF k = "fee" THEN caps[k] + 1 ELSE Buffered(caps[k]) + 1

Faulty_AtLeastMin(k, x) ==
  IF k = "tip" /\ x < MinPriorityFee THEN MinPriorityFee ELSE x
AtLeastMin(k, x) ==
  IF k # "blob" /\ x < MinPriorityFee THEN MinPriorityFee ELSE x

FeesOf(est) ==
  [k \in Kinds |->
     AtLeastMin(k, IF bump_fees THEN 2 * RawFee(est, k) ELSE RawFee(est, k))]

(* The mempool takes a replacement that pays twice for each of the three.  *)
Low(k) == \E q \in Queued : tx.fees[k] < 2 * q.fees[k]

-----------------------------------------------------------------------------
(* propose_batch: an attempt ends in the next one; or in an error, counted *)
(* up to the panic; or the batch is done.                                  *)
Again ==
  /\ pc' = "nonce" /\ tx' = None
  /\ UNCHANGED <<batch, retries>>

Fails ==
  /\ retries + 1 < MaxRetries
  /\ retries' = retries + 1
  /\ pc' = "nonce" /\ tx' = None
  /\ UNCHANGED <<batch, bump_fees, caps>>

Faulty_Done ==
  /\ pc' = "idle" /\ retries' = 0 /\ bump_fees' = FALSE
  /\ caps' = NoCaps /\ last_used_nonce' = None /\ tx' = tx
  /\ receipt' = None /\ named' = {}
  /\ UNCHANGED <<batch, monitorVars, l1Vars>>

Done ==
  /\ pc' = "idle" /\ retries' = 0 /\ bump_fees' = FALSE
  /\ caps' = NoCaps /\ last_used_nonce' = None /\ tx' = None
  /\ receipt' = None /\ named' = {}
  /\ UNCHANGED <<batch, monitorVars, l1Vars>>

TakeBatch ==
  /\ pc = "idle" /\ batch < MaxBatch
  /\ batch' = batch + 1 /\ pc' = "nonce"
  /\ UNCHANGED <<retries, bump_fees, caps, last_used_nonce, tx, monitorVars,
                 l1Vars, receipt, named>>

Attempting == pc \in {"nonce", "build", "relay", "private", "send", "wait"}

RpcError ==
  /\ Attempting /\ Fails
  /\ UNCHANGED <<last_used_nonce, monitorVars, l1Vars, receipt, named>>

LastRetryFails ==
  /\ Attempting /\ retries + 1 = MaxRetries
  /\ Restart

(* get_nonce, and the batch is done if the nonce of the last attempt was   *)
(* used.                                                                   *)
Faulty_NoncePassed ==
  last_used_nonce # None /\ AccountNonce > last_used_nonce + 1
NoncePassed == last_used_nonce # None /\ AccountNonce > last_used_nonce

GetNonce ==
  /\ pc = "nonce"
  /\ \/ NoncePassed /\ Done
     \/ /\ ~NoncePassed
        /\ last_used_nonce' = AccountNonce /\ receipt' = None
        /\ pc' = "build"
        /\ UNCHANGED <<batch, retries, bump_fees, caps, tx, monitorVars,
                       l1Vars, named>>

(* build_eip4844: the gas estimation refuses the batch for good, or its    *)
(* last block is still ahead of L1; or the transaction is built.           *)
GasEstimationGivesUp == pc = "build" /\ Done

TimestampTooLarge ==
  /\ pc = "build" /\ Again
  /\ UNCHANGED <<bump_fees, caps, last_used_nonce, monitorVars, l1Vars,
                 receipt, named>>

BuildTx ==
  /\ pc = "build"
  /\ \E est \in Estimates :
       tx' = [nonce |-> last_used_nonce, batch |-> batch, fees |-> FeesOf(est)]
  /\ pc' = "relay"
  /\ UNCHANGED <<attemptVars, monitorVars, l1Vars, receipt, named>>

(* To the builders, if there is a relay; on its first error, and after a   *)
(* while, to the mempool.                                                  *)
Relay ==
  /\ pc = "relay"
  /\ \/ \E old \in {{}} \cup {{t} : t \in bundles} : bundles' = old \cup {tx}
        /\ pc' \in {"private", "send"}
     \/ UNCHANGED bundles /\ pc' = "send"
  /\ UNCHANGED <<attemptVars, tx, monitorVars, pool, mined, receipt,
                 named>>

NotLanded ==
  /\ pc = "private" /\ pc' = "send"
  /\ UNCHANGED <<attemptVars, tx, monitorVars, l1Vars, receipt, named>>

(* send_raw_tx: the mempool refuses it for good, or for a low fee, or      *)
(* takes it.                                                               *)
AboveCap(t) == t.fees["tip"] > t.fees["fee"]
Refused ==
  tx.nonce < AccountNonce \/ AboveCap(tx) \/ Deposits # {} \/ tx \in pool

SendRefused ==
  /\ pc = "send" /\ Refused /\ Fails
  /\ UNCHANGED <<last_used_nonce, monitorVars, l1Vars, receipt, named>>

Faulty_Learned(k, q) == [caps EXCEPT ![k] = q.fees[k]]
Learned(k, q) == [caps EXCEPT ![k] = 2 * q.fees[k]]

Underpriced ==
  /\ pc = "send" /\ ~Refused
  /\ \E k \in Kinds, q \in Queued :
       /\ Low(k)
       /\ caps' = Learned(k, q)
       /\ named' = named \cup {k}
  /\ Again
  /\ UNCHANGED <<bump_fees, last_used_nonce, monitorVars, l1Vars, receipt>>

(* The answer of some nodes has no details: nothing is learned from it.    *)
UnderpricedUnknown ==
  /\ pc = "send" /\ ~Refused /\ \E k \in Kinds : Low(k)
  /\ Again
  /\ UNCHANGED <<bump_fees, caps, last_used_nonce, monitorVars, l1Vars,
                 receipt, named>>

Sent ==
  /\ pc = "send" /\ ~Refused /\ \A k \in Kinds : ~Low(k)
  /\ pool' = (pool \ Queued) \cup {tx}
  /\ pc' = "wait" /\ named' = {}
  /\ UNCHANGED <<attemptVars, tx, monitorVars, bundles, mined, receipt>>

(* The receipt, or none for a few blocks.                                  *)
Receipt(ok) ==
  /\ pc \in {"private", "wait"}
  /\ receipt = [tx |-> tx, ok |-> ok]

Proposed == Receipt(TRUE) /\ Done

Reverted ==
  /\ Receipt(FALSE) /\ Fails
  /\ last_used_nonce' = None /\ receipt' = None
  /\ UNCHANGED <<monitorVars, l1Vars, named>>

NotIncluded ==
  /\ pc = "wait" /\ ~Receipt(TRUE) /\ ~Receipt(FALSE)
  /\ AccountNonce > tx.nonce \/ tx.fees["fee"] < MaxFee
  /\ bump_fees' = TRUE /\ Again
  /\ UNCHANGED <<caps, last_used_nonce, monitorVars, l1Vars, receipt, named>>

-----------------------------------------------------------------------------
(* The balance monitor, and the same check before anything else starts.    *)
MonitorDone ==
  /\ monitor' = "sleep" /\ deposit_nonce' = None
  /\ pc' = IF pc = "boot" THEN "idle" ELSE pc
  /\ UNCHANGED <<attemptVars, tx, receipt, named>>

MonitorFails ==
  \/ pc = "boot" /\ Restart
  \/ pc # "boot" /\ MonitorDone /\ UNCHANGED l1Vars

(* ensure_contract_balance: there is enough bond, or it asks for a deposit *)
(* that the account cannot pay, or that is then filled in and sent.        *)
EnoughBond ==
  /\ monitor \in {"check", "sleep"} /\ MonitorDone
  /\ UNCHANGED l1Vars

NotEnoughTokens == monitor \in {"check", "sleep"} /\ MonitorFails

FillDeposit ==
  /\ monitor \in {"check", "sleep"}
  /\ \E n \in 0 .. MaxNonce - 1 : PendingNonce(n) /\ deposit_nonce' = n
  /\ monitor' = "send"
  /\ UNCHANGED <<pc, attemptVars, tx, l1Vars, receipt, named>>

(* One account has transactions of one sort only in the mempool.           *)
NoFees == [k \in Kinds |-> 0]
DepositTx == [nonce |-> deposit_nonce, batch |-> None, fees |-> NoFees]

DepositRefused ==
  \/ \E t \in pool : t.batch # None
  \/ deposit_nonce < AccountNonce \/ DepositTx \in pool

SendDeposit ==
  /\ monitor = "send" /\ ~DepositRefused
  /\ pool' = pool \cup {DepositTx}
  /\ monitor' = "watch"
  /\ UNCHANGED <<pc, attemptVars, tx, deposit_nonce, bundles, mined, receipt,
                 named>>

DepositFails == monitor = "send" /\ MonitorFails

(* Before anything else starts there may be an approval to send first,     *)
(* which is sent and watched like a deposit.                               *)
Approved ==
  /\ pc = "boot" /\ monitor' = "check" /\ deposit_nonce' = None
  /\ UNCHANGED <<pc, attemptVars, tx, receipt, named>>

DepositSeen ==
  /\ monitor = "watch"
  /\ deposit_nonce < AccountNonce /\ mined[deposit_nonce + 1].batch = None
  /\ MonitorDone \/ Approved
  /\ UNCHANGED l1Vars

-----------------------------------------------------------------------------
(* L1 includes the next transaction of the account, or a bundle of it; the *)
(* contract takes it or reverts.                                           *)
IncludeTx(t) ==
  /\ t.nonce = AccountNonce /\ AccountNonce < MaxNonce /\ ~AboveCap(t)
  /\ \E ok \in BOOLEAN :
       /\ mined' = Append(mined, [batch |-> t.batch, ok |-> ok])
       /\ receipt' = IF t.nonce = last_used_nonce THEN [tx |-> t, ok |-> ok]
                                                  ELSE receipt
  /\ pool' = {u \in pool : u.nonce > AccountNonce}
  /\ bundles' = {u \in bundles : u.nonce > AccountNonce}
  /\ named' = {}
  /\ UNCHANGED <<pc, attemptVars, tx, monitorVars>>

Include == \E t \in pool \cup bundles : IncludeTx(t)

(* The blocks a bundle was meant for are past.                             *)
BundleExpires ==
  /\ \E t \in bundles : bundles' = bundles \ {t}
  /\ UNCHANGED <<pc, attemptVars, tx, monitorVars, pool, mined, receipt,
                 named>>

Crash == Restart

Propose ==
  \/ TakeBatch
  \/ GetNonce
  \/ GasEstimationGivesUp
  \/ TimestampTooLarge
  \/ BuildTx
  \/ Relay
  \/ NotLanded
  \/ SendRefused
  \/ Underpriced
  \/ UnderpricedUnknown
  \/ Sent
  \/ Proposed
  \/ Reverted
  \/ NotIncluded
  \/ RpcError
  \/ LastRetryFails

Monitor ==
  \/ EnoughBond
  \/ NotEnoughTokens
  \/ FillDeposit
  \/ SendDeposit
  \/ DepositFails
  \/ DepositSeen

L1 == Include \/ BundleExpires

Next == Propose \/ Monitor \/ L1 \/ Crash

Spec == Init /\ [][Next]_vars

(* Calls return, L1 includes what pays well, and its clock passes the last *)
(* block of the batch (TimestampTooLarge ends).  A node that gives         *)
(* details gives them: an underpriced answer is not for ever without.      *)
IncludeDear == \E t \in pool : t.fees["fee"] >= MaxFee /\ IncludeTx(t)

FairSpec ==
  /\ Spec /\ WF_vars(Propose) /\ WF_vars(IncludeDear)
  /\ SF_vars(BuildTx) /\ SF_vars(Underpriced)

-----------------------------------------------------------------------------
(* Every variable keeps the type the code gives it.                        *)
TypeOK ==
  /\ pc \in {"boot", "idle", "nonce", "build", "relay", "private",
            "send", "wait"}
  /\ batch \in Nat /\ retries \in Nat /\ bump_fees \in BOOLEAN
  /\ caps \in [Kinds -> Nat \cup {None}]
  /\ last_used_nonce \in Nat \cup {None}
  /\ pc \notin {"boot", "idle", "nonce"} => last_used_nonce # None
  /\ tx \in Tx \cup {None}
  /\ pc \in {"relay", "private", "send", "wait"} <=> tx # None
  /\ monitor \in {"check", "sleep", "send", "watch"}
  /\ deposit_nonce \in Nat \cup {None}
  /\ monitor \in {"send", "watch"} <=> deposit_nonce # None
  /\ pool \subseteq Tx /\ bundles \subseteq Tx
  /\ mined \in Seq([batch: Nat \cup {None}, ok: BOOLEAN])
  /\ receipt \in Receipts \cup {None}
  /\ named \subseteq Kinds

(* The negotiation makes progress: as long as the mempool holds the same   *)
(* transaction, it never finds the same fee too low twice, whatever the    *)
(* node estimates in between.  The caps learned are kept for the batch and *)
(* what is computed of them is at least twice what was queued.             *)
NamedOnce == pc = "send" => \A k \in named : ~Low(k)

(* An attempt whose priority fee is above its fee cap, which no node       *)
(* takes, can only come of a cap learned for this batch: the three fees    *)
(* are raised by different rules (client.rs:239-258).                      *)
TipAboveCapIsLearned ==
  tx # None => (AboveCap(tx) => caps["tip"] # None \/ caps["fee"] # None)

(* Nothing in the mempool waits for a transaction the mempool does not     *)
(* have: the nonces of the two tasks leave no gap, although one asks for   *)
(* the latest and the other for the pending one.                           *)
NoNonceGap ==
  \A t \in pool : AccountNonce .. t.nonce \subseteq Taken(pool)

(* A batch is proposed once: of all the transactions one batch had, over   *)
(* replacements, bundles that builders still hold, lost answers, reverts   *)
(* and deposits that take its nonce, L1 takes at most one (manager.rs:564).*)
OneLanding ==
  \A i, j \in DOMAIN mined :
    mined[i].ok /\ mined[j].ok /\ mined[i].batch = mined[j].batch
      => i = j \/ mined[i].batch = None

(* A batch at hand is proposed, given up, or fails with the process: no    *)
(* sequence of low fees, replacements and restarted negotiations goes on   *)
(* for ever, on a node that tells at some time by how much a fee was too   *)
(* low.  One that never does (UnderpricedUnknown) keeps the code in the    *)
(* `continue' of manager.rs:509, which neither sleeps nor counts:          *)
(* SF_vars(Underpriced) leaves that out.  (The bound on nonces may end the *)
(* batch too.)                                                             *)
BatchEnds == Attempting ~> ~Attempting \/ AccountNonce = MaxNonce

=============================================================================
