------------------------------ MODULE Builder ------------------------------
(***************************************************************************)
(* The block builder: the transaction pool (crates/sequencer/src/          *)
(* tx_pool.rs) and the block in construction, SortData (sorting.rs), as    *)
(* the sequencer loop drives them.  A build takes a copy of the pool's     *)
(* executable orders, has the simulator execute a few of them at a time on *)
(* the state built so far, applies the best, and at the seal gives the     *)
(* nonces it learned back to the pool's cache.                             *)
(*                                                                         *)
(* Environment: users' orders, the simulator (its answers come in any      *)
(* order, and after the build that asked is over), the blocks of other     *)
(* gateways and L2 reorgs.  Prices, gas and sizes are choices; a state id  *)
(* is the number of orders applied, and Stale for a build that is over.    *)
(***************************************************************************)
EXTENDS Integers, FiniteSets

CONSTANTS
  None,               (* no nonce known, no build, no best order           *)
  Senders,
  Orders,             (* the orders users may send                         *)
  Fees,               (* the base fees blocks may have                     *)
  MaxSims,            (* max_sims_per_loop                                 *)
  MaxBlock,           (* bound: L2 block numbers                           *)
  MaxStale            (* bound: late answers when a build starts           *)

ASSUME FeeAssumption == Fees \subseteq Nat
ASSUME BuilderBounds == {MaxBlock, MaxStale} \subseteq Nat
(* A configuration that never simulates an order would not build.          *)
ASSUME SimsAssumption == MaxSims \in Nat \ {0}
ASSUME NoneAssumption == None \notin Nat \cup Orders

(* cap is the highest base fee the order pays.                             *)
ASSUME OrderAssumption == Orders \subseteq [sender: Senders, nonce: Nat, cap: Nat]

Nonces == [Senders -> Nat \cup {None}]
NoNonces == [s \in Senders |-> None]
Stale == -1

VARIABLES
  pool,               (* tx_lists: at most one order per sender and nonce  *)
  cache,              (* nonces: account nonces the pool remembers         *)
  cache_block,        (* nonces.valid_block: they hold for this block      *)
  build,              (* the SortData, None in Sync                        *)
  sims,               (* simulations asked and not yet answered            *)
  parent,             (* the parent block's number                         *)
  chain_nonce,        (* the account nonces of the parent's state          *)
  reorged,            (* history: a reorg since the cache was last empty   *)
  doubtful            (* history: senders whose nonce in the cache is that *)
                      (* of an order refused for funds, not the account's  *)

vars == <<pool, cache, cache_block, build, sims, parent, chain_nonce, reorged,
          doubtful>>
poolVars == <<pool, cache, cache_block, reorged, doubtful>>
chainVars == <<parent, chain_nonce>>

(* SortData; base holds the account nonces of the anchored state, and      *)
(* unfunded, history, the senders whose nonce in state is that of an order *)
(* refused for funds and not the account's.                                *)
SortData == [block: Nat, fee: Fees, base: [Senders -> Nat],
             active: SUBSET Orders, orders: SUBSET Orders,
             best: Orders \cup {None}, in_flight: Nat,
             state: Nonces, sorting: Nonces, unfunded: SUBSET Senders,
             waiting: BOOLEAN, seal: BOOLEAN, discard: BOOLEAN]
ASSUME SortDataAssumption == None \notin SortData

(* A simulation of order on the state id, where the account's nonce is     *)
(* nonce.                                                                  *)
Sim == [order: Orders, id: Nat \cup {Stale}, nonce: Nat]

Init ==
  /\ pool = {} /\ cache = NoNonces /\ cache_block = 0
  /\ build = None /\ sims = {}
  /\ parent = 0 /\ chain_nonce = [s \in Senders |-> 0]
  /\ reorged = FALSE /\ doubtful = {}

-----------------------------------------------------------------------------
(* TxList.                                                                 *)
Of(orders, s) == {o \in orders : o.sender = s}

Put(orders, o) ==
  {p \in orders : p.sender # o.sender \/ p.nonce # o.nonce} \cup {o}

Lowest(orders) == {o \in orders : \A p \in orders : o.nonce <= p.nonce}
HasTxByFee(orders, fee) == \E o \in Lowest(orders) : fee <= o.cap
HasTxByNonce(orders, n, fee) == \E o \in orders : o.nonce = n /\ fee <= o.cap

(* forward: the orders below the sender's nonce go.                        *)
Faulty_Forward(orders, nonces) ==
  {o \in orders : nonces[o.sender] # None => o.nonce > nonces[o.sender]}
Forward(orders, nonces) ==
  {o \in orders : nonces[o.sender] # None => o.nonce >= nonces[o.sender]}

(* SortingNonces: the nonces of applied orders over those of the state.    *)
NonceOf(d, s) == IF d.sorting[s] # None THEN d.sorting[s] ELSE d.state[s]
Faulty_Learned(d) ==
  [s \in Senders |-> IF d.state[s] # None THEN d.state[s] ELSE d.sorting[s]]
Learned(d) == [s \in Senders |-> NonceOf(d, s)]

(* clear(): the numbers stay, their block too.                             *)
ClearNonces == cache' = NoNonces /\ reorged' = FALSE /\ doubtful' = {}
KeepNonces == UNCHANGED <<cache, reorged, doubtful>>

-----------------------------------------------------------------------------
(* fetch_txs: the order goes to the build, if there is one, then to the    *)
(* pool, which refuses it when its cache holds for the next block and says *)
(* the nonce is used.                                                      *)
Faulty_WakesUp(d) == d.waiting
WakesUp(d) == FALSE

HandleNewTx(d, o) ==
  IF /\ d.fee <= o.cap
     /\ NonceOf(d, o.sender) # None => o.nonce >= NonceOf(d, o.sender)
  THEN [d EXCEPT !.waiting = WakesUp(d), !.active = Put(@, o)]
  ELSE d

ValidParent == cache_block = parent + 1
Refused(o) ==
  ValidParent /\ cache[o.sender] # None /\ o.nonce < cache[o.sender]

FetchTx ==
  /\ \E o \in Orders :
       /\ build' = IF build = None THEN None ELSE HandleNewTx(build, o)
       /\ pool' = IF Refused(o) THEN pool ELSE Put(pool, o)
  /\ IF ValidParent THEN KeepNonces ELSE ClearNonces
  /\ UNCHANGED <<cache_block, sims, chainVars>>

(* active_orders: with a cache for this block, the orders from the cached  *)
(* nonce on; of the other senders, all; if the first to execute pays.      *)
ActiveOrders(fee) ==
  LET valid == cache_block = parent + 1
      known(s) == valid /\ cache[s] # None
      runs(s) == IF known(s) THEN HasTxByNonce(Of(pool, s), cache[s], fee)
                             ELSE HasTxByFee(Of(pool, s), fee)
  IN  {o \in pool : /\ runs(o.sender)
                    /\ known(o.sender) => o.nonce >= cache[o.sender]}

(* The anchor is simulated: a new SortData on the parent.                  *)
StartBuild ==
  /\ build = None
  /\ parent < MaxBlock /\ Cardinality(sims) <= MaxStale
  /\ \E fee \in Fees :
       build' = [block |-> parent + 1, fee |-> fee, base |-> chain_nonce,
                 active |-> ActiveOrders(fee), orders |-> {},
                 best |-> None, in_flight |-> 0,
                 state |-> NoNonces, sorting |-> NoNonces, unfunded |-> {},
                 waiting |-> FALSE, seal |-> FALSE, discard |-> FALSE]
  /\ IF ValidParent THEN KeepNonces ELSE ClearNonces
  /\ UNCHANGED <<pool, cache_block, sims, chainVars>>

-----------------------------------------------------------------------------
(* maybe_apply_next: the best order is applied; the block may now be big.  *)
Applied(d, big) ==
  IF d.best = None THEN d
  ELSE [d EXCEPT !.orders = @ \cup {d.best},
                 !.sorting[d.best.sender] = d.best.nonce + 1,
                 !.best = None, !.seal = @ \/ big]

(* get_next_best: first_ready of each sender, the order of the known nonce *)
(* or the lowest, if it pays.                                              *)
FirstReady(d, s) ==
  LET mine == Of(d.active, s)
      next == IF NonceOf(d, s) # None
              THEN {o \in mine : o.nonce = NonceOf(d, s)}
              ELSE Lowest(mine)
  IN  {o \in next : d.fee <= o.cap}

AllReady(d) == UNION {FirstReady(d, s) : s \in Senders}

(* The account's nonce on the state built so far.                          *)
StateNonce(d, s) == d.base[s] + Cardinality(Of(d.orders, s))

(* maybe_sim_next_batch, in Sorting when not told to seal or discard.      *)
Faulty_Busy(d) == d.seal
Busy(d) == d.in_flight > 0 \/ d.seal

SimNextBatch ==
  /\ build # None /\ ~build.discard /\ ~Busy(build)
  /\ build.best # None \/ ~build.waiting
  /\ \E big \in BOOLEAN :
       LET d == Applied(build, big)
       IN  \/ /\ d.waiting
              /\ build' = d
              /\ UNCHANGED sims
           \/ /\ ~d.waiting
              /\ \E picked \in SUBSET AllReady(d) :
                   LET n == Cardinality(picked)
                   IN  /\ n = MaxSims \/ (n < MaxSims /\ picked = AllReady(d))
                       /\ build' = [d EXCEPT !.active = @ \ picked,
                                             !.in_flight = @ + n,
                                             !.waiting = (d.in_flight + n = 0)]
                       /\ sims' = sims \cup
                            {[order |-> o, id |-> Cardinality(d.orders),
                              nonce |-> StateNonce(d, o.sender)] : o \in picked}
  /\ UNCHANGED <<poolVars, chainVars>>

-----------------------------------------------------------------------------
(* handle_sim.  An answer counts if it was simulated on the current state. *)
Faulty_IsValid(d, sim) == TRUE
IsValid(d, sim) == sim.id = Cardinality(d.orders)

(* Executed, in success or revert: dropped if its gas does not fit, else   *)
(* the better of it and the best so far stays, the other is put back.      *)
Executed(d, o) ==
  {d, [d EXCEPT !.best = o,
                !.active = IF d.best = None THEN @ ELSE Put(@, d.best)]}
  \cup (IF d.best = None THEN {} ELSE {[d EXCEPT !.active = Put(@, o)]})

(* NotEnoughGas seals, StateIdNotFound discards, an unknown reason is only *)
(* logged.                                                                 *)
NotExecuted(d) == {[d EXCEPT !.seal = TRUE], [d EXCEPT !.discard = TRUE], d}

(* insert_state with the order's nonce, whatever the account's is.         *)
NotesOwn(d, sim) ==
  LET s == sim.order.sender
  IN  [d EXCEPT !.state[s] = sim.order.nonce,
                !.unfunded = IF sim.order.nonce = sim.nonce THEN @ \ {s}
                                                            ELSE @ \cup {s}]

(* InsufficientFunds: and the sender's orders leave the build.  The        *)
(* simulator may look at the funds before the nonce.  CapLessThanBaseFee   *)
(* cannot happen: only orders that pay are simulated.                      *)
NoFunds(d, sim) ==
  [NotesOwn(d, sim) EXCEPT !.active = @ \ Of(@, sim.order.sender)]

Underpays(d, sim) == {e \in {NotesOwn(d, sim)} : sim.order.cap < d.fee}

(* NonceTooLow and NonceTooHigh tell the account's nonce.                  *)
ToldNonce(d, sim) ==
  [d EXCEPT !.state[sim.order.sender] = sim.nonce,
            !.unfunded = @ \ {sim.order.sender}]

Outcomes(d, sim) ==
  NotExecuted(d) \cup {NoFunds(d, sim)} \cup Underpays(d, sim)
    \cup (IF sim.order.nonce = sim.nonce THEN Executed(d, sim.order)
                                         ELSE {ToldNonce(d, sim)})

Counts(sim) == build # None /\ IsValid(build, sim)

HandleSim ==
  /\ \E sim \in sims :
       /\ sims' = sims \ {sim}
       /\ \/ /\ Counts(sim)
             /\ build' \in Outcomes([build EXCEPT !.in_flight = @ - 1], sim)
          \/ ~Counts(sim) /\ UNCHANGED build
  /\ UNCHANGED <<poolVars, chainVars>>

-----------------------------------------------------------------------------
(* A build ends: its simulations still answer, for a state nobody is on.   *)
EndBuild ==
  /\ build' = None
  /\ sims' = {[sim EXCEPT !.id = Stale] : sim \in sims}

(* should_discard.                                                         *)
DiscardBlock ==
  /\ build # None /\ build.discard
  /\ EndBuild /\ ClearNonces
  /\ UNCHANGED <<pool, cache_block, chainVars>>

(* seal_block succeeds, when told to or at its time: update_new_block      *)
(* takes the learned nonces, over those it has if they hold for the same   *)
(* block, and drops the orders they supersede; ours is the new parent.     *)
SealBlock ==
  /\ build # None /\ ~build.discard
  /\ pool' = Forward(pool, Learned(build))
  /\ cache' = [s \in Senders |->
                 IF Learned(build)[s] # None THEN Learned(build)[s]
                 ELSE IF cache_block = build.block THEN cache[s] ELSE None]
  /\ cache_block' = build.block + 1
  /\ reorged' = (reorged /\ cache_block = build.block)
  /\ doubtful' = {s \in Senders :
       IF Learned(build)[s] # None
       THEN s \in build.unfunded /\ build.sorting[s] = None
       ELSE s \in doubtful /\ cache_block = build.block}
  /\ parent' = build.block
  /\ chain_nonce' = [s \in Senders |-> StateNonce(build, s)]
  /\ EndBuild

(* seal_block fails softly: refused, or nil for the simulator.             *)
SealRefused ==
  /\ build # None /\ ~build.discard
  /\ EndBuild /\ ClearNonces
  /\ UNCHANGED <<pool, cache_block, chainVars>>

(* report_and_sanity_check, for one sender of the pool.                    *)
SanityCheck ==
  /\ \E o \in pool : /\ ValidParent
                     /\ cache[o.sender] \notin {None, chain_nonce[o.sender]}
  /\ ClearNonces
  /\ UNCHANGED <<pool, cache_block, build, sims, chainVars>>

-----------------------------------------------------------------------------
(* The block of another gateway, with orders of some senders.              *)
PeerBlock ==
  /\ parent < MaxBlock
  /\ parent' = parent + 1
  /\ \E moved \in SUBSET Senders :
       /\ \A s \in moved : \E o \in Of(Orders, s) : o.nonce = chain_nonce[s]
       /\ chain_nonce' = [s \in Senders |->
            IF s \in moved THEN chain_nonce[s] + 1 ELSE chain_nonce[s]]
  /\ UNCHANGED <<poolVars, build, sims>>

(* An L2 reorg: another block in place of the parent or of one before it.  *)
Reorg ==
  /\ parent' \in 1 .. parent
  /\ \E lost \in [Senders -> 0 .. MaxBlock] :
       chain_nonce' = [s \in Senders |-> chain_nonce[s] - lost[s]]
  /\ \A s \in Senders : chain_nonce'[s] >= 0
  /\ reorged' = TRUE
  /\ UNCHANGED <<pool, cache, cache_block, doubtful, build, sims>>

Next ==
  \/ FetchTx
  \/ HandleSim
  \/ SanityCheck
  \/ StartBuild
  \/ SimNextBatch
  \/ DiscardBlock
  \/ SealBlock
  \/ SealRefused
  \/ PeerBlock
  \/ Reorg

Spec == Init /\ [][Next]_vars

-----------------------------------------------------------------------------
(* Every variable keeps the type the code gives it; in_flight is unsigned. *)
TypeOK ==
  /\ pool \subseteq Orders /\ sims \subseteq Sim
  /\ cache \in Nonces /\ cache_block \in Nat
  /\ build \in SortData \cup {None}
  /\ parent \in Nat /\ chain_nonce \in [Senders -> Nat]
  /\ reorged \in BOOLEAN /\ doubtful \subseteq Senders

(* The block in construction can be executed: the orders of each sender    *)
(* use its nonces one by one from the one it has on the parent's state,    *)
(* whatever answers arrive late, twice or for another state.               *)
BlockExecutable ==
  build # None =>
    \A s \in Senders :
      {o.nonce : o \in Of(build.orders, s)} =
        build.base[s] .. StateNonce(build, s) - 1

(* in_flight_sims counts the answers still to come for the current state:  *)
(* it never drops below zero, and the build neither waits for an answer    *)
(* that will not come nor applies an order while others are simulated.     *)
InFlightExact ==
  build # None =>
    build.in_flight = Cardinality({sim \in sims : IsValid(build, sim)})

(* A build that waits for new orders has nothing left to do: no order it   *)
(* could simulate, none to apply, no answer to come.                       *)
NoLostWakeUp ==
  build # None /\ build.waiting =>
    build.in_flight = 0 /\ build.best = None /\ AllReady(build) = {}

(* The pool's cache, where it holds for the next block, tells the account  *)
(* nonces of the parent's state; a reorg may break it, and so does, for    *)
(* the one account, a refusal for funds of an order with another nonce:    *)
(* "this updates the cache with the wrong nonce" (sorting.rs:270).         *)
CacheSound ==
  ValidParent /\ ~reorged =>
    \A s \in Senders \ doubtful : cache[s] \in {None, chain_nonce[s]}

(* An order leaves the pool only for one with the same nonce, or when the  *)
(* chain has used its nonce: what a build learns while it fails never      *)
(* costs a user an order.  The exception is the account without funds of   *)
(* sorting.rs:270, which may lose the orders below the one refused, and no *)
(* other account may.                                                      *)
PoolKeepsOrders ==
  [][\A o \in pool \ pool' :
       \/ \E p \in pool' : p.sender = o.sender /\ p.nonce = o.nonce
       \/ o.nonce < chain_nonce'[o.sender]
       \/ o.sender \in doubtful']_vars

=============================================================================
