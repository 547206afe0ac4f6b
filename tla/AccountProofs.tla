--------------------------- MODULE AccountProofs ---------------------------
(* Theorems about the operator's account, for every set of fee estimates   *)
(* and any number of batches, nonces and retries.                          *)
EXTENDS Account, TLAPS

-----------------------------------------------------------------------------
(* Fees.                                                                   *)

(* The buffer keeps the order of two fees.                                 *)
LEMMA BufferedMonotone ==
  ASSUME NEW x \in Nat, NEW y \in Nat, x <= y
  PROVE  /\ Buffered(x) \in Nat /\ Buffered(y) \in Nat
         /\ Buffered(x) <= Buffered(y)
<1>1. PICK d \in Nat : y = x + d
  <2>1. y - x \in Nat /\ y = x + (y - x)
    OBVIOUS
  <2> QED
    BY <2>1
<1>2. Buffer \in Nat
  BY FeeAssumption
<1>3. x * Buffer \in Nat /\ d * Buffer \in Nat
  BY <1>2
<1>4. y * Buffer = x * Buffer + d * Buffer
  BY <1>1, <1>2
<1> HIDE <1>1
<1> DEFINE p == x * Buffer
           q == d * Buffer
<1>5. p \in Nat /\ q \in Nat /\ y * Buffer = p + q
  BY <1>3, <1>4
<1> HIDE DEF p, q
<1>6. p \div 100 \in Nat /\ (p + q) \div 100 \in Nat
      /\ p \div 100 <= (p + q) \div 100
  BY <1>5
<1> QED
  BY <1>5, <1>6 DEF Buffered, p

LEMMA RawFeeType ==
  ASSUME TypeOK, NEW est \in Estimates, NEW k \in Kinds
  PROVE  RawFee(est, k) \in Nat
<1>1. est[k] \in Nat
  BY EstimateAssumption DEF Fees
<1>2. caps[k] \in Nat \cup {None}
  BY DEF TypeOK
<1>3. Buffered(est[k]) \in Nat
  BY <1>1, BufferedMonotone
<1>4. CASE caps[k] = None
  BY <1>3, <1>4 DEF RawFee
<1>5. CASE caps[k] \in Nat
  <2>1. Buffered(caps[k]) \in Nat
    BY <1>5, BufferedMonotone
  <2> QED
    BY <1>5, <2>1, NoneAssumption DEF RawFee
<1> QED
  BY <1>2, <1>4, <1>5

LEMMA FeesOfType ==
  ASSUME TypeOK, NEW est \in Estimates PROVE FeesOf(est) \in Fees
<1> SUFFICES ASSUME NEW k \in Kinds
             PROVE  AtLeastMin(k, IF bump_fees THEN 2 * RawFee(est, k)
                                               ELSE RawFee(est, k)) \in Nat
  BY DEF FeesOf, Fees
<1>1. RawFee(est, k) \in Nat
  BY RawFeeType
<1> QED
  BY <1>1, FeeAssumption DEF AtLeastMin

(* Without a cap the three rules agree: no attempt offers a priority fee   *)
(* above what it would pay per gas.                                        *)
LEMMA FeesOfOrder ==
  ASSUME TypeOK, NEW est \in Estimates,
         caps["tip"] = None, caps["fee"] = None
  PROVE  FeesOf(est)["tip"] <= FeesOf(est)["fee"]
<1>1. /\ "tip" \in Kinds /\ "fee" \in Kinds
      /\ est["tip"] \in Nat /\ est["fee"] \in Nat /\ est["tip"] <= est["fee"]
  BY EstimateAssumption DEF Fees, Kinds
<1> DEFINE t == Buffered(est["tip"])
           f == Buffered(est["fee"])
<1>2. t \in Nat /\ f \in Nat /\ t <= f
  BY <1>1, BufferedMonotone
<1>3. RawFee(est, "tip") = t /\ RawFee(est, "fee") = f
  BY DEF RawFee
<1>4. /\ FeesOf(est)["tip"] = AtLeastMin("tip", IF bump_fees THEN 2 * t ELSE t)
      /\ FeesOf(est)["fee"] = AtLeastMin("fee", IF bump_fees THEN 2 * f ELSE f)
  BY <1>1, <1>3 DEF FeesOf
<1> HIDE DEF t, f
<1> QED
  BY <1>2, <1>4, FeeAssumption DEF AtLeastMin

-----------------------------------------------------------------------------
(* Every variable keeps its type.                                          *)

LEMMA RestartType == ASSUME TypeOK, Restart PROVE TypeOK'
BY DEF TypeOK, Restart, NoCaps, l1Vars

LEMMA DoneType ==
  ASSUME TypeOK, Done PROVE TypeOK'
BY DEF TypeOK, Done, NoCaps, monitorVars, l1Vars

LEMMA FailsType ==
  ASSUME TypeOK, Fails,
         last_used_nonce' \in Nat \cup {None},
         receipt' \in Receipts \cup {None},
         UNCHANGED <<monitorVars, l1Vars, named>>
  PROVE  TypeOK'
BY DEF TypeOK, Fails, monitorVars, l1Vars

LEMMA AgainType ==
  ASSUME TypeOK, Again, bump_fees' \in BOOLEAN,
         caps' \in [Kinds -> Nat \cup {None}], named' \subseteq Kinds,
         UNCHANGED <<last_used_nonce, monitorVars, l1Vars, receipt>>
  PROVE  TypeOK'
BY DEF TypeOK, Again, monitorVars, l1Vars

LEMMA ApprovedType ==
  ASSUME TypeOK, Approved, UNCHANGED l1Vars PROVE TypeOK'
BY DEF TypeOK, Approved, attemptVars, l1Vars

LEMMA MonitorDoneType ==
  ASSUME TypeOK, MonitorDone, UNCHANGED l1Vars PROVE TypeOK'
BY DEF TypeOK, MonitorDone, attemptVars, l1Vars

LEMMA MonitorFailsType ==
  ASSUME TypeOK, MonitorFails PROVE TypeOK'
BY RestartType, MonitorDoneType DEF MonitorFails

LEMMA TypeStep == TypeOK /\ [Next]_vars => TypeOK'
<1> SUFFICES ASSUME TypeOK, [Next]_vars PROVE TypeOK'
  OBVIOUS
<1>1. CASE TakeBatch
  BY <1>1 DEF TypeOK, TakeBatch, monitorVars, l1Vars
<1>2. CASE GetNonce
  <2>1. CASE NoncePassed /\ Done
    BY <2>1, DoneType
  <2>2. CASE ~(NoncePassed /\ Done)
    <3>1. Len(mined) \in Nat
      BY DEF TypeOK
    <3> QED
      BY <1>2, <2>2, <3>1, NoneAssumption
         DEF TypeOK, GetNonce, AccountNonce, monitorVars, l1Vars
  <2> QED
    BY <2>1, <2>2
<1>3. CASE GasEstimationGivesUp
  BY <1>3, DoneType DEF GasEstimationGivesUp
<1>4. CASE TimestampTooLarge
  BY <1>4, AgainType DEF TimestampTooLarge, TypeOK
<1>5. CASE BuildTx
  <2>1. PICK est \in Estimates :
          tx' = [nonce |-> last_used_nonce, batch |-> batch,
                 fees |-> FeesOf(est)]
    BY <1>5 DEF BuildTx
  <2>2. last_used_nonce \in Nat /\ batch \in Nat
    BY <1>5 DEF TypeOK, BuildTx
  <2>3. tx' \in Tx /\ tx' # None
    <3>1. tx' \in Tx
      BY <2>1, <2>2, FeesOfType DEF Tx
    <3> QED
      BY <3>1, NoneAssumption
  <2> QED
    BY <1>5, <2>3 DEF TypeOK, BuildTx, attemptVars, monitorVars, l1Vars
<1>6. CASE Relay
  <2>1. bundles' \subseteq Tx
    BY <1>6 DEF Relay, TypeOK
  <2> QED
    BY <1>6, <2>1 DEF TypeOK, Relay, attemptVars, monitorVars
<1>7. CASE NotLanded
  BY <1>7 DEF TypeOK, NotLanded, attemptVars, monitorVars, l1Vars
<1>8. CASE SendRefused \/ RpcError
  BY <1>8, FailsType DEF SendRefused, RpcError, TypeOK
<1>9. CASE Underpriced
  <2>1. PICK k \in Kinds, q \in Queued :
          caps' = Learned(k, q) /\ named' = named \cup {k}
    BY <1>9 DEF Underpriced
  <2>2. q.fees[k] \in Nat
    BY DEF Queued, TypeOK, Tx, Fees
  <2>3. caps' \in [Kinds -> Nat \cup {None}] /\ named' \subseteq Kinds
    BY <2>1, <2>2 DEF TypeOK, Learned
  <2> QED
    BY <1>9, <2>3, AgainType DEF Underpriced, TypeOK
<1>10. CASE UnderpricedUnknown
  BY <1>10, AgainType DEF UnderpricedUnknown, TypeOK
<1>11. CASE Sent
  BY <1>11 DEF TypeOK, Sent, attemptVars, monitorVars
<1>12. CASE Proposed
  BY <1>12, DoneType DEF Proposed
<1>13. CASE Reverted
  BY <1>13, FailsType DEF Reverted
<1>14. CASE NotIncluded
  BY <1>14, AgainType DEF NotIncluded, TypeOK
<1>15. CASE LastRetryFails \/ Crash
  BY <1>15, RestartType DEF LastRetryFails, Crash
<1>16. CASE EnoughBond \/ DepositSeen
  BY <1>16, MonitorDoneType, ApprovedType DEF EnoughBond, DepositSeen
<1>17. CASE NotEnoughTokens \/ DepositFails
  BY <1>17, MonitorFailsType DEF NotEnoughTokens, DepositFails
<1>18. CASE FillDeposit
  <2>1. deposit_nonce' \in Nat
    BY <1>18, AccountBounds DEF FillDeposit
  <2> QED
    BY <1>18, <2>1, NoneAssumption
       DEF TypeOK, FillDeposit, attemptVars, l1Vars
<1>19. CASE SendDeposit
  <2>1. DepositTx \in Tx
    BY <1>19 DEF SendDeposit, DepositTx, Tx, NoFees, Fees, TypeOK
  <2> QED
    BY <1>19, <2>1 DEF TypeOK, SendDeposit, attemptVars
<1>20. CASE Include
  <2>1. PICK t \in pool \cup bundles : IncludeTx(t)
    BY <1>20 DEF Include
  <2>2. PICK ok \in BOOLEAN :
          /\ mined' = Append(mined, [batch |-> t.batch, ok |-> ok])
          /\ receipt' = IF t.nonce = last_used_nonce
                        THEN [tx |-> t, ok |-> ok] ELSE receipt
    BY <2>1 DEF IncludeTx
  <2>3. t \in Tx /\ t.batch \in Nat \cup {None}
    BY DEF TypeOK, Tx
  <2>4. mined' \in Seq([batch: Nat \cup {None}, ok: BOOLEAN])
    BY <2>2, <2>3 DEF TypeOK
  <2>5. receipt' \in Receipts \cup {None}
    BY <2>2, <2>3 DEF TypeOK, Receipts
  <2> QED
    BY <2>1, <2>4, <2>5 DEF TypeOK, IncludeTx, attemptVars, monitorVars
<1>21. CASE BundleExpires
  BY <1>21 DEF TypeOK, BundleExpires, attemptVars, monitorVars
<1>22. CASE UNCHANGED vars
  BY <1>22 DEF TypeOK, vars, attemptVars, monitorVars, l1Vars
<1> QED
  BY <1>1, <1>2, <1>3, <1>4, <1>5, <1>6, <1>7, <1>8, <1>9, <1>10, <1>11,
     <1>12, <1>13, <1>14, <1>15, <1>16, <1>17, <1>18, <1>19, <1>20, <1>21,
     <1>22 DEF Next, Propose, Monitor, L1

(* The type invariant holds of every reachable state.                      *)
THEOREM AccountTypeCorrect == Spec => []TypeOK
<1>1. Init => TypeOK
  <2>1. <<>> \in Seq([batch: Nat \cup {None}, ok: BOOLEAN])
    OBVIOUS
  <2>2. NoCaps \in [Kinds -> Nat \cup {None}]
    BY DEF NoCaps
  <2>3. 0 \in Nat
    OBVIOUS
  <2> QED
    BY <2>1, <2>2, <2>3, Zenon DEF Init, TypeOK
<1> QED
  BY <1>1, TypeStep, PTL DEF Spec

-----------------------------------------------------------------------------
(* An attempt offers a tip above its fee cap only with a cap learned: the  *)
(* caps do not change while there is a transaction at hand.                *)

LEMMA TipStep ==
  TypeOK /\ TipAboveCapIsLearned /\ [Next]_vars => TipAboveCapIsLearned'
<1> SUFFICES ASSUME TypeOK, TipAboveCapIsLearned, [Next]_vars, tx' # None
             PROVE  AboveCap(tx') => caps'["tip"] # None \/ caps'["fee"] # None
  BY DEF TipAboveCapIsLearned, AboveCap
<1>1. CASE BuildTx
  <2>1. PICK est \in Estimates :
          tx' = [nonce |-> last_used_nonce, batch |-> batch,
                 fees |-> FeesOf(est)]
    BY <1>1 DEF BuildTx
  <2>2. caps' = caps
    BY <1>1 DEF BuildTx, attemptVars
  <2>3. FeesOf(est) \in Fees
    BY FeesOfType
  <2>4. FeesOf(est)["tip"] \in Nat /\ FeesOf(est)["fee"] \in Nat
    BY <2>3 DEF Fees, Kinds
  <2> QED
    BY <2>1, <2>2, <2>4, FeesOfOrder DEF AboveCap
<1>2. CASE tx' = tx /\ caps' = caps
  BY <1>2 DEF TipAboveCapIsLearned
<1>3. CASE ~BuildTx
  BY <1>2, <1>3
     DEF Next, Propose, Monitor, L1, TakeBatch, GetNonce, GasEstimationGivesUp,
         TimestampTooLarge, Relay, NotLanded, SendRefused, Underpriced,
         UnderpricedUnknown, Sent, Proposed, Reverted, NotIncluded, RpcError,
         LastRetryFails, EnoughBond, NotEnoughTokens, FillDeposit, SendDeposit,
         DepositFails, DepositSeen, Include, IncludeTx, BundleExpires, Crash,
         Done, Again, Fails, Restart, MonitorDone, MonitorFails,
         Approved, attemptVars, vars
<1> QED
  BY <1>1, <1>3

(* client.rs:239-258: of the estimates alone the code never makes a        *)
(* transaction that no node takes, whatever the buffer and the minimum.    *)
THEOREM TipWithinCap == Spec => []TipAboveCapIsLearned
<1>1. Init => TipAboveCapIsLearned
  BY DEF Init, TipAboveCapIsLearned
<1> QED
  BY <1>1, TipStep, AccountTypeCorrect, PTL DEF Spec

-----------------------------------------------------------------------------
(* The nonces of the two tasks.  The proposer's is never ahead of L1's;    *)
(* the deposit's follows what the mempool had when it was filled in, and   *)
(* what the mempool loses since is replaced or included.                   *)
NonceNotAhead ==
  /\ last_used_nonce # None => last_used_nonce <= AccountNonce
  /\ tx # None => tx.nonce = last_used_nonce

DepositFollows ==
  deposit_nonce # None =>
    AccountNonce .. deposit_nonce - 1 \subseteq Taken(pool)

NonceInv == NonceNotAhead /\ DepositFollows /\ NoNonceGap

(* What a task's own bookkeeping leaves alone.                             *)
LEMMA KeepsPool ==
  ASSUME NonceInv, UNCHANGED <<pool, mined>>,
         UNCHANGED deposit_nonce \/ deposit_nonce' = None
  PROVE  DepositFollows' /\ NoNonceGap'
BY DEF NonceInv, DepositFollows, NoNonceGap, AccountNonce, Taken

LEMMA NonceStep == TypeOK /\ NonceInv /\ [Next]_vars => NonceInv'
<1> SUFFICES ASSUME TypeOK, NonceInv, [Next]_vars PROVE NonceInv'
  OBVIOUS
<1>0. AccountNonce \in Nat
  BY DEF TypeOK, AccountNonce
<1>1. CASE GetNonce
  <2>1. UNCHANGED <<pool, mined, deposit_nonce>>
    BY <1>1 DEF GetNonce, Done, monitorVars, l1Vars
  <2>2. NonceNotAhead'
    BY <1>0, <1>1 DEF GetNonce, Done, NonceNotAhead, NonceInv, AccountNonce,
                      TypeOK, l1Vars
  <2> QED
    BY <2>1, <2>2, KeepsPool DEF NonceInv
<1>2. CASE BuildTx
  BY <1>2, KeepsPool
     DEF BuildTx, NonceInv, NonceNotAhead, AccountNonce, attemptVars,
         monitorVars, l1Vars
<1>3. CASE \/ TakeBatch \/ GasEstimationGivesUp \/ TimestampTooLarge \/ Relay
           \/ NotLanded \/ SendRefused \/ Underpriced \/ UnderpricedUnknown
           \/ Proposed \/ Reverted \/ NotIncluded \/ RpcError
           \/ LastRetryFails \/ Crash \/ EnoughBond \/ NotEnoughTokens
           \/ DepositFails \/ DepositSeen \/ BundleExpires
  <2>1. /\ UNCHANGED <<pool, mined>>
        /\ UNCHANGED deposit_nonce \/ deposit_nonce' = None
    BY <1>3
       DEF TakeBatch, GasEstimationGivesUp, TimestampTooLarge, Relay,
           NotLanded, SendRefused, Underpriced, UnderpricedUnknown, Proposed,
           Reverted, NotIncluded, RpcError, LastRetryFails, Crash, EnoughBond,
           NotEnoughTokens, DepositFails, DepositSeen, BundleExpires, Done,
           Again, Fails, Restart, MonitorDone, MonitorFails, Approved,
           monitorVars, l1Vars
  <2>2. NonceNotAhead'
    BY <1>3, <2>1
       DEF TakeBatch, GasEstimationGivesUp, TimestampTooLarge, Relay,
           NotLanded, SendRefused, Underpriced, UnderpricedUnknown, Proposed,
           Reverted, NotIncluded, RpcError, LastRetryFails, Crash, EnoughBond,
           NotEnoughTokens, DepositFails, DepositSeen, BundleExpires, Done,
           Again, Fails, Restart, MonitorDone, MonitorFails, Approved,
           attemptVars, NonceInv, NonceNotAhead, AccountNonce
  <2> QED
    BY <2>1, <2>2, KeepsPool DEF NonceInv
<1>4. CASE Sent
  <2>1. /\ pool' = (pool \ Queued) \cup {tx} /\ tx # None /\ tx.nonce \in Nat
        /\ tx.nonce <= AccountNonce
        /\ UNCHANGED <<mined, deposit_nonce, last_used_nonce, tx>>
    BY <1>4, NoneAssumption
       DEF Sent, TypeOK, Tx, NonceInv, NonceNotAhead, attemptVars, monitorVars
  <2>2. Taken(pool) \subseteq Taken(pool')
    BY <2>1 DEF Taken, Queued
  <2>3. tx.nonce \in Taken(pool')
    BY <2>1 DEF Taken
  <2>4. AccountNonce .. tx.nonce \subseteq {tx.nonce}
    BY <1>0, <2>1
  <2>5. NoNonceGap'
    BY <2>1, <2>2, <2>3, <2>4 DEF NoNonceGap, NonceInv, AccountNonce
  <2>6. DepositFollows'
    BY <2>1, <2>2 DEF DepositFollows, NonceInv, AccountNonce
  <2> QED
    BY <2>1, <2>5, <2>6 DEF NonceInv, NonceNotAhead, AccountNonce
<1>5. CASE FillDeposit
  <2>1. /\ UNCHANGED <<pool, mined, last_used_nonce, tx>>
        /\ AccountNonce .. deposit_nonce' - 1 \subseteq Taken(pool)
    BY <1>5 DEF FillDeposit, PendingNonce, Following, attemptVars, l1Vars
  <2> QED
    BY <2>1 DEF NonceInv, NonceNotAhead, DepositFollows, NoNonceGap,
                AccountNonce, Taken
<1>6. CASE SendDeposit
  <2>1. /\ pool' = pool \cup {DepositTx} /\ deposit_nonce \in Nat
        /\ UNCHANGED <<mined, deposit_nonce, last_used_nonce, tx>>
    BY <1>6 DEF SendDeposit, TypeOK, attemptVars
  <2>2. Taken(pool') = Taken(pool) \cup {deposit_nonce}
    <3>1. DepositTx.nonce = deposit_nonce
      BY DEF DepositTx
    <3> QED
      BY <2>1, <3>1, Zenon DEF Taken
  <2>3. AccountNonce .. deposit_nonce - 1 \subseteq Taken(pool)
    BY <2>1, NoneAssumption DEF NonceInv, DepositFollows
  <2>4. AccountNonce .. deposit_nonce \subseteq Taken(pool')
    <3>1. ASSUME NEW n \in AccountNonce .. deposit_nonce
          PROVE  n \in Taken(pool')
      <4>1. n = deposit_nonce \/ n \in AccountNonce .. deposit_nonce - 1
        BY <1>0, <2>1
      <4> QED
        BY <2>2, <2>3, <4>1
    <3> QED
      BY <3>1
  <2>5. ASSUME NEW t \in pool'
        PROVE  AccountNonce .. t.nonce \subseteq Taken(pool')
    <3>1. t \in pool \/ t.nonce = deposit_nonce
      BY <2>1 DEF DepositTx
    <3> QED
      BY <2>2, <2>4, <3>1 DEF NonceInv, NoNonceGap
  <2> QED
    BY <2>1, <2>2, <2>3, <2>5
       DEF NonceInv, NonceNotAhead, NoNonceGap, DepositFollows, AccountNonce
<1>7. CASE Include
  <2>1. PICK t \in pool \cup bundles : IncludeTx(t)
    BY <1>7 DEF Include
  <2>2. /\ AccountNonce' = AccountNonce + 1
        /\ pool' = {u \in pool : u.nonce > AccountNonce}
        /\ UNCHANGED <<deposit_nonce, last_used_nonce, tx>>
    BY <2>1 DEF IncludeTx, AccountNonce, TypeOK, attemptVars, monitorVars
  <2>3. ASSUME NEW m \in Nat, NEW n \in AccountNonce + 1 .. m,
               AccountNonce .. m \subseteq Taken(pool)
        PROVE  n \in Taken(pool')
    <3>1. n \in AccountNonce .. m /\ n > AccountNonce
      BY <1>0, <2>3
    <3>2. PICK u \in pool : n = u.nonce
      BY <2>3, <3>1 DEF Taken
    <3> QED
      BY <2>2, <3>1, <3>2 DEF Taken
  <2>4. NoNonceGap'
    <3>1. ASSUME NEW u \in pool'
          PROVE  AccountNonce' .. u.nonce \subseteq Taken(pool')
      <4>1. u \in pool /\ u.nonce \in Nat
        BY <2>2 DEF TypeOK, Tx
      <4>2. AccountNonce .. u.nonce \subseteq Taken(pool)
        BY <4>1 DEF NonceInv, NoNonceGap
      <4> QED
        BY <2>2, <2>3, <4>1, <4>2
    <3> QED
      BY <3>1 DEF NoNonceGap, AccountNonce
  <2>5. DepositFollows'
    <3> SUFFICES ASSUME deposit_nonce # None,
                        NEW n \in AccountNonce + 1 .. deposit_nonce - 1
                 PROVE  n \in Taken(pool')
      BY <2>2 DEF DepositFollows
    <3>1. deposit_nonce \in Nat
      BY DEF TypeOK
    <3>2. deposit_nonce - 1 \in Nat
      BY <1>0, <3>1
    <3>3. AccountNonce .. deposit_nonce - 1 \subseteq Taken(pool)
      BY DEF NonceInv, DepositFollows
    <3> QED
      BY <2>3, <3>2, <3>3
  <2>6. NonceNotAhead'
    BY <1>0, <2>2 DEF NonceInv, NonceNotAhead, TypeOK
  <2> QED
    BY <2>4, <2>5, <2>6 DEF NonceInv
<1>8. CASE UNCHANGED vars
  BY <1>8, KeepsPool
     DEF vars, attemptVars, monitorVars, l1Vars, NonceInv, NonceNotAhead,
         AccountNonce
<1> QED
  BY <1>1, <1>2, <1>3, <1>4, <1>5, <1>6, <1>7, <1>8
     DEF Next, Propose, Monitor, L1

(* The proposer asks for the latest nonce and the balance monitor for the  *)
(* pending one: nothing of theirs waits for a transaction nobody has.      *)
THEOREM NoncesConsecutive == Spec => []NoNonceGap
<1>1. Init => NonceInv
  BY DEF Init, NonceInv, NonceNotAhead, DepositFollows, NoNonceGap
<1>2. NonceInv => NoNonceGap
  BY DEF NonceInv
<1> QED
  BY <1>1, <1>2, NonceStep, AccountTypeCorrect, PTL DEF Spec

-----------------------------------------------------------------------------
(* One landing.  Whatever of a batch may still be included has the nonce   *)
(* that L1 takes next, and the attempts under way know of every landing of *)
(* their batch: it used the nonce they used last.                          *)
Live == pool \cup bundles

BatchesKnown ==
  /\ tx # None => tx.batch = batch
  /\ \A t \in Live :
       t.batch # None => t.batch <= batch /\ t.nonce <= AccountNonce
  /\ \A i \in DOMAIN mined : mined[i].batch # None => mined[i].batch <= batch

NotTwice ==
  \A t \in Live, i \in DOMAIN mined :
    t.batch # None /\ t.nonce = AccountNonce /\ mined[i].ok
      => mined[i].batch # t.batch

LandingKnown ==
  Attempting =>
    /\ \A i \in DOMAIN mined :
         mined[i].batch = batch /\ mined[i].ok
           => last_used_nonce # None /\ i = last_used_nonce + 1
    /\ \A t \in Live :
         t.batch = batch /\ t.nonce = AccountNonce
           => last_used_nonce = AccountNonce

ReceiptTrue ==
  receipt # None =>
    /\ last_used_nonce # None /\ last_used_nonce < Len(mined)
    /\ mined[last_used_nonce + 1].ok = receipt.ok

LandingInv ==
  BatchesKnown /\ NotTwice /\ LandingKnown /\ ReceiptTrue /\ OneLanding

LEMMA LandingTypes ==
  ASSUME TypeOK
  PROVE  /\ AccountNonce \in Nat /\ batch \in Nat /\ batch # None
         /\ DOMAIN mined = 1 .. AccountNonce
         /\ \A i \in DOMAIN mined :
              mined[i].batch \in Nat \cup {None} /\ mined[i].ok \in BOOLEAN
         /\ \A t \in Live :
              t \in Tx /\ t.nonce \in Nat /\ t.batch \in Nat \cup {None}
<1>1. /\ AccountNonce \in Nat /\ batch \in Nat /\ batch # None
      /\ DOMAIN mined = 1 .. AccountNonce
  BY NoneAssumption DEF TypeOK, AccountNonce
<1>2. ASSUME NEW i \in DOMAIN mined
      PROVE  mined[i].batch \in Nat \cup {None} /\ mined[i].ok \in BOOLEAN
  <2>1. mined[i] \in [batch: Nat \cup {None}, ok: BOOLEAN]
    <3> DEFINE S == [batch: Nat \cup {None}, ok: BOOLEAN]
    <3>1. mined \in Seq(S)
      BY DEF TypeOK
    <3> HIDE DEF S
    <3>2. mined[i] \in S
      BY <1>2, <3>1
    <3> QED
      BY <3>2 DEF S
  <2> QED
    BY <2>1
<1>3. ASSUME NEW t \in Live
      PROVE  t \in Tx /\ t.nonce \in Nat /\ t.batch \in Nat \cup {None}
  BY DEF Live, TypeOK, Tx
<1> QED
  BY <1>1, <1>2, <1>3

(* An attempt, or the process, ends.                                       *)
LEMMA LandingEnds ==
  ASSUME LandingInv, UNCHANGED <<batch, l1Vars>>,
         tx' = None, receipt' = None, ~Attempting'
  PROVE  LandingInv'
BY DEF LandingInv, BatchesKnown, NotTwice, LandingKnown, ReceiptTrue,
       OneLanding, Live, AccountNonce, l1Vars

(* L1 may forget; the transaction at hand may be dropped.                  *)
LEMMA LandingKeeps ==
  ASSUME LandingInv, UNCHANGED <<batch, mined, last_used_nonce, receipt>>,
         Live' \subseteq Live, tx' \in {tx, None}, Attempting' => Attempting
  PROVE  LandingInv'
BY DEF LandingInv, BatchesKnown, NotTwice, LandingKnown, ReceiptTrue,
       OneLanding, AccountNonce

(* The transaction at hand goes out, to the builders or to the mempool.    *)
LEMMA LandingSends ==
  ASSUME TypeOK, NonceInv, LandingInv, tx # None, Attempting,
         UNCHANGED <<batch, mined, last_used_nonce, receipt, tx>>,
         Live' \subseteq Live \cup {tx}
  PROVE  LandingInv'
<1>1. /\ tx.batch = batch /\ tx.nonce = last_used_nonce
      /\ tx.nonce \in Nat /\ tx.nonce <= AccountNonce
  BY NoneAssumption
     DEF TypeOK, Tx, NonceInv, NonceNotAhead, LandingInv, BatchesKnown
<1>2. BatchesKnown'
  BY <1>1, LandingTypes DEF LandingInv, BatchesKnown, AccountNonce
<1>3. NotTwice'
  <2> SUFFICES ASSUME NEW t \in Live', NEW i \in DOMAIN mined, t.batch # None,
                      t.nonce = AccountNonce, mined[i].ok
               PROVE  mined[i].batch # t.batch
    BY DEF NotTwice, AccountNonce
  <2>1. CASE t \in Live
    BY <2>1 DEF LandingInv, NotTwice
  <2>2. CASE t = tx
    <3>1. i <= AccountNonce
      BY LandingTypes
    <3> QED
      BY <1>1, <2>2, <3>1 DEF LandingInv, LandingKnown
  <2> QED
    BY <2>1, <2>2
<1>4. LandingKnown'
  BY <1>1 DEF LandingInv, LandingKnown, AccountNonce, Attempting
<1> QED
  BY <1>2, <1>3, <1>4 DEF LandingInv, ReceiptTrue, OneLanding

(* L1 includes a transaction: afterwards nothing of any batch is left that *)
(* it could include, until something is sent again.                        *)
LEMMA LandingIncludes ==
  ASSUME TypeOK, LandingInv, Include PROVE LandingInv'
<1>1. PICK t \in Live : IncludeTx(t)
  BY DEF Include, Live
<1>2. PICK ok \in BOOLEAN :
        /\ mined' = Append(mined, [batch |-> t.batch, ok |-> ok])
        /\ receipt' = IF t.nonce = last_used_nonce
                      THEN [tx |-> t, ok |-> ok] ELSE receipt
  BY <1>1 DEF IncludeTx
<1>3. /\ t.nonce = AccountNonce /\ t.batch \in Nat \cup {None}
      /\ UNCHANGED <<pc, batch, last_used_nonce, tx>>
  BY <1>1, LandingTypes DEF IncludeTx, attemptVars
<1>4. Live' = {u \in Live : u.nonce > AccountNonce}
  BY <1>1 DEF IncludeTx, Live
<1>5. /\ DOMAIN mined' = 1 .. AccountNonce + 1
      /\ AccountNonce' = AccountNonce + 1
      /\ mined'[AccountNonce + 1].batch = t.batch
      /\ mined'[AccountNonce + 1].ok = ok
      /\ \A i \in DOMAIN mined : mined'[i] = mined[i]
  BY <1>2 DEF TypeOK, AccountNonce
<1>6. ASSUME NEW u \in Live' PROVE u.batch = None /\ u \in Live
  <2>1. u \in Live /\ u.nonce > AccountNonce
    BY <1>4
  <2> QED
    BY <2>1, LandingTypes DEF LandingInv, BatchesKnown
<1>7. ASSUME NEW i \in DOMAIN mined'
      PROVE  i \in DOMAIN mined \/ i = AccountNonce + 1
  BY <1>5, <1>7, LandingTypes
<1>8. BatchesKnown'
  <2>1. ASSUME NEW i \in DOMAIN mined', mined'[i].batch # None
        PROVE  mined'[i].batch <= batch
    BY <1>5, <1>7, <2>1, <1>1 DEF LandingInv, BatchesKnown
  <2> QED
    BY <1>3, <1>6, <2>1 DEF LandingInv, BatchesKnown
<1>9. NotTwice'
  BY <1>6 DEF NotTwice
<1>10. LandingKnown'
  <2> SUFFICES ASSUME Attempting PROVE LandingKnown'
    BY <1>3 DEF LandingKnown, Attempting
  <2>1. ASSUME NEW i \in DOMAIN mined', mined'[i].batch = batch, mined'[i].ok
        PROVE  last_used_nonce # None /\ i = last_used_nonce + 1
    <3>1. CASE i \in DOMAIN mined
      BY <1>5, <2>1, <3>1 DEF LandingInv, LandingKnown
    <3>2. CASE i = AccountNonce + 1
      <4>1. last_used_nonce = AccountNonce
        BY <1>1, <1>3, <1>5, <2>1, <3>2 DEF LandingInv, LandingKnown
      <4> QED
        BY <3>2, <4>1, LandingTypes, NoneAssumption
    <3> QED
      BY <1>7, <3>1, <3>2
  <2>2. ASSUME NEW u \in Live', u.batch = batch PROVE FALSE
    BY <1>6, <2>2, LandingTypes
  <2> QED
    BY <1>3, <2>1, <2>2 DEF LandingKnown
<1>11. ReceiptTrue'
  <2>1. CASE t.nonce = last_used_nonce
    BY <1>2, <1>3, <1>5, <2>1, LandingTypes, NoneAssumption
       DEF ReceiptTrue, AccountNonce
  <2>2. CASE t.nonce # last_used_nonce
    <3>1. receipt' = receipt
      BY <1>2, <2>2
    <3> SUFFICES ASSUME receipt # None
                 PROVE  /\ last_used_nonce # None
                        /\ last_used_nonce < AccountNonce'
                        /\ mined'[last_used_nonce + 1].ok = receipt.ok
      BY <1>3, <3>1 DEF ReceiptTrue, AccountNonce
    <3>2. /\ last_used_nonce \in Nat /\ last_used_nonce < AccountNonce
          /\ mined[last_used_nonce + 1].ok = receipt.ok
      BY DEF LandingInv, ReceiptTrue, TypeOK, AccountNonce
    <3>3. last_used_nonce + 1 \in DOMAIN mined
      BY <3>2, LandingTypes
    <3>4. mined'[last_used_nonce + 1] = mined[last_used_nonce + 1]
      BY <1>5, <3>3
    <3>5. last_used_nonce < AccountNonce'
      BY <1>5, <3>2, LandingTypes
    <3> QED
      BY <3>2, <3>4, <3>5, NoneAssumption
  <2> QED
    BY <2>1, <2>2
<1>12. OneLanding'
  <2>1. ASSUME NEW i \in DOMAIN mined, mined[i].ok, mined[i].batch = t.batch
        PROVE  t.batch = None
    BY <1>3, <2>1 DEF LandingInv, NotTwice
  <2> QED
    BY <1>5, <1>7, <2>1 DEF LandingInv, OneLanding
<1> QED
  BY <1>8, <1>9, <1>10, <1>11, <1>12 DEF LandingInv

LEMMA LandingStep ==
  TypeOK /\ NonceInv /\ LandingInv /\ [Next]_vars => LandingInv'
<1> SUFFICES ASSUME TypeOK, NonceInv, LandingInv, [Next]_vars PROVE LandingInv'
  OBVIOUS
<1>1. CASE TakeBatch
  <2>1. /\ batch' = batch + 1 /\ tx' = None /\ receipt' = receipt
        /\ UNCHANGED <<mined, last_used_nonce>> /\ Live' = Live
    BY <1>1 DEF TakeBatch, TypeOK, Live, l1Vars
  <2>2. \A i \in DOMAIN mined : mined[i].batch # batch'
    BY <2>1, LandingTypes, NoneAssumption DEF LandingInv, BatchesKnown
  <2>3. \A t \in Live : t.batch # batch'
    BY <2>1, LandingTypes, NoneAssumption DEF LandingInv, BatchesKnown
  <2>4. BatchesKnown'
    BY <2>1, LandingTypes DEF LandingInv, BatchesKnown, AccountNonce
  <2> QED
    BY <2>1, <2>2, <2>3, <2>4
       DEF LandingInv, NotTwice, LandingKnown, ReceiptTrue, OneLanding,
           AccountNonce
<1>2. CASE GetNonce
  <2>1. CASE Done
    BY <2>1, LandingEnds DEF Done, Attempting
  <2>2. CASE ~Done
    <3>1. /\ last_used_nonce' = AccountNonce /\ receipt' = None
          /\ UNCHANGED <<batch, tx, mined>> /\ Live' = Live
          /\ Attempting /\ ~NoncePassed
      BY <1>2, <2>2 DEF GetNonce, Attempting, Live, l1Vars
    <3>2. ASSUME NEW i \in DOMAIN mined, mined[i].batch = batch, mined[i].ok
          PROVE  FALSE
      <4>1. last_used_nonce \in Nat /\ i = last_used_nonce + 1
        BY <3>1, <3>2 DEF LandingInv, LandingKnown, TypeOK
      <4> QED
        BY <3>1, <4>1, LandingTypes, NoneAssumption DEF NoncePassed
    <3> QED
      BY <3>1, <3>2
         DEF LandingInv, BatchesKnown, NotTwice, LandingKnown, ReceiptTrue,
             OneLanding, AccountNonce
  <2> QED
    BY <2>1, <2>2
<1>3. CASE GasEstimationGivesUp \/ Proposed
  BY <1>3, LandingEnds DEF GasEstimationGivesUp, Proposed, Done, Attempting
<1>4. CASE BuildTx
  <2>1. /\ tx'.batch = batch /\ Attempting
        /\ UNCHANGED <<batch, mined, last_used_nonce, receipt>> /\ Live' = Live
    BY <1>4 DEF BuildTx, Attempting, attemptVars, Live, l1Vars
  <2> QED
    BY <2>1 DEF LandingInv, BatchesKnown, NotTwice, LandingKnown, ReceiptTrue,
                OneLanding, AccountNonce
<1>5. CASE TimestampTooLarge \/ NotLanded \/ SendRefused \/ Underpriced
           \/ UnderpricedUnknown \/ NotIncluded \/ RpcError
  BY <1>5, LandingKeeps
     DEF TimestampTooLarge, NotLanded, SendRefused, Underpriced,
         UnderpricedUnknown, NotIncluded, RpcError, Again, Fails, Attempting,
         Live, l1Vars, attemptVars
<1>6. CASE Relay
  <2>1. Live' \subseteq Live \cup {tx} /\ tx # None /\ Attempting
    BY <1>6 DEF Relay, Live, TypeOK, Attempting
  <2> QED
    BY <1>6, <2>1, LandingSends DEF Relay, attemptVars
<1>7. CASE Sent
  <2>1. Live' \subseteq Live \cup {tx} /\ tx # None /\ Attempting
    BY <1>7 DEF Sent, Live, TypeOK, Attempting
  <2> QED
    BY <1>7, <2>1, LandingSends DEF Sent, attemptVars
<1>8. CASE Reverted
  <2>1. /\ receipt # None /\ ~receipt.ok /\ Attempting
        /\ last_used_nonce' = None /\ receipt' = None /\ tx' = None
        /\ UNCHANGED <<batch, mined>> /\ Live' = Live
    <3>1. tx \in Tx /\ receipt = [tx |-> tx, ok |-> FALSE]
      BY <1>8 DEF Reverted, Receipt, TypeOK
    <3>2. receipt \in Receipts /\ ~receipt.ok
      BY <3>1 DEF Receipts
    <3> QED
      BY <1>8, <3>2, NoneAssumption
         DEF Reverted, Receipt, Fails, Attempting, Live, l1Vars
  <2>2. last_used_nonce \in Nat /\ last_used_nonce < AccountNonce
        /\ ~mined[last_used_nonce + 1].ok
    BY <2>1 DEF LandingInv, ReceiptTrue, TypeOK, AccountNonce
  <2>3. \A i \in DOMAIN mined : ~(mined[i].batch = batch /\ mined[i].ok)
    BY <2>1, <2>2 DEF LandingInv, LandingKnown
  <2>4. \A t \in Live : ~(t.batch = batch /\ t.nonce = AccountNonce)
    BY <2>1, <2>2, LandingTypes DEF LandingInv, LandingKnown
  <2> QED
    BY <2>1, <2>3, <2>4
       DEF LandingInv, BatchesKnown, NotTwice, LandingKnown, ReceiptTrue,
           OneLanding, AccountNonce
<1>9. CASE LastRetryFails \/ Crash
  BY <1>9, LandingEnds DEF LastRetryFails, Crash, Restart, Attempting
<1>10. CASE EnoughBond \/ DepositSeen \/ NotEnoughTokens \/ DepositFails
  <2>1. CASE Restart
    BY <2>1, LandingEnds DEF Restart, Attempting
  <2>2. CASE (MonitorDone \/ Approved) /\ UNCHANGED l1Vars
    BY <2>2, LandingKeeps
       DEF MonitorDone, Approved, Attempting, attemptVars, l1Vars, Live
  <2> QED
    BY <1>10, <2>1, <2>2
       DEF EnoughBond, DepositSeen, NotEnoughTokens, DepositFails, MonitorFails
<1>11. CASE FillDeposit
  BY <1>11, LandingKeeps DEF FillDeposit, Attempting, attemptVars, l1Vars, Live
<1>12. CASE SendDeposit
  <2>1. /\ Live' = Live \cup {DepositTx} /\ DepositTx.batch = None
        /\ UNCHANGED <<pc, batch, mined, last_used_nonce, receipt, tx>>
    BY <1>12 DEF SendDeposit, Live, DepositTx, attemptVars
  <2> QED
    BY <2>1, LandingTypes
       DEF LandingInv, BatchesKnown, NotTwice, LandingKnown, ReceiptTrue,
           OneLanding, AccountNonce, Attempting
<1>13. CASE Include
  BY <1>13, LandingIncludes
<1>14. CASE BundleExpires
  BY <1>14, LandingKeeps DEF BundleExpires, Attempting, attemptVars, Live
<1>15. CASE UNCHANGED vars
  BY <1>15, LandingKeeps DEF vars, Attempting, attemptVars, l1Vars, Live
<1> QED
  BY <1>1, <1>2, <1>3, <1>4, <1>5, <1>6, <1>7, <1>8, <1>9, <1>10, <1>11,
     <1>12, <1>13, <1>14, <1>15 DEF Next, Propose, Monitor, L1

(* A batch is proposed once, over replacements, bundles, reverts, lost     *)
(* answers, deposits and restarts.                                         *)
THEOREM BatchLandsOnce == Spec => []OneLanding
<1>1. Init => NonceInv
  BY DEF Init, NonceInv, NonceNotAhead, DepositFollows, NoNonceGap
<1>2. Init => LandingInv
  BY DEF Init, LandingInv, BatchesKnown, NotTwice, LandingKnown, ReceiptTrue,
         OneLanding, Attempting, Live
<1>3. LandingInv => OneLanding
  BY DEF LandingInv
<1> QED
  BY <1>1, <1>2, <1>3, NonceStep, LandingStep, AccountTypeCorrect, PTL DEF Spec

-----------------------------------------------------------------------------
(* The negotiation.  The mempool holds one transaction of a batch at most, *)
(* the caps learned since it took it cover its fees twice, and so does the *)
(* transaction built with them.                                            *)

LEMMA FeesCoverCap ==
  ASSUME TypeOK, NEW est \in Estimates, NEW k \in Kinds, caps[k] # None
  PROVE  FeesOf(est)[k] >= caps[k]
<1>1. caps[k] \in Nat /\ Buffer \in Nat /\ Buffer >= 100
  BY FeeAssumption DEF TypeOK
<1>2. Buffered(caps[k]) >= caps[k] /\ Buffered(caps[k]) \in Nat
  <2>1. PICK d \in Nat : Buffer = 100 + d
    <3>1. Buffer - 100 \in Nat /\ Buffer = 100 + (Buffer - 100)
      BY <1>1
    <3> QED
      BY <3>1
  <2> DEFINE c == caps[k]
             e == c * d
  <2>2. e \in Nat /\ c * Buffer = 100 * c + e
    BY <1>1, <2>1
  <2>3. c \in Nat
    BY <1>1
  <2> HIDE DEF c, e
  <2>4. (100 * c + e) \div 100 >= c /\ (100 * c + e) \div 100 \in Nat
    BY <2>2, <2>3
  <2> QED
    BY <2>2, <2>4 DEF Buffered, c
<1>3. RawFee(est, k) >= caps[k] /\ RawFee(est, k) \in Nat
  BY <1>1, <1>2 DEF RawFee
<1>4. FeesOf(est)[k] = AtLeastMin(k, IF bump_fees THEN 2 * RawFee(est, k)
                                                 ELSE RawFee(est, k))
  BY DEF FeesOf
<1> DEFINE r == RawFee(est, k)
<1>5. r >= caps[k] /\ r \in Nat
  BY <1>3
<1> HIDE DEF r
<1>6. AtLeastMin(k, IF bump_fees THEN 2 * r ELSE r) >= caps[k]
  BY <1>1, <1>5, FeeAssumption DEF AtLeastMin
<1> QED
  BY <1>4, <1>6 DEF r

OneQueued ==
  \A t, u \in pool :
    t.batch # None /\ u.batch # None => t = u /\ t.nonce >= AccountNonce

CapsCover ==
  \A k \in named, q \in pool :
    q.batch # None => caps[k] # None /\ caps[k] >= 2 * q.fees[k]

TxCovers ==
  tx # None =>
    \A k \in named, q \in pool :
      q.batch # None => tx.fees[k] >= 2 * q.fees[k]

NamedInv == OneQueued /\ CapsCover /\ TxCovers

LEMMA NamedStep ==
  TypeOK /\ NonceInv /\ LandingInv /\ NamedInv /\ [Next]_vars => NamedInv'
<1> SUFFICES ASSUME TypeOK, NonceInv, LandingInv, NamedInv, [Next]_vars
             PROVE  NamedInv'
  OBVIOUS
<1>1. CASE /\ UNCHANGED <<pool, mined>>
           /\ named' = {} \/ UNCHANGED <<named, caps>>
           /\ tx' \in {tx, None}
  BY <1>1 DEF NamedInv, OneQueued, CapsCover, TxCovers, AccountNonce
<1>2. CASE BuildTx
  <2>1. PICK est \in Estimates :
          tx' = [nonce |-> last_used_nonce, batch |-> batch,
                 fees |-> FeesOf(est)]
    BY <1>2 DEF BuildTx
  <2>2. UNCHANGED <<pool, mined, caps, named>>
    BY <1>2 DEF BuildTx, attemptVars, l1Vars
  <2>3. ASSUME NEW k \in named, NEW q \in pool, q.batch # None
        PROVE  tx'.fees[k] >= 2 * q.fees[k]
    <3>1. /\ k \in Kinds /\ q.fees[k] \in Nat
          /\ caps[k] \in Nat /\ caps[k] >= 2 * q.fees[k]
      BY <2>3 DEF TypeOK, Tx, Fees, NamedInv, CapsCover
    <3>2. FeesOf(est)[k] >= caps[k] /\ FeesOf(est)[k] \in Nat
      BY <3>1, FeesCoverCap, FeesOfType, NoneAssumption DEF Fees
    <3> QED
      BY <2>1, <3>1, <3>2
  <2> QED
    BY <2>2, <2>3 DEF NamedInv, OneQueued, CapsCover, TxCovers, AccountNonce
<1>3. CASE Underpriced
  <2>1. PICK k \in Kinds, q \in Queued :
          caps' = Learned(k, q) /\ named' = named \cup {k}
    BY <1>3 DEF Underpriced
  <2>2. tx' = None /\ UNCHANGED <<pool, mined>>
    BY <1>3 DEF Underpriced, Again, l1Vars
  <2>3. q \in pool /\ q.batch # None /\ q.fees[k] \in Nat
    BY DEF Queued, TypeOK, Tx, Fees
  <2>4. /\ caps'[k] = 2 * q.fees[k] /\ caps'[k] # None
        /\ \A j \in Kinds : j # k => caps'[j] = caps[j]
    BY <2>1, <2>3, NoneAssumption DEF Learned, TypeOK
  <2>5. \A u \in pool : u.batch # None => u = q
    BY <2>3 DEF NamedInv, OneQueued
  <2>6. CapsCover'
    <3> SUFFICES ASSUME NEW j \in named', NEW u \in pool, u.batch # None
                 PROVE  caps'[j] # None /\ caps'[j] >= 2 * u.fees[j]
      BY <2>2 DEF CapsCover
    <3>1. CASE j = k
      BY <2>3, <2>4, <2>5, <3>1
    <3>2. CASE j # k
      <4>1. j \in named /\ j \in Kinds
        BY <2>1, <3>2 DEF TypeOK
      <4> QED
        BY <2>4, <3>2, <4>1 DEF NamedInv, CapsCover
    <3> QED
      BY <3>1, <3>2
  <2> QED
    BY <2>2, <2>6 DEF NamedInv, OneQueued, TxCovers, AccountNonce
<1>4. CASE Sent
  <2>1. /\ pool' = (pool \ Queued) \cup {tx} /\ named' = {} /\ mined' = mined
        /\ tx.nonce \in Nat /\ tx.nonce >= AccountNonce
    BY <1>4, LandingTypes DEF Sent, Refused, TypeOK, Tx
  <2>2. tx.nonce <= AccountNonce
    BY <1>4, NoneAssumption DEF Sent, TypeOK, NonceInv, NonceNotAhead
  <2>3. ASSUME NEW t \in pool, t.batch # None PROVE t \in Queued
    <3>1. t.nonce >= AccountNonce /\ t.nonce <= AccountNonce /\ t.nonce \in Nat
      BY <2>3, LandingTypes
         DEF NamedInv, OneQueued, LandingInv, BatchesKnown, Live
    <3> QED
      BY <2>1, <2>2, <2>3, <3>1, LandingTypes DEF Queued
  <2>4. ASSUME NEW t \in pool', t.batch # None
        PROVE  t = tx /\ t.nonce >= AccountNonce
    BY <2>1, <2>3, <2>4
  <2> QED
    BY <2>1, <2>4 DEF NamedInv, OneQueued, CapsCover, TxCovers, AccountNonce
<1>5. CASE SendDeposit
  <2>1. /\ pool' = pool \cup {DepositTx} /\ DepositTx.batch = None
        /\ UNCHANGED <<mined, caps, named, tx>>
    BY <1>5 DEF SendDeposit, DepositTx, attemptVars
  <2> QED
    BY <2>1 DEF NamedInv, OneQueued, CapsCover, TxCovers, AccountNonce
<1>6. CASE Include
  <2>1. /\ pool' = {u \in pool : u.nonce > AccountNonce} /\ named' = {}
        /\ AccountNonce' = AccountNonce + 1
    BY <1>6 DEF Include, IncludeTx, AccountNonce, TypeOK
  <2>2. \A u \in pool' : u \in pool /\ u.nonce >= AccountNonce'
    BY <2>1, LandingTypes DEF Live
  <2> QED
    BY <2>1, <2>2 DEF NamedInv, OneQueued, CapsCover, TxCovers
<1>7. CASE \/ TakeBatch \/ GetNonce \/ GasEstimationGivesUp
           \/ TimestampTooLarge \/ Relay \/ NotLanded \/ SendRefused
           \/ UnderpricedUnknown \/ Proposed \/ Reverted \/ NotIncluded
           \/ RpcError \/ LastRetryFails \/ Crash \/ EnoughBond
           \/ NotEnoughTokens \/ FillDeposit \/ DepositFails \/ DepositSeen
           \/ BundleExpires \/ UNCHANGED vars
  BY <1>1, <1>7
     DEF TakeBatch, GetNonce, GasEstimationGivesUp, TimestampTooLarge, Relay,
         NotLanded, SendRefused, UnderpricedUnknown, Proposed, Reverted,
         NotIncluded, RpcError, LastRetryFails, Crash, EnoughBond,
         NotEnoughTokens, FillDeposit, DepositFails, DepositSeen,
         BundleExpires, Done, Again, Fails, Restart, MonitorDone,
         MonitorFails, Approved, attemptVars, l1Vars, vars
<1> QED
  BY <1>2, <1>3, <1>4, <1>5, <1>6, <1>7 DEF Next, Propose, Monitor, L1

(* For as long as the mempool holds a transaction it asks for more of each *)
(* fee once, whatever the node estimates in the meantime.                  *)
THEOREM FeesNamedOnce == Spec => []NamedOnce
<1>1. Init => NonceInv /\ LandingInv
  BY DEF Init, NonceInv, NonceNotAhead, DepositFollows, NoNonceGap,
         LandingInv, BatchesKnown, NotTwice, LandingKnown, ReceiptTrue,
         OneLanding, Attempting, Live
<1>2. Init => NamedInv
  BY DEF Init, NamedInv, OneQueued, CapsCover, TxCovers
<1>3. TypeOK /\ NamedInv => NamedOnce
  <2> SUFFICES ASSUME TypeOK, NamedInv, pc = "send", NEW k \in named,
                      NEW q \in Queued
               PROVE  ~(tx.fees[k] < 2 * q.fees[k])
    BY DEF NamedOnce, Low
  <2>1. /\ tx # None /\ tx.fees[k] \in Nat /\ q.fees[k] \in Nat
        /\ q \in pool /\ q.batch # None
    BY DEF TypeOK, Tx, Fees, Queued
  <2> QED
    BY <2>1 DEF NamedInv, TxCovers
<1> QED
  BY <1>1, <1>2, <1>3, NonceStep, LandingStep, NamedStep, AccountTypeCorrect,
     PTL DEF Spec

=============================================================================
