---------------------------- MODULE GatewayProofs ----------------------------
(* Theorems about the gateway as a whole, for any number of blocks,        *)
(* anchors, faults, retries and requests, and any block sizes: it keeps    *)
(* the promise of module Rollup, forgets nothing it handed over and, as    *)
(* long as nothing goes wrong, strands nothing.                            *)
EXTENDS Gateway, ProposerProofs

-----------------------------------------------------------------------------
(* The blocks of a gateway have anchors that do not go down, so that the   *)
(* requests made of any group come in the order of its blocks.             *)
UpwardInv == AnchorsGrow(1 .. Len(blocks))

LEMMA RequestsInOrder ==
  ASSUME blocks \in L2, UpwardInv, NEW g, GroupOf(g)
  PROVE  LET rs == RequestsFrom(g)
         IN  /\ rs \in Seq(Batch) /\ Len(rs) \in 1 .. Len(rs)
             /\ Within(g, rs) /\ Ascending(rs)
             /\ \A bn \in g : bn <= rs[Len(rs)].end
<1>1. AnchorsGrow(g)
  BY DEF UpwardInv, AnchorsGrow, GroupOf
<1> QED
  BY <1>1, RequestsOfGroup DEF Requested

-----------------------------------------------------------------------------
(* A request more leaves the invariant of module Proposer as it is.        *)
Enqueued(r) ==
  /\ queue' = Append(queue, r)
  /\ owed' = owed \cup BlocksOf(r)
  /\ live_pending' = live_pending + (IF r.resync THEN 0 ELSE 1)
  /\ UNCHANGED <<job, groups, rest, excused, batchVars, delayed, checks, l1Vars,
                 blocks>>

LEMMA AppendIs ==
  ASSUME NEW S, NEW q \in Seq(S), NEW r \in S
  PROVE  LET p == Append(q, r)
         IN  /\ p \in Seq(S) /\ Len(p) = Len(q) + 1 /\ Len(q) \in Nat
             /\ p[Len(q) + 1] = r
             /\ \A i \in 1 .. Len(q) : p[i] = q[i]
             /\ \A i \in 1 .. Len(p) : i \in 1 .. Len(q) \/ i = Len(q) + 1
<1> DEFINE p == Append(q, r)
<1>1. /\ p \in Seq(S) /\ Len(p) = Len(q) + 1 /\ Len(q) \in Nat
      /\ p[Len(q) + 1] = r
      /\ \A i \in 1 .. Len(q) : p[i] = q[i]
  BY AppendProperties, LenProperties
<1> HIDE DEF p
<1>2. \A i \in 1 .. Len(p) : i \in 1 .. Len(q) \/ i = Len(q) + 1
  BY <1>1
<1> QED
  BY <1>1, <1>2 DEF p

LEMMA EnqueueKeeps ==
  ASSUME Inv, NEW r \in Request, Sound(r, Len(blocks)), Enqueued(r)
  PROVE  Inv'
<1>1. /\ TypeOK /\ LivePendingExact /\ DelayedWhileRetrying
      /\ WorkInv /\ StraightInv /\ KeptInv /\ ExactInv /\ HistoryInv
      /\ NonceInv /\ queue \in Seq(Request) /\ rest \in Seq(Batch)
  BY DEF Inv, TypeOK
<1>2. /\ queue' = Append(queue, r)
      /\ owed' = owed \cup BlocksOf(r)
      /\ live_pending' = live_pending + (IF r.resync THEN 0 ELSE 1)
      /\ UNCHANGED <<job, groups, rest, excused, batch, pc, retries,
                     last_used_nonce, delayed, checks, my_turn, inbox, nonce,
                     pool, included, l1_reorged, blocks>>
  BY DEF Enqueued, batchVars, l1Vars
<1>3. /\ queue' \in Seq(Request) /\ Len(queue') = Len(queue) + 1
      /\ Len(queue) \in Nat /\ queue'[Len(queue) + 1] = r
      /\ \A i \in 1 .. Len(queue) : queue'[i] = queue[i]
      /\ \A i \in 1 .. Len(queue') : i \in 1 .. Len(queue) \/ i = Len(queue) + 1
  BY <1>1, <1>2, AppendIs
<1>4. live_pending' \in Nat
  <2>1. live_pending \in Nat
    BY <1>1 DEF TypeOK
  <2> QED
    BY <1>2, <2>1
<1>5. owed' \subseteq Nat
  <2>1. r.start \in Nat /\ r.end \in Nat
    BY RequestType
  <2>2. BlocksOf(r) \subseteq Nat
    BY <2>1 DEF BlocksOf
  <2> QED
    BY <1>1, <1>2, <2>2 DEF TypeOK
<1>6. TypeOK'
  BY <1>1, <1>2, <1>3, <1>4, <1>5 DEF TypeOK
<1>7. LivePendingExact'
  <2>1. CountOf(queue') = CountOf(queue) + (IF r.resync THEN 0 ELSE 1)
    BY <1>1, <1>2, CountAppend
  <2>2. live_pending = CountedOf(queue, rest, batch)
    BY <1>1, LivePendingIs
  <2>3. CountOf(queue) \in Nat /\ Len(rest) \in Nat
    BY <1>1, CountedType
  <2>4. live_pending' = CountedOf(queue', rest', batch')
    BY <1>2, <2>1, <2>2, <2>3 DEF CountedOf
  <2> QED
    BY <2>4 DEF LivePendingExact, Waiting, CountOf, CountedOf
<1>8. WorkInv'
  BY <1>1, <1>2, <1>3 DEF WorkInv
<1>9. KeptInv'
  <2> SUFFICES ASSUME NEW bn \in owed'
               PROVE  KeptIn(bn, FinalOf(included, inbox), queue', rest, batch,
                             groups, checks)
    BY <1>2 DEF KeptInv
  <2>1. CASE bn \in owed
    <3>1. KeptIn(bn, FinalOf(included, inbox), queue, rest, batch, groups, checks)
      BY <1>1, <2>1 DEF KeptInv
    <3>2. \A i \in 1 .. Len(queue) : i \in 1 .. Len(queue')
      BY <1>3
    <3> QED
      BY <1>3, <3>1, <3>2 DEF KeptIn
  <2>2. CASE bn \in BlocksOf(r)
    <3>1. Len(queue) + 1 \in 1 .. Len(queue')
      BY <1>3
    <3> QED
      BY <1>3, <2>2, <3>1 DEF KeptIn
  <2> QED
    BY <1>2, <2>1, <2>2
<1>10. (DelayedWhileRetrying /\ HistoryInv /\ NonceInv)'
  BY <1>1, <1>2 DEF DelayedWhileRetrying, HistoryInv, NonceInv
<1>11. ExactInv'
  BY <1>1, <1>2 DEF ExactInv, CountsFit, AllExact
<1>12. StraightInv'
  BY <1>1, <1>2 DEF StraightInv, Straight, AnchorsGrow
<1> QED
  BY <1>6, <1>7, <1>8, <1>9, <1>10, <1>11, <1>12 DEF Inv

-----------------------------------------------------------------------------
(* The invariant of the gateway, whatever goes wrong.  Everything that the *)
(* proposer works at, and what it sent, ends before the open batch.        *)
GatewayTypeOK ==
  /\ open \in (1 .. Len(blocks)) \cup {None}
  /\ can_propose \in BOOLEAN /\ turn \in Turns /\ faults \in 0 .. MaxFaults
  /\ my_turn = (turn \in {"current", "clearing", "handed", "disabled"})
  /\ ~l1_reorged
  /\ PeersActive(turn) => open = None
  /\ pc = "recv" => last_used_nonce = None

EndsBy(tip) ==
  /\ inbox <= tip
  /\ \A i \in 1 .. Len(queue) : queue[i].end <= tip
  /\ job # None => job.end <= tip
  /\ \A g \in groups : \A bn \in g : bn <= tip
  /\ \A i \in 1 .. Len(rest) : Spans(rest[i]) /\ rest[i].end <= tip
  /\ batch # None => Spans(batch) /\ batch.end <= tip
  /\ \A t \in pool : t.end <= tip

OpenInv ==
  /\ UpwardInv
  /\ open # None => Len(blocks) - open + 1 <= MaxPerBatch

GatewayInv == Inv /\ GatewayTypeOK /\ OpenInv /\ EndsBy(ResyncTarget)

LEMMA TargetType ==
  ASSUME Inv, GatewayTypeOK
  PROVE  /\ ResyncTarget \in Nat /\ Len(blocks) \in Nat /\ inbox \in Nat
         /\ ResyncTarget <= Len(blocks)
         /\ open # None => open \in Nat /\ ResyncTarget = open - 1
         /\ open = None => ResyncTarget = Len(blocks)
<1>1. Len(blocks) \in Nat /\ inbox \in Nat
  BY LenProperties DEF Inv, TypeOK
<1> QED
  BY <1>1 DEF GatewayTypeOK, ResyncTarget

LEMMA GatewayEffects ==
  ASSUME GatewayInv, [GatewayNext]_gatewayVars
  PROVE  \/ [Next]_vars
         \/ \E r \in Request : Sound(r, Len(blocks)) /\ Enqueued(r)
<1>1. /\ ResyncTarget \in Nat /\ Len(blocks) \in Nat /\ inbox \in Nat
      /\ ResyncTarget <= Len(blocks)
      /\ open # None => open \in 1 .. Len(blocks)
      /\ my_turn \in BOOLEAN
  BY TargetType DEF GatewayInv, GatewayTypeOK
<1>2. Seal \/ PeerBlock => OtherBlock
  BY DEF Seal, PeerBlock, OtherBlock, proposerVars
<1>3. ASSUME HandOver
      PROVE  \E r \in Request : Sound(r, Len(blocks)) /\ Enqueued(r)
  <2> DEFINE k == Len(blocks) - open + 1
             r == [resync |-> FALSE, start |-> open, end |-> Len(blocks), n |-> k]
  <2>1. open # None /\ open \in 1 .. Len(blocks)
    BY <1>1, <1>3 DEF HandOver
  <2>2. k \in Nat
    BY <1>1, <2>1
  <2>3. r \in Request
    BY <1>1, <2>1, <2>2 DEF Request
  <2>4. Sound(r, Len(blocks))
    <3>1. k <= MaxPerBatch
      BY <2>1 DEF GatewayInv, OpenInv
    <3> QED
      BY <1>1, <2>1, <3>1 DEF Sound
  <2>5. /\ queue' = Append(queue, r) /\ owed' = owed \cup BlocksOf(r)
        /\ ~r.resync
    BY <1>3 DEF HandOver, BlocksOf
  <2> HIDE DEF r
  <2>6. Enqueued(r)
    BY <1>3, <2>5 DEF HandOver, Enqueued
  <2> QED
    BY <2>3, <2>4, <2>6
<1>4. ASSUME CheckCanPropose
      PROVE  \/ UNCHANGED vars
             \/ \E r \in Request : Sound(r, Len(blocks)) /\ Enqueued(r)
  <2>1. /\ UNCHANGED <<job, groups, rest, excused, batchVars, flagVars, l1Vars,
                       blocks>>
        /\ \/ UNCHANGED <<queue, owed>>
           \/ \E origin \in 0 .. inbox : CheckResync(origin)
    BY <1>1, <1>4 DEF CheckCanPropose
  <2>2. CASE UNCHANGED <<queue, owed>>
    BY <2>1, <2>2 DEF vars, jobVars
  <2>3. ASSUME NEW origin \in 0 .. inbox, CheckResync(origin),
               ~ UNCHANGED <<queue, owed>>
        PROVE  \E r \in Request : Sound(r, Len(blocks)) /\ Enqueued(r)
    <3> DEFINE r == [resync |-> TRUE, start |-> origin + 1,
                     end |-> ResyncTarget, n |-> 0]
    <3>1. origin < ResyncTarget /\ origin \in Nat
      BY <1>1, <2>3 DEF CheckResync
    <3>2. r \in Request
      BY <1>1, <3>1 DEF Request
    <3>3. Sound(r, Len(blocks))
      BY <1>1, <3>1 DEF Sound
    <3>4. /\ queue' = Append(queue, r) /\ owed' = owed \cup BlocksOf(r)
          /\ r.resync
      BY <2>3, <3>1 DEF CheckResync, BlocksOf
    <3>5. live_pending \in Nat
      BY DEF GatewayInv, Inv, TypeOK
    <3> HIDE DEF r
    <3>6. Enqueued(r)
      BY <2>1, <3>4, <3>5 DEF Enqueued, flagVars
    <3> QED
      BY <3>2, <3>3, <3>6
  <2> QED
    BY <2>1, <2>2, <2>3
<1>5. Propose \/ RefusedOnceMore \/ ProposerFault \/ ProcessFault => Next
  BY DEF Propose, RefusedOnceMore, ProposerFault, ProcessFault, Next, Process,
         Environment
<1>6. Lands \/ Reverts \/ PeerLands => Next
  BY DEF Lands, Reverts, Landing, PeerLands, Next, Environment
<1>7. ASSUME TurnStep
      PROVE  [Next]_vars
  <2>1. /\ my_turn' \in BOOLEAN
        /\ UNCHANGED <<jobVars, batchVars, flagVars, owed, inbox, nonce, pool,
                       included, l1_reorged, blocks>>
    BY <1>7 DEF TurnStep, proposerVars
  <2>2. CASE my_turn' = my_turn
    BY <2>1, <2>2 DEF vars, l1Vars
  <2>3. CASE my_turn' = ~my_turn
    BY <2>1, <2>3 DEF TurnChanges, Next, Environment
  <2> QED
    BY <1>1, <2>1, <2>2, <2>3
<1>8. UNCHANGED gatewayVars => UNCHANGED vars
  BY DEF gatewayVars
<1> QED
  BY <1>2, <1>3, <1>4, <1>5, <1>6, <1>7, <1>8
  DEF GatewayNext, Next, Environment

-----------------------------------------------------------------------------
(* The steps of the proposer, by what becomes of its work.                 *)
Tries == Propose \/ ProposerFault

LEMMA TriesKeep ==
  ASSUME Tries
  PROVE  /\ UNCHANGED <<my_turn, inbox, nonce, l1_reorged, blocks, open,
                        can_propose, turn>>
         /\ Propose => faults' = faults
         /\ ProposerFault => faults' = faults + 1 /\ faults < MaxFaults
<1> USE DEF l1Vars, sequencerVars
<1>1. CASE Propose
  <2>1. UNCHANGED <<open, can_propose, turn, faults>>
    BY <1>1 DEF Propose
  <2>2. CASE RecvBatch \/ RecvResync \/ NextGroup \/ NextInGroup \/ EndResync
    BY <2>1, <2>2 DEF RecvBatch, RecvResync, NextGroup, NextInGroup, EndResync,
       Propose, ProposerFault, Fault
  <2>3. CASE GetNonce \/ GasEstimationGivesUp \/ SendAgain \/ NotIncluded
             \/ Proposed \/ Reverted \/ RpcError
    BY <2>1, <2>3 DEF GetNonce, GasEstimationGivesUp, SendAgain, NotIncluded,
       Proposed, Reverted, RpcError, ProposerFault, Fault
  <2>4. CASE Sent \/ ReorgCheckPasses
    BY <2>1, <2>4 DEF Sent, ReorgCheckPasses, ProposerFault, Fault
  <2> QED
    BY <1>1, <2>2, <2>3, <2>4 DEF Propose
<1>2. CASE ProposerFault
  <2>1. UNCHANGED <<open, can_propose, turn>> /\ Fault
    BY <1>2 DEF ProposerFault
  <2>2. UNCHANGED <<l1Vars, blocks>>
    BY <1>2 DEF ProposerFault, RpcError, EndResync
  <2> QED
    BY <1>1, <1>2, <2>1, <2>2 DEF Fault
<1> QED
  BY <1>1, <1>2 DEF Tries

LEMMA TriesEffects ==
  ASSUME TypeOK, Tries
  PROVE  \/ RecvBatch \/ RecvResync \/ NextGroup \/ NextInGroup \/ EndResync
         \/ EndsBatch
         \/ Sent
         \/ UNCHANGED <<jobVars, batch, pool>>
<1>1. pc # "recv" => batch # None
  BY DEF TypeOK
<1>2. GetNonce => EndsBatch \/ UNCHANGED <<jobVars, batch, pool>>
  BY <1>1 DEF GetNonce, GiveUp, EndsBatch, jobVars, l1Vars
<1>3. GasEstimationGivesUp \/ Proposed => EndsBatch
  BY <1>1 DEF GasEstimationGivesUp, Proposed, GiveUp, EndsBatch
<1>4. SendAgain \/ NotIncluded \/ RpcError \/ Reverted
        => UNCHANGED <<jobVars, batch, pool>>
  BY DEF SendAgain, NotIncluded, RpcError, Reverted, Again, Fails, l1Vars
<1>5. ReorgCheckPasses => UNCHANGED <<jobVars, batch, pool>>
  BY DEF ReorgCheckPasses, batchVars
<1> QED
  BY <1>2, <1>3, <1>4, <1>5 DEF Tries, Propose, ProposerFault

LEMMA ResyncWithin ==
  ASSUME NEW r, StartResync(r)
  PROVE  /\ \A g \in groups' : \A bn \in g : bn \in BlocksOf(r)
         /\ job' \in {r, None}
BY DEF StartResync, AllTogether, ByAnchor, InAnchor

(* What the process that aborts leaves on L1.                              *)
LEMMA RestartPool ==
  ASSUME TypeOK, Restart
  PROVE  /\ pc' = "recv" /\ batch' = None /\ rest' = <<>> /\ groups' = {}
         /\ queue' = <<>> /\ job' = None /\ last_used_nonce' = None
         /\ UNCHANGED <<my_turn, inbox, nonce, l1_reorged, blocks>>
         /\ \A t \in pool' : \E u \in pool : t.end = u.end
         /\ \A i \in 1 .. Len(included') :
              i \in 1 .. Len(included) /\ included'[i].ok = included[i].ok
<1>1. \A t \in Tx : Old(t).end = t.end
  BY NoneIsNot DEF Old, Tx
<1>2. pool \subseteq Tx /\ pool' = {Old(t) : t \in pool}
  BY DEF TypeOK, Restart
<1>3. \A t \in pool' : \E u \in pool : t.end = u.end
  BY <1>1, <1>2
<1> DEFINE inc == included
           p == [i \in DOMAIN inc |-> [inc[i] EXCEPT !.tx = Old(@)]]
<1>4. included' = p /\ inc \in Seq(Inclusion)
  BY DEF Restart, TypeOK, Inclusion
<1>5. DOMAIN inc = 1 .. Len(inc) /\ Len(inc) \in Nat
      /\ \A i \in 1 .. Len(inc) : inc[i] \in Inclusion
  BY <1>4, LenProperties, ElementOfSeq
<1>6. \A i \in 1 .. Len(inc) : p[i].ok = inc[i].ok
  <2> SUFFICES ASSUME NEW i \in 1 .. Len(inc)
               PROVE  p[i].ok = inc[i].ok
    OBVIOUS
  <2>1. p[i] = [inc[i] EXCEPT !.tx = Old(inc[i].tx)] /\ inc[i] \in Inclusion
    BY <1>5
  <2> HIDE DEF p
  <2> QED
    BY <2>1 DEF Inclusion
<1>7. Len(p) = Len(inc)
  <2>1. DOMAIN p = 1 .. Len(inc)
    BY <1>5
  <2>2. p \in Seq({p[i] : i \in 1 .. Len(inc)})
    BY <1>5, <2>1, SeqDef
  <2> QED
    BY <1>5, <2>1, <2>2, LenProperties
<1> HIDE DEF p
<1> QED
  BY <1>3, <1>4, <1>5, <1>6, <1>7 DEF Restart

-----------------------------------------------------------------------------
(* Every step of the gateway, by what changes around the proposer.         *)
Restarts == Restart /\ Reset

LEMMA RestartsIf ==
  RefusedOnceMore \/ ProcessFault => Restarts /\ turn' = turn
BY DEF RefusedOnceMore, ProcessFault, LastRetryFails, Crash, Restarts

LEMMA BlocksGrow ==
  ASSUME GatewayInv, [GatewayNext]_gatewayVars
  PROVE  /\ Len(blocks') \in Nat /\ Len(blocks) <= Len(blocks')
         /\ Seal \/ PeerBlock => Len(blocks') = Len(blocks) + 1
         /\ ~Seal /\ ~PeerBlock => UNCHANGED blocks
<1>1. /\ blocks \in L2 /\ TypeOK /\ Len(blocks) \in Nat
  BY LenProperties DEF GatewayInv, Inv, TypeOK, L2
<1>2. ASSUME Seal \/ PeerBlock
      PROVE  Len(blocks') = Len(blocks) + 1
  <2>1. \E anchor \in Anchors : NewBlocks(1, anchor)
    BY <1>2 DEF Seal, PeerBlock, OtherBlock
  <2> QED
    BY <1>1, <2>1, NewBlocksOnTop
<1>3. ASSUME ~Seal, ~PeerBlock
      PROVE  UNCHANGED blocks
  <2>1. HandOver \/ CheckCanPropose \/ TurnStep => UNCHANGED blocks
    BY DEF HandOver, CheckCanPropose, TurnStep
  <2>2. Tries => UNCHANGED blocks
    BY TriesKeep
  <2>3. RefusedOnceMore \/ ProcessFault => UNCHANGED blocks
    BY <1>1, RestartsIf, RestartPool DEF Restarts
  <2>4. Lands \/ Reverts \/ PeerLands => UNCHANGED blocks
    BY DEF Lands, Reverts, Landing, Include, PeerLands, PeerProposes
  <2>5. UNCHANGED gatewayVars => UNCHANGED blocks
    BY DEF gatewayVars, vars
  <2> QED
    BY <1>3, <2>1, <2>2, <2>3, <2>4, <2>5 DEF GatewayNext, Tries
<1> QED
  BY <1>1, <1>2, <1>3

LEMMA OpenMoves ==
  ASSUME [GatewayNext]_gatewayVars, TypeOK
  PROVE  /\ Seal => open' = IF open = None THEN Len(blocks) + 1 ELSE open
         /\ ~Seal => open' \in {open, None}
<1>1. HandOver \/ CheckCanPropose \/ PeerLands \/ PeerBlock \/ TurnStep
        \/ Lands \/ Reverts
        => open' \in {open, None}
  BY DEF HandOver, CheckCanPropose, PeerLands, PeerBlock, TurnStep, Lands,
     Reverts, sequencerVars
<1>2. Tries => open' = open
  BY TriesKeep
<1>3. RefusedOnceMore \/ ProcessFault => open' = None
  BY RestartsIf DEF Restarts, Reset
<1>4. UNCHANGED gatewayVars => open' = open
  BY DEF gatewayVars, sequencerVars
<1>5. Seal => open' = IF open = None THEN Len(blocks) + 1 ELSE open
  BY DEF Seal
<1> QED
  BY <1>1, <1>2, <1>3, <1>4, <1>5 DEF GatewayNext, Tries

(* No batch gets more blocks than L1 takes, and no block an anchor below   *)
(* that of one before it.                                                  *)
LEMMA OpenStep ==
  ASSUME GatewayInv, [GatewayNext]_gatewayVars
  PROVE  OpenInv'
<1>1. /\ TypeOK /\ blocks \in L2 /\ Len(blocks) \in Nat
      /\ open # None => open \in Nat
      /\ OpenInv
  BY TargetType DEF GatewayInv, Inv, TypeOK, L2
<1>2. MaxPerBatch \in Nat \ {0}
  BY LimitAssumption
<1>3. CASE Seal \/ PeerBlock
  <2>1. PICK anchor \in Anchors :
          /\ NewBlocks(1, anchor)
          /\ Seal /\ open # None => Len(blocks) - open + 1 < MaxPerBatch
    BY <1>3 DEF Seal, PeerBlock, OtherBlock
  <2>2. blocks' \in L2 /\ Len(blocks') = Len(blocks) + 1
    BY <1>1, <2>1, NewBlocksOnTop
  <2>3. UpwardInv'
    <3>1. Upward
      BY <1>3 DEF Seal, PeerBlock
    <3>2. DOMAIN blocks' = 1 .. Len(blocks')
      BY <2>2, LenProperties DEF L2
    <3> QED
      BY <3>1, <3>2 DEF Upward, UpwardInv, AnchorsGrow
  <2>4. open' # None => Len(blocks') - open' + 1 <= MaxPerBatch
    <3>1. CASE Seal /\ open = None
      <4>1. open' = Len(blocks) + 1
        BY <3>1 DEF Seal
      <4> QED
        BY <1>1, <1>2, <2>2, <4>1
    <3>2. CASE Seal /\ open # None
      <4>1. open' = open /\ Len(blocks) - open + 1 < MaxPerBatch
        BY <2>1, <3>2 DEF Seal
      <4> QED
        BY <1>1, <1>2, <2>2, <3>2, <4>1
    <3>3. CASE PeerBlock
      <4>1. open' = None
        BY <3>3 DEF PeerBlock, sequencerVars
      <4> QED
        BY <4>1
    <3> QED
      BY <1>3, <3>1, <3>2, <3>3
  <2> QED
    BY <2>3, <2>4 DEF OpenInv
<1>4. CASE ~Seal /\ ~PeerBlock
  <2>1. UNCHANGED blocks /\ open' \in {open, None}
    BY <1>1, <1>4, BlocksGrow, OpenMoves
  <2> QED
    BY <1>1, <2>1 DEF OpenInv, UpwardInv, AnchorsGrow
<1> QED
  BY <1>3, <1>4

LEMMA TriesNonce ==
  ASSUME TypeOK, Tries, pc = "recv" => last_used_nonce = None, pc' = "recv"
  PROVE  last_used_nonce' = None
<1>1. CASE Sent \/ GetNonce \/ GasEstimationGivesUp \/ SendAgain \/ NotIncluded
           \/ Proposed \/ Reverted
  BY <1>1 DEF Sent, GetNonce, GasEstimationGivesUp, SendAgain, NotIncluded,
     Proposed, Reverted, GiveUp, Again, Fails
<1>2. CASE RecvResync \/ NextGroup \/ EndResync \/ ReorgCheckPasses
  BY <1>2 DEF RecvResync, NextGroup, EndResync, ReorgCheckPasses, batchVars
<1>3. CASE RecvBatch \/ NextInGroup \/ RpcError
  BY <1>3 DEF RecvBatch, NextInGroup, RpcError, Fails
<1> QED
  BY <1>1, <1>2, <1>3 DEF Tries, Propose, ProposerFault

LEMMA TypesStep ==
  ASSUME GatewayInv, [GatewayNext]_gatewayVars
  PROVE  GatewayTypeOK'
<1>1. /\ Len(blocks) \in Nat /\ GatewayTypeOK /\ TypeOK
      /\ MaxFaults \in Nat /\ faults \in 0 .. MaxFaults
  BY TargetType, FaultAssumption DEF GatewayInv, GatewayTypeOK, Inv
<1>2. /\ Len(blocks') \in Nat /\ Len(blocks) <= Len(blocks')
      /\ Seal \/ PeerBlock => Len(blocks') = Len(blocks) + 1
  BY BlocksGrow
<1>3. ASSUME UNCHANGED <<can_propose, turn, faults, my_turn, l1_reorged, pc,
                         last_used_nonce>>,
             open' = open \/ open' = None
      PROVE  GatewayTypeOK'
  BY <1>1, <1>2, <1>3 DEF GatewayTypeOK
<1>4. CASE Seal
  <2>1. /\ UNCHANGED <<can_propose, turn, faults, my_turn, l1_reorged, pc,
                       last_used_nonce>>
        /\ open' \in {open, Len(blocks) + 1} /\ MaySequence(turn)
    BY <1>4 DEF Seal, proposerVars, batchVars, l1Vars
  <2>2. open' \in (1 .. Len(blocks')) \cup {None}
    BY <1>1, <1>2, <1>4, <2>1 DEF GatewayTypeOK
  <2>3. ~PeersActive(turn)
    BY <2>1 DEF MaySequence, PeersActive
  <2> QED
    BY <1>1, <2>1, <2>2, <2>3 DEF GatewayTypeOK
<1>5. CASE HandOver
  BY <1>3, <1>5 DEF HandOver, batchVars, l1Vars
<1>6. CASE PeerBlock
  BY <1>3, <1>6 DEF PeerBlock, OtherBlock, sequencerVars, batchVars, l1Vars
<1>7. CASE CheckCanPropose
  <2>1. /\ UNCHANGED <<turn, my_turn, l1_reorged, pc, last_used_nonce, open,
                       blocks>>
        /\ can_propose' = MayPropose(turn)
        /\ faults' = faults \/ (faults' = faults + 1 /\ faults < MaxFaults)
    BY <1>7 DEF CheckCanPropose, Fault, batchVars, l1Vars
  <2>2. faults' \in 0 .. MaxFaults
    BY <1>1, <2>1
  <2>3. can_propose' \in BOOLEAN
    BY <2>1 DEF MayPropose
  <2> QED
    BY <1>1, <2>1, <2>2, <2>3 DEF GatewayTypeOK
<1>8. CASE Tries
  <2>1. /\ UNCHANGED <<my_turn, l1_reorged, blocks, open, can_propose, turn>>
        /\ faults' = faults \/ (faults' = faults + 1 /\ faults < MaxFaults)
    BY <1>8, TriesKeep DEF Tries
  <2>2. faults' \in 0 .. MaxFaults
    BY <1>1, <2>1
  <2>3. pc' = "recv" => last_used_nonce' = None
    BY <1>1, <1>8, TriesNonce DEF GatewayTypeOK
  <2> QED
    BY <1>1, <2>1, <2>2, <2>3 DEF GatewayTypeOK
<1>9. CASE RefusedOnceMore \/ ProcessFault
  <2>1. /\ last_used_nonce' = None
        /\ UNCHANGED <<my_turn, l1_reorged, blocks, turn>>
        /\ open' = None /\ can_propose' = FALSE
    BY <1>1, <1>9, RestartsIf, RestartPool DEF Restarts, Reset
  <2>2. faults' = faults \/ (faults' = faults + 1 /\ faults < MaxFaults)
    BY <1>9 DEF RefusedOnceMore, ProcessFault, Fault
  <2>3. faults' \in 0 .. MaxFaults
    BY <1>1, <2>2
  <2> QED
    BY <1>1, <2>1, <2>3 DEF GatewayTypeOK
<1>10. CASE Lands \/ Reverts
  <2>1. /\ UNCHANGED <<my_turn, l1_reorged, blocks, open, can_propose, turn, pc,
                       last_used_nonce>>
        /\ faults' = faults \/ (faults' = faults + 1 /\ faults < MaxFaults)
    BY <1>10 DEF Lands, Reverts, Landing, Include, Fault, batchVars,
       sequencerVars
  <2>2. faults' \in 0 .. MaxFaults
    BY <1>1, <2>1
  <2> QED
    BY <1>1, <2>1, <2>2 DEF GatewayTypeOK
<1>11. CASE PeerLands
  BY <1>3, <1>11 DEF PeerLands, PeerProposes, sequencerVars, batchVars
<1>12. CASE TurnStep
  <2>1. /\ UNCHANGED <<l1_reorged, blocks, open, can_propose, pc,
                       last_used_nonce>>
        /\ faults' = faults \/ (faults' = faults + 1 /\ faults < MaxFaults)
        /\ PeersActive(turn') => open = None
        /\ my_turn' = (turn' \in {"current", "clearing", "handed", "disabled"})
    BY <1>12 DEF TurnStep, Fault, proposerVars, sequencerVars, batchVars
  <2>2. faults' \in 0 .. MaxFaults
    BY <1>1, <2>1
  <2>3. turn' \in Turns
    <3>1. turn' = NextPhase[turn] \/ turn' = "disabled"
      BY <1>12 DEF TurnStep
    <3>2. turn \in Turns
      BY <1>1 DEF GatewayTypeOK
    <3> QED
      BY <3>1, <3>2 DEF NextPhase, Turns
  <2> QED
    BY <1>1, <2>1, <2>2, <2>3 DEF GatewayTypeOK
<1>13. CASE UNCHANGED gatewayVars
  BY <1>3, <1>13 DEF gatewayVars, vars, sequencerVars, batchVars, l1Vars
<1> QED
  BY <1>4, <1>5, <1>6, <1>7, <1>8, <1>9, <1>10, <1>11, <1>12, <1>13
  DEF GatewayNext, Tries

-----------------------------------------------------------------------------
(* What the proposer works at ends before the open batch.                  *)
LEMMA EndsGrow ==
  ASSUME TypeOK, NEW tip \in Nat, NEW tip2 \in Nat, tip <= tip2, EndsBy(tip)
  PROVE  EndsBy(tip2)
<1>1. /\ inbox \in Nat /\ groups \subseteq SUBSET Nat
      /\ job \in Request \cup {None} /\ batch \in Batch \cup {None}
      /\ pool \subseteq Tx
      /\ \A i \in 1 .. Len(queue) : queue[i] \in Request
      /\ \A i \in 1 .. Len(rest) : rest[i] \in Batch
  BY ElementOfSeq DEF TypeOK
<1>2. inbox <= tip2
  BY <1>1 DEF EndsBy
<1>3. /\ \A i \in 1 .. Len(queue) : queue[i].end <= tip2
      /\ job # None => job.end <= tip2
  BY <1>1, RequestType DEF EndsBy
<1>4. ASSUME NEW g \in groups, NEW bn \in g
      PROVE  bn <= tip2
  <2>1. bn \in Nat
    BY <1>1
  <2>2. bn <= tip
    BY DEF EndsBy
  <2> QED
    BY <2>1, <2>2
<1>5. /\ \A i \in 1 .. Len(rest) : Spans(rest[i]) /\ rest[i].end <= tip2
      /\ batch # None => Spans(batch) /\ batch.end <= tip2
  BY <1>1, RequestType DEF EndsBy
<1>6. \A t \in pool : t.end <= tip2
  BY <1>1, RequestType DEF EndsBy
<1> QED
  BY <1>2, <1>3, <1>4, <1>5, <1>6 DEF EndsBy

LEMMA EndsEnqueued ==
  ASSUME TypeOK, NEW tip, EndsBy(tip), NEW r \in Request, r.end <= tip,
         queue' = Append(queue, r),
         UNCHANGED <<inbox, job, groups, rest, batch, pool>>
  PROVE  EndsBy(tip)'
<1>1. queue \in Seq(Request)
  BY DEF TypeOK
<1>2. /\ queue'[Len(queue) + 1] = r
      /\ \A i \in 1 .. Len(queue) : queue'[i] = queue[i]
      /\ \A i \in 1 .. Len(queue') : i \in 1 .. Len(queue) \/ i = Len(queue) + 1
  BY <1>1, AppendIs
<1> QED
  BY <1>2 DEF EndsBy

LEMMA EndsTries ==
  ASSUME Inv, UpwardInv, NEW tip \in Nat, EndsBy(tip), Tries
  PROVE  /\ inbox' <= tip
         /\ \A i \in 1 .. Len(queue') : queue'[i].end <= tip
         /\ job' # None => job'.end <= tip
         /\ \A g \in groups' : \A bn \in g : bn <= tip
         /\ \A i \in 1 .. Len(rest') : Spans(rest'[i]) /\ rest'[i].end <= tip
         /\ batch' # None => Spans(batch') /\ batch'.end <= tip
         /\ \A t \in pool' : t.end <= tip
<1>1. /\ TypeOK /\ NonceInv /\ blocks \in L2
      /\ QueueOf(queue, Len(blocks))
      /\ \A g \in groups : Grouped(g, Len(blocks))
      /\ job \in Request \cup {None}
      /\ rest \in Seq(Batch)
      /\ batch \in Batch \cup {None}
      /\ pc = "recv" => batch = None
  BY DEF Inv, WorkInv, QueueOf, TypeOK, L2
<1>2. /\ inbox <= tip
      /\ \A i \in 1 .. Len(queue) : queue[i].end <= tip
      /\ job # None => job.end <= tip
      /\ \A g \in groups : \A bn \in g : bn <= tip
      /\ \A i \in 1 .. Len(rest) : Spans(rest[i]) /\ rest[i].end <= tip
      /\ batch # None => Spans(batch) /\ batch.end <= tip
      /\ \A t \in pool : t.end <= tip
  BY DEF EndsBy
<1>3. inbox' <= tip
  BY <1>2, TriesKeep
<1>4. ASSUME queue # <<>>
      PROVE  /\ Head(queue) \in Request /\ Sound(Head(queue), Len(blocks))
             /\ Head(queue).end <= tip
             /\ \A i \in 1 .. Len(Tail(queue)) : Tail(queue)[i].end <= tip
  <2>1. /\ Head(queue) \in Request /\ Sound(Head(queue), Len(blocks))
        /\ Head(queue) = queue[1] /\ 1 \in 1 .. Len(queue)
    BY <1>1, <1>4, QueueTail
  <2>2. /\ Len(Tail(queue)) = Len(queue) - 1 /\ Len(queue) \in Nat
        /\ \A i \in 1 .. Len(Tail(queue)) : Tail(queue)[i] = queue[i + 1]
    BY <1>1, <1>4, HeadTailProperties, LenProperties DEF QueueOf
  <2>3. \A i \in 1 .. Len(Tail(queue)) : i + 1 \in 1 .. Len(queue)
    BY <2>2
  <2> QED
    BY <1>2, <2>1, <2>2, <2>3
<1>5. ASSUME NEW r \in Request, r.end <= tip, StartResync(r)
      PROVE  /\ job' # None => job'.end <= tip
             /\ \A g \in groups' : \A bn \in g : bn <= tip
  <2>1. r.start \in Nat /\ r.end \in Nat
    BY RequestType
  <2>2. \A bn \in BlocksOf(r) : bn <= tip
    BY <1>5, <2>1 DEF BlocksOf
  <2> QED
    BY <1>5, <2>2, ResyncWithin
<1>6. CASE RecvBatch
  <2>1. /\ batch' = [start |-> Head(queue).start, end |-> Head(queue).end,
                     n |-> Head(queue).n, bns |-> BlocksOf(Head(queue))]
        /\ queue' = Tail(queue) /\ queue # <<>> /\ ~Head(queue).resync
        /\ UNCHANGED <<job, groups, rest, pool>>
    BY <1>6 DEF RecvBatch, l1Vars
  <2>2. /\ Head(queue).start \in Nat /\ Head(queue).end \in Nat
        /\ Head(queue).n = Head(queue).end - Head(queue).start + 1
        /\ Head(queue).start <= Head(queue).end
    BY <1>4, <2>1, RequestType DEF Sound
  <2>3. Spans(batch') /\ batch'.end <= tip
    BY <1>4, <2>1, <2>2 DEF Spans
  <2> QED
    BY <1>2, <1>3, <1>4, <2>1, <2>3
<1>7. CASE RecvResync
  <2>1. /\ StartResync(Head(queue)) /\ queue' = Tail(queue) /\ queue # <<>>
        /\ UNCHANGED <<rest, batch, pool>>
    BY <1>7 DEF RecvResync, batchVars, l1Vars
  <2> QED
    BY <1>2, <1>3, <1>4, <1>5, <2>1
<1>8. CASE NextGroup
  <2>1. PICK g \in groups : rest' = RequestsFrom(g) /\ groups' = groups \ {g}
    BY <1>8 DEF NextGroup
  <2>2. UNCHANGED <<queue, job, batch, pool>>
    BY <1>8 DEF NextGroup, batchVars, l1Vars
  <2>3. GroupOf(g)
    BY <1>1 DEF Grouped, GroupOf
  <2>4. Within(g, rest')
    BY <1>1, <2>1, <2>3, RequestsInOrder
  <2>5. \A i \in 1 .. Len(rest') : Spans(rest'[i]) /\ rest'[i].end <= tip
    BY <1>2, <2>4 DEF Within
  <2> QED
    BY <1>2, <1>3, <2>1, <2>2, <2>5
<1>9. CASE NextInGroup
  <2>1. /\ batch' = Head(rest) /\ rest' = Tail(rest) /\ rest # <<>>
        /\ UNCHANGED <<queue, job, groups, pool>>
    BY <1>9 DEF NextInGroup, l1Vars
  <2>2. /\ Head(rest) = rest[1]
        /\ Len(Tail(rest)) = Len(rest) - 1 /\ Len(rest) \in Nat \ {0}
        /\ \A i \in 1 .. Len(Tail(rest)) : Tail(rest)[i] = rest[i + 1]
    BY <1>1, <2>1, HeadTailProperties, LenProperties, EmptySeq
  <2>3. 1 \in 1 .. Len(rest)
        /\ \A i \in 1 .. Len(Tail(rest)) : i + 1 \in 1 .. Len(rest)
    BY <2>2
  <2> QED
    BY <1>2, <1>3, <2>1, <2>2, <2>3
<1>10. CASE EndResync
  <2>1. /\ UNCHANGED <<queue, rest, batch, pool>> /\ job # None
        /\ (job' = None /\ UNCHANGED groups) \/ StartResync(job)
    BY <1>10 DEF EndResync, batchVars, l1Vars
  <2> QED
    BY <1>1, <1>2, <1>3, <1>5, <2>1
<1>11. CASE EndsBatch
  <2>1. batch' = None /\ UNCHANGED <<jobVars, pool>>
    BY <1>11 DEF EndsBatch, Done, l1Vars
  <2> QED
    BY <1>2, <1>3, <2>1 DEF jobVars
<1>12. CASE Sent
  <2>1. UNCHANGED <<jobVars, batch>> /\ pc = "send"
    BY <1>12 DEF Sent
  <2>2. \A t \in Replaced : t \in pool \/ t = AtHand(FALSE)
    BY DEF Replaced
  <2>3. \A t \in pool' : t \in pool \/ t = AtHand(FALSE) \/ t = AtHand(TRUE)
    BY <1>12, <2>2 DEF Sent
  <2>4. batch # None /\ AtHand(FALSE).end = batch.end
        /\ AtHand(TRUE).end = batch.end
    BY <1>1, <2>1 DEF AtHand, TypeOK
  <2> QED
    BY <1>2, <1>3, <2>1, <2>3, <2>4 DEF jobVars
<1>13. CASE UNCHANGED <<jobVars, batch, pool>>
  BY <1>2, <1>3, <1>13 DEF jobVars
<1> QED
  BY <1>1, <1>6, <1>7, <1>8, <1>9, <1>10, <1>11, <1>12, <1>13, TriesEffects

LEMMA EndsStep ==
  ASSUME GatewayInv, [GatewayNext]_gatewayVars, GatewayTypeOK'
  PROVE  EndsBy(ResyncTarget)'
<1> DEFINE tip == ResyncTarget
           tip2 == ResyncTarget'
<1>1. /\ tip \in Nat /\ Len(blocks) \in Nat /\ inbox \in Nat
      /\ tip <= Len(blocks)
      /\ open # None => open \in Nat /\ tip = open - 1
      /\ open = None => tip = Len(blocks)
      /\ TypeOK /\ Inv /\ UpwardInv /\ EndsBy(tip) /\ GatewayTypeOK
  BY TargetType DEF GatewayInv, OpenInv, Inv
<1>2. /\ Len(blocks') \in Nat /\ Len(blocks) <= Len(blocks')
      /\ ~Seal /\ ~PeerBlock => UNCHANGED blocks
      /\ Seal \/ PeerBlock => Len(blocks') = Len(blocks) + 1
  BY BlocksGrow
<1>3. /\ tip2 \in Nat
      /\ open' # None => open' \in Nat /\ tip2 = open' - 1
      /\ open' = None => tip2 = Len(blocks')
  <2>1. open' # None => open' \in 1 .. Len(blocks')
    BY DEF GatewayTypeOK
  <2>2. tip2 = IF open' = None THEN Len(blocks') ELSE open' - 1
    BY DEF ResyncTarget
  <2> HIDE DEF tip2
  <2> QED
    BY <1>2, <2>1, <2>2
<1> HIDE DEF tip, tip2
(* The end of the open batch's predecessors only moves on.                 *)
<1>4. tip <= tip2
  <2>1. open' \in {open, None} \/ (open = None /\ open' = Len(blocks) + 1)
    BY <1>1, OpenMoves
  <2> QED
    BY <1>1, <1>2, <1>3, <2>1
<1>5. EndsBy(tip2)
  BY <1>1, <1>3, <1>4, EndsGrow
<1>6. ASSUME UNCHANGED <<inbox, queue, job, groups, rest, batch, pool>>
      PROVE  EndsBy(ResyncTarget)'
  BY <1>5, <1>6 DEF EndsBy, tip2
<1>7. CASE Seal \/ PeerBlock \/ TurnStep \/ UNCHANGED gatewayVars
  BY <1>6, <1>7 DEF Seal, PeerBlock, OtherBlock, TurnStep, gatewayVars, vars,
     proposerVars, jobVars, batchVars, l1Vars
<1>8. ASSUME NEW r \in Request, r.end <= tip2, queue' = Append(queue, r),
             UNCHANGED <<inbox, job, groups, rest, batch, pool>>
      PROVE  EndsBy(ResyncTarget)'
  BY <1>1, <1>5, <1>8, EndsEnqueued DEF EndsBy, tip2
<1>9. CASE HandOver
  <2> DEFINE r == [resync |-> FALSE, start |-> open, end |-> Len(blocks),
                   n |-> Len(blocks) - open + 1]
  <2>1. /\ queue' = Append(queue, r) /\ open' = None /\ open # None
        /\ UNCHANGED <<inbox, job, groups, rest, batch, pool, blocks>>
    BY <1>9 DEF HandOver, batchVars, l1Vars
  <2>2. open \in Nat /\ Len(blocks) - open + 1 \in Nat /\ tip2 = Len(blocks)
    BY <1>1, <1>3, <2>1 DEF GatewayTypeOK
  <2>3. r \in Request /\ r.end <= tip2
    BY <1>1, <2>2 DEF Request
  <2> HIDE DEF r
  <2> QED
    BY <1>8, <2>1, <2>3
<1>10. CASE CheckCanPropose
  <2>1. /\ UNCHANGED <<inbox, job, groups, rest, batch, pool, blocks, open>>
        /\ \/ UNCHANGED queue
           \/ \E origin \in 0 .. inbox : CheckResync(origin)
    BY <1>1, <1>10 DEF CheckCanPropose, batchVars, l1Vars
  <2>2. CASE UNCHANGED queue
    BY <1>6, <2>1, <2>2
  <2>3. ASSUME NEW origin \in 0 .. inbox, CheckResync(origin),
               queue' # queue
        PROVE  EndsBy(ResyncTarget)'
    <3> DEFINE r == [resync |-> TRUE, start |-> origin + 1,
                     end |-> ResyncTarget, n |-> 0]
    <3>1. queue' = Append(queue, r)
      BY <2>3 DEF CheckResync
    <3>2. tip2 = ResyncTarget
      BY <1>1, <1>3, <2>1 DEF tip
    <3>3. r \in Request /\ r.end <= tip2
      BY <1>1, <3>2 DEF Request, tip
    <3> HIDE DEF r
    <3> QED
      BY <1>8, <2>1, <3>1, <3>3
  <2> QED
    BY <2>1, <2>2, <2>3
<1>11. CASE Tries
  BY <1>1, <1>3, <1>5, <1>11, EndsTries DEF EndsBy, tip2
<1>12. CASE RefusedOnceMore \/ ProcessFault
  <2>1. Restart
    BY <1>12, RestartsIf DEF Restarts
  <2>2. /\ batch' = None /\ rest' = <<>> /\ groups' = {}
        /\ queue' = <<>> /\ job' = None /\ UNCHANGED inbox
        /\ \A t \in pool' : \E u \in pool : t.end = u.end
    BY <1>1, <2>1, RestartPool
  <2>3. \A t \in pool' : t.end <= tip2
    BY <1>5, <2>2 DEF EndsBy
  <2>4. Len(queue') = 0 /\ Len(rest') = 0
    BY <2>2
  <2> QED
    BY <1>5, <2>2, <2>3, <2>4 DEF EndsBy, tip2
<1>13. CASE Lands \/ Reverts
  <2>1. /\ \E t \in pool : inbox' \in {inbox, t.end}
        /\ \A t \in pool' : t \in pool
        /\ UNCHANGED <<queue, job, groups, rest, batch>>
    BY <1>13 DEF Lands, Reverts, Landing, Include, jobVars, batchVars
  <2>2. inbox' <= tip2
    BY <1>5, <2>1 DEF EndsBy
  <2> QED
    BY <1>5, <2>1, <2>2 DEF EndsBy, tip2
<1>14. CASE PeerLands
  <2>1. /\ inbox' \in inbox + 1 .. Len(blocks)
        /\ open # None => inbox' < open
        /\ UNCHANGED <<queue, job, groups, rest, batch, pool>>
    BY <1>14 DEF PeerLands, PeerProposes, jobVars, batchVars
  <2>2. inbox' <= tip2
    BY <1>1, <1>3, <1>4, <2>1
  <2> QED
    BY <1>5, <2>1, <2>2 DEF EndsBy, tip2
<1> QED
  BY <1>7, <1>9, <1>10, <1>11, <1>12, <1>13, <1>14 DEF GatewayNext, Tries

LEMMA GatewayInvInit ==
  ASSUME GatewayInit
  PROVE  GatewayInv
<1>1. /\ Inv /\ open = None /\ can_propose = TRUE /\ turn = "current"
      /\ faults = 0
  BY InvInit DEF GatewayInit
<1>2. /\ queue = <<>> /\ job = None /\ groups = {} /\ rest = <<>>
      /\ batch = None /\ pc = "recv" /\ last_used_nonce = None
      /\ l1_reorged = FALSE /\ blocks = <<>>
      /\ my_turn = TRUE /\ inbox = 0 /\ pool = {}
  BY DEF GatewayInit, Init
<1>3. GatewayTypeOK
  <2>1. my_turn = (turn \in {"current", "clearing", "handed", "disabled"})
    BY <1>1, <1>2
  <2>2. turn \in Turns /\ faults \in 0 .. MaxFaults
    BY <1>1, FaultAssumption DEF Turns
  <2> QED
    BY <1>1, <1>2, <2>1, <2>2 DEF GatewayTypeOK
<1>4. ResyncTarget = 0
  BY <1>1, <1>2 DEF ResyncTarget
<1>5. EndsBy(0)
  BY <1>2 DEF EndsBy
<1>6. OpenInv
  BY <1>1, <1>2 DEF OpenInv, UpwardInv, AnchorsGrow
<1> QED
  BY <1>1, <1>3, <1>4, <1>5, <1>6 DEF GatewayInv

LEMMA GatewayInvStep ==
  ASSUME GatewayInv, [GatewayNext]_gatewayVars
  PROVE  GatewayInv'
<1>1. Inv /\ (Inv' \/ [Next]_vars
              \/ \E r \in Request : Sound(r, Len(blocks)) /\ Enqueued(r))
  BY GatewayEffects DEF GatewayInv
<1>2. Inv'
  BY <1>1, InvStep, EnqueueKeeps
<1>3. GatewayTypeOK'
  BY TypesStep
<1> QED
  BY <1>2, <1>3, OpenStep, EndsStep DEF GatewayInv

THEOREM GatewayInvariant == GatewaySpec => []GatewayInv
BY GatewayInvInit, GatewayInvStep, PTL DEF GatewaySpec

(* The blocks handed over to the proposer by this sequencer, which may     *)
(* give it a batch and a Resync of the same blocks, are not forgotten      *)
(* either.                                                                 *)
THEOREM GatewayForgetsNothing == GatewaySpec => []NoSilentDrop
<1>1. GatewayInv => Inv
  BY DEF GatewayInv
<1>2. GatewaySpec => []Inv
  BY <1>1, GatewayInvariant, PTL
<1> QED
  BY <1>2, KeptIsNoDrop, PTL

-----------------------------------------------------------------------------
(* The gateway keeps the promise of module Rollup, but for its fairness:   *)
(* every step preconfirms the next block, lands blocks on L1 in their      *)
(* order and none that is not preconfirmed, or does neither.  What a       *)
(* crashed process left in the mempool may land too; EndsBy is why it      *)
(* names blocks that exist.                                                *)
PromiseStep == [Promise!Preconfirm \/ Promise!Land]_<<Len(blocks), inbox>>

LEMMA LandsInOrder ==
  ASSUME GatewayInv, [GatewayNext]_gatewayVars
  PROVE  PromiseStep
<1> USE DEF PromiseStep, Promise!Preconfirm, Promise!Land
<1>1. /\ Len(blocks) \in Nat /\ inbox \in Nat /\ ResyncTarget \in Nat
      /\ ResyncTarget <= Len(blocks)
      /\ TypeOK
  BY TargetType DEF GatewayInv, Inv
<1>2. /\ ~Seal /\ ~PeerBlock => UNCHANGED blocks
      /\ Seal \/ PeerBlock => Len(blocks') = Len(blocks) + 1
  BY BlocksGrow
<1>3. CASE Seal \/ PeerBlock
  <2>1. UNCHANGED inbox
    BY <1>3 DEF Seal, PeerBlock, OtherBlock, l1Vars
  <2> QED
    BY <1>2, <1>3, <2>1
<1>4. ASSUME ~Seal, ~PeerBlock, UNCHANGED inbox
      PROVE  PromiseStep
  BY <1>2, <1>4
<1>5. CASE Lands \/ Reverts
  <2>1. ~Seal /\ ~PeerBlock => UNCHANGED blocks
    BY <1>2
  <2>2. UNCHANGED blocks
    BY <1>5 DEF Lands, Reverts, Landing, Include
  <2>3. PICK t \in pool : inbox' = inbox \/ (Accepts(t) /\ inbox' = t.end)
    BY <1>5 DEF Lands, Reverts, Landing, Include
  <2>4. CASE inbox' = inbox
    BY <2>2, <2>4
  <2>5. CASE Accepts(t) /\ inbox' = t.end
    <3>1. t.n \in Nat /\ t.end \in Nat /\ t.end <= ResyncTarget
      BY <1>1, RequestType DEF GatewayInv, EndsBy, TypeOK
    <3>2. inbox' \in inbox + 1 .. Len(blocks)
      BY <1>1, <2>5, <3>1 DEF Accepts
    <3> QED
      BY <2>2, <3>2
  <2> QED
    BY <2>3, <2>4, <2>5
<1>6. CASE PeerLands
  BY <1>6 DEF PeerLands, PeerProposes
<1>7. HandOver \/ CheckCanPropose \/ TurnStep \/ UNCHANGED gatewayVars
        => UNCHANGED <<inbox, blocks>>
  BY DEF HandOver, CheckCanPropose, TurnStep, gatewayVars, vars, l1Vars
<1>8. Tries => UNCHANGED <<inbox, blocks>>
  BY TriesKeep
<1>9. RefusedOnceMore \/ ProcessFault => UNCHANGED <<inbox, blocks>>
  BY <1>1, RestartsIf, RestartPool DEF Restarts
<1> QED
  BY <1>3, <1>5, <1>6, <1>7, <1>8, <1>9 DEF GatewayNext, Tries

THEOREM GatewayKeepsOrder == GatewaySpec => Promise!Spec
<1>1. GatewayInit => Promise!Init
  <2>1. GatewayInit => blocks = <<>> /\ inbox = 0
    BY DEF GatewayInit, Init
  <2> QED
    BY <2>1 DEF Promise!Init
<1>2. GatewayInv /\ [GatewayNext]_gatewayVars
        => [Promise!Preconfirm \/ Promise!Land]_<<Len(blocks), inbox>>
  BY LandsInOrder DEF PromiseStep
<1> QED
  BY <1>1, <1>2, GatewayInvariant, PTL DEF GatewaySpec, Promise!Spec

-----------------------------------------------------------------------------
(* As long as nothing goes wrong.  What may still be included is the batch *)
(* at hand, with the nonce it was sent with, and L1 accepts it; a nonce    *)
(* that is used up means that the batch has landed.                        *)
SameBatch(t, b) == t.start = b.start /\ t.end = b.end /\ t.n = b.n

CalmL1 ==
  /\ \A i \in 1 .. Len(included) : included[i].ok
  /\ \A t \in pool : /\ batch # None /\ SameBatch(t, batch) /\ Accepts(t)
                     /\ last_used_nonce = nonce
  /\ batch # None /\ last_used_nonce # None
       => last_used_nonce = nonce \/ batch.end <= inbox

(* A turn begins with the flag down and ends with the proposer done.       *)
CalmTurn ==
  /\ turn # "disabled"
  /\ turn = "next" => ~can_propose
  /\ turn = "off" => Idle /\ queue = <<>>

(* While the flag is down the proposer has only batches of its own, one    *)
(* after the other up to the open one.                                     *)
OwnOnly(tip) ==
  /\ job = None /\ groups = {} /\ rest = <<>>
  /\ \A i \in 1 .. Len(queue) : ~queue[i].resync
  /\ \A j \in 1 .. Len(queue) :
       \A i \in 1 .. j - 1 : queue[i].end < queue[j].start
  /\ queue # <<>> => queue[Len(queue)].end = tip
  /\ batch # None => /\ \A i \in 1 .. Len(queue) : batch.end < queue[i].start
                     /\ queue = <<>> => batch.end = tip
  /\ PeersActive(turn) => batch = None /\ queue = <<>>

(* Once it is up, something that the proposer will come to begins behind   *)
(* what has landed, ends at the open batch, and is met by nothing before   *)
(* it: what precedes it and lands ends before it begins, or where it ends. *)
Passes(b, s, tip) == b.n > 0 => b.end < s \/ b.end = tip
RequestPasses(r, s, tip) == IF r.resync THEN r.end < s ELSE Passes(r, s, tip)

InBatch(s, tip) == batch # None /\ batch.start = s /\ batch.end = tip
BatchPasses(s, tip) == batch # None => Passes(batch, s, tip)
InRest(s, tip) ==
  \E i \in 1 .. Len(rest) :
    /\ rest[i].start = s /\ rest[i].end = tip
    /\ \A j \in 1 .. i - 1 : Passes(rest[j], s, tip)
RestPasses(s, tip) == \A j \in 1 .. Len(rest) : Passes(rest[j], s, tip)
InGroups(s, tip) ==
  \E g \in groups :
    /\ tip \in g /\ \A bn \in g : s <= bn
    /\ \A h \in groups \ {g} : \A bn \in h : bn < s
GroupsPass(s) == \A g \in groups : \A bn \in g : bn < s
JobPasses(s) == job # None => job.end < s
InQueue(s, tip) ==
  \E i \in 1 .. Len(queue) :
    /\ queue[i].start = s /\ queue[i].end = tip
    /\ \A j \in 1 .. i - 1 : RequestPasses(queue[j], s, tip)

Reaches(s, tip) ==
  \/ InBatch(s, tip)
  \/ BatchPasses(s, tip) /\ InRest(s, tip)
  \/ BatchPasses(s, tip) /\ RestPasses(s, tip) /\ InGroups(s, tip)
  \/ /\ BatchPasses(s, tip) /\ RestPasses(s, tip) /\ GroupsPass(s)
     /\ JobPasses(s) /\ InQueue(s, tip)

Reached(tip) == inbox < tip => \E s \in inbox + 1 .. tip : Reaches(s, tip)

CalmInv ==
  faults = 0 =>
    /\ CalmL1 /\ CalmTurn
    /\ ~can_propose => OwnOnly(ResyncTarget)
    /\ can_propose /\ turn \in {"current", "clearing"} => Reached(ResyncTarget)

(* The steps that are no fault.                                            *)
CalmCheck ==
  /\ can_propose # MayPropose(turn) /\ can_propose' = MayPropose(turn)
  /\ \/ ~can_propose' /\ UNCHANGED queue
     \/ can_propose' /\ CheckResync(inbox)
  /\ UNCHANGED <<job, groups, rest, batchVars, l1Vars, blocks, open, turn>>

CalmTurnStep ==
  /\ turn' = NextPhase[turn] /\ LongEnough
  /\ my_turn' = (turn' \in {"current", "clearing", "handed", "disabled"})
  /\ UNCHANGED <<jobVars, batchVars, inbox, nonce, pool, included, blocks, open,
                 can_propose>>

LEMMA CalmSteps ==
  ASSUME GatewayInv, [GatewayNext]_gatewayVars, faults' = 0
  PROVE  /\ faults = 0
         /\ \/ Seal \/ HandOver \/ CalmCheck \/ Propose \/ RefusedOnceMore
            \/ Lands \/ PeerLands \/ PeerBlock \/ CalmTurnStep
            \/ UNCHANGED gatewayVars
<1>1. faults \in Nat
  BY FaultAssumption DEF GatewayInv, GatewayTypeOK
<1>2. ~Fault
  BY <1>1 DEF Fault
<1>3. ~ProposerFault /\ ~ProcessFault /\ ~Reverts
  BY <1>2 DEF ProposerFault, ProcessFault, Reverts
<1>4. CheckCanPropose => CalmCheck /\ UNCHANGED faults
  BY <1>2 DEF CheckCanPropose, CalmCheck
<1>5. TurnStep => CalmTurnStep /\ UNCHANGED faults
  BY <1>2 DEF TurnStep, CalmTurnStep, proposerVars, sequencerVars
<1>6. Seal \/ HandOver \/ Propose \/ RefusedOnceMore \/ Lands \/ PeerLands
        \/ PeerBlock \/ UNCHANGED gatewayVars => UNCHANGED faults
  BY DEF Seal, HandOver, Propose, RefusedOnceMore, Lands, PeerLands, PeerBlock,
     gatewayVars
<1> QED
  BY <1>3, <1>4, <1>5, <1>6 DEF GatewayNext

-----------------------------------------------------------------------------
(* What may be included.                                                   *)
LEMMA EmptyPool ==
  ASSUME GatewayInv, CalmL1,
         \/ batch = None
         \/ last_used_nonce # nonce
         \/ ~my_turn
         \/ ~Accepts(batch)
  PROVE  pool = {}
<1>1. ASSUME NEW t \in pool
      PROVE  FALSE
  <2>1. batch # None /\ SameBatch(t, batch) /\ Accepts(t)
        /\ last_used_nonce = nonce
    BY DEF CalmL1
  <2>2. Accepts(batch) /\ my_turn
    BY <2>1 DEF SameBatch, Accepts
  <2> QED
    BY <2>1, <2>2
<1> QED
  BY <1>1

LEMMA CalmTypes ==
  ASSUME GatewayInv
  PROVE  /\ nonce \in Nat /\ inbox \in Nat
         /\ last_used_nonce \in Nat \cup {None}
         /\ pc \in {"send", "wait"} => last_used_nonce \in Nat
         /\ last_used_nonce # None => last_used_nonce <= nonce
         /\ \A t \in pool : t \in Tx /\ t.nonce = nonce
         /\ \A i \in 1 .. Len(included) :
              included[i].tx # None => included[i].tx.nonce < nonce
         /\ DOMAIN included = 1 .. Len(included) /\ Len(included) \in Nat
         /\ included \in Seq(Inclusion)
         /\ pc # "recv" => batch \in Batch
         /\ pc = "recv" => batch = None /\ last_used_nonce = None
         /\ pool \subseteq Tx
<1>1. TypeOK /\ NonceInv /\ GatewayTypeOK
  BY DEF GatewayInv, Inv
<1>2. included \in Seq(Inclusion)
  BY <1>1 DEF TypeOK, Inclusion
<1>3. DOMAIN included = 1 .. Len(included) /\ Len(included) \in Nat
  BY <1>2, LenProperties
<1> QED
  BY <1>1, <1>2, <1>3 DEF TypeOK, NonceInv, GatewayTypeOK

LEMMA LandedOnce ==
  ASSUME GatewayInv, CalmL1, pc = "wait", NEW ok, Landed(ok)
  PROVE  ok = TRUE /\ pool = {}
<1>1. PICK i \in 1 .. Len(included) :
        included[i].tx = AtHand(TRUE) /\ included[i].ok = ok
  BY CalmTypes DEF Landed
<1>2. /\ AtHand(TRUE) \in Tx /\ AtHand(TRUE).nonce = last_used_nonce
      /\ last_used_nonce \in Nat
  BY AtHandType DEF GatewayInv, Inv
<1>3. last_used_nonce < nonce
  BY <1>1, <1>2, CalmTypes, NoneIsNot
<1>4. last_used_nonce # nonce
  BY <1>2, <1>3, CalmTypes
<1>5. pool = {}
  BY <1>4, EmptyPool
<1>6. included[i].ok
  BY DEF CalmL1
<1>7. included[i].ok \in BOOLEAN
  <2>1. included \in Seq(Inclusion)
    BY CalmTypes
  <2>2. included[i] \in Inclusion
    BY <2>1, ElementOfSeq
  <2> QED
    BY <2>2 DEF Inclusion
<1> QED
  BY <1>1, <1>5, <1>6, <1>7

LEMMA CalmL1Tries ==
  ASSUME GatewayInv, CalmL1, Propose
  PROVE  CalmL1'
<1>1. /\ UNCHANGED <<my_turn, inbox, nonce>>
      /\ \A i \in 1 .. Len(included) : included[i].ok
      /\ \A t \in pool : /\ batch # None /\ SameBatch(t, batch) /\ Accepts(t)
                         /\ last_used_nonce = nonce
      /\ batch # None /\ last_used_nonce # None
           => last_used_nonce = nonce \/ batch.end <= inbox
      /\ pc = "recv" => batch = None /\ last_used_nonce = None
  BY TriesKeep, CalmTypes DEF Tries, CalmL1
<1>2. ASSUME UNCHANGED <<included, pool, batch, last_used_nonce>>
      PROVE  CalmL1'
  BY <1>1, <1>2 DEF CalmL1, Accepts
<1>3. ASSUME UNCHANGED <<included, pool>>, pool = {},
             batch' = None \/ last_used_nonce' = None
      PROVE  CalmL1'
  BY <1>1, <1>3 DEF CalmL1
<1>4. CASE RecvBatch \/ NextInGroup
  <2>1. pc = "recv" /\ UNCHANGED <<included, pool, last_used_nonce>>
    BY <1>4 DEF RecvBatch, NextInGroup, Idle, l1Vars
  <2>2. pool = {}
    BY <1>1, <2>1, EmptyPool
  <2> QED
    BY <1>1, <1>3, <2>1, <2>2
<1>5. CASE RecvResync \/ NextGroup \/ EndResync \/ SendAgain \/ NotIncluded
           \/ RpcError
  <2>1. UNCHANGED <<included, pool, batch, last_used_nonce>>
    BY <1>5 DEF RecvResync, NextGroup, EndResync, SendAgain, NotIncluded,
       RpcError, Again, Fails, batchVars, l1Vars
  <2> QED
    BY <1>2, <2>1
<1>6. CASE GetNonce
  <2>1. UNCHANGED <<included, pool>>
    BY <1>6 DEF GetNonce, l1Vars
  <2>2. CASE NoncePassed /\ GiveUp
    <3>1. last_used_nonce \in Nat /\ nonce > last_used_nonce
      BY <2>2, CalmTypes DEF NoncePassed, AccountNonce
    <3>2. pool = {}
      BY <3>1, CalmTypes, EmptyPool
    <3>3. batch' = None
      BY <2>2 DEF GiveUp, Done
    <3> QED
      BY <1>3, <2>1, <3>2, <3>3
  <2>3. CASE last_used_nonce' = nonce /\ UNCHANGED batch
    BY <1>1, <2>1, <2>3 DEF CalmL1, Accepts
  <2> QED
    BY <1>6, <2>2, <2>3 DEF GetNonce, AccountNonce
<1>7. CASE GasEstimationGivesUp
  <2>1. UNCHANGED <<included, pool>> /\ batch' = None
    BY <1>7 DEF GasEstimationGivesUp, GiveUp, Done, l1Vars
  <2>2. ~Accepts(batch)
    <3>1. batch.end \in Nat /\ batch.n \in Nat /\ inbox \in Nat
      BY <1>7, CalmTypes, RequestType DEF GasEstimationGivesUp
    <3> QED
      BY <1>7, <3>1 DEF GasEstimationGivesUp, AlreadyAhead, Accepts
  <2>3. pool = {}
    BY <2>2, EmptyPool
  <2> QED
    BY <1>3, <2>1, <2>3
<1>8. CASE Sent
  <2>1. /\ UNCHANGED <<included, batch, last_used_nonce>>
        /\ pc = "send" /\ Accepts(batch) /\ nonce <= last_used_nonce
    BY <1>8 DEF Sent
  <2>2. last_used_nonce = nonce /\ batch # None
    BY <2>1, CalmTypes, NoneIsNot
  <2>3. \A t \in Replaced : t \in pool \/ t = AtHand(FALSE)
    BY DEF Replaced
  <2>4. \A t \in pool' : t \in pool \/ t = AtHand(FALSE) \/ t = AtHand(TRUE)
    BY <1>8, <2>3 DEF Sent
  <2>5. \A last \in BOOLEAN : SameBatch(AtHand(last), batch)
    BY DEF AtHand, SameBatch
  <2>6. \A t : SameBatch(t, batch) => Accepts(t)
    BY <2>1 DEF SameBatch, Accepts
  <2>7. \A t \in pool' : SameBatch(t, batch) /\ Accepts(t)
    BY <1>1, <2>4, <2>5, <2>6
  <2> QED
    BY <1>1, <2>1, <2>2, <2>7 DEF CalmL1, Accepts
<1>9. CASE Proposed
  <2>1. UNCHANGED <<included, pool>> /\ batch' = None /\ pc = "wait"
        /\ Landed(TRUE)
    BY <1>9 DEF Proposed, Done, l1Vars
  <2> QED
    BY <1>3, <2>1, LandedOnce
<1>10. CASE Reverted
  <2>1. pc = "wait" /\ Landed(FALSE)
    BY <1>10 DEF Reverted
  <2> QED
    BY <2>1, LandedOnce
<1>11. CASE ReorgCheckPasses
  <2>1. PICK k \in DOMAIN included :
          included' = SubSeq(included, k + 1, Len(included))
    BY <1>11 DEF ReorgCheckPasses
  <2>2. UNCHANGED <<batch, last_used_nonce, pool>>
    BY <1>11 DEF ReorgCheckPasses, batchVars
  <2>3. HistoryOf(included, inbox) /\ k \in 1 .. Len(included)
    BY CalmTypes
    DEF HistoryOf, GatewayInv, Inv, HistoryInv, TypeOK
  <2>4. \A i \in 1 .. Len(included') :
          \E j \in 1 .. Len(included) : included'[i] = included[j]
    BY <2>1, <2>3, HistorySuffix
  <2>5. \A i \in 1 .. Len(included') : included'[i].ok
    BY <1>1, <2>4
  <2> QED
    BY <1>1, <2>2, <2>5 DEF CalmL1, Accepts
<1> QED
  BY <1>4, <1>5, <1>6, <1>7, <1>8, <1>9, <1>10, <1>11 DEF Propose

(* What lands in our turn is the batch at hand.                            *)
LEMMA LandsIs ==
  ASSUME GatewayInv, CalmL1, Lands
  PROVE  /\ \E e \in Inclusion : e.ok /\ included' = Append(included, e)
         /\ pool' = {}
         /\ batch # None /\ batch.n > 0 /\ inbox' = batch.end
         /\ inbox < batch.end /\ batch.end \in Nat
         /\ UNCHANGED <<batch, last_used_nonce, queue, job, groups, rest, turn,
                        can_propose, open, blocks>>
<1>1. PICK t \in pool, ok \in BOOLEAN :
        /\ ok => Accepts(t)
        /\ inbox' = IF ok THEN t.end ELSE inbox
        /\ included' = Append(included, [tx |-> t, ok |-> ok, before |-> inbox])
  BY DEF Lands, Landing, Include
<1>2. /\ pool' = {u \in pool : u.nonce > nonce}
      /\ UNCHANGED <<batch, last_used_nonce, queue, job, groups, rest, turn,
                     can_propose, open, blocks>>
      /\ Last(included').ok = TRUE
  BY DEF Lands, Landing, Include, batchVars, jobVars, sequencerVars
<1> DEFINE e == [tx |-> t, ok |-> ok, before |-> inbox]
<1>3. e \in Inclusion /\ e.ok = ok
  BY CalmTypes DEF Inclusion
<1>4. included' = Append(included, e)
  BY <1>1
<1> HIDE DEF e
<1>5. ok = TRUE
  <2>1. /\ included' \in Seq(Inclusion)
        /\ Len(included') = Len(included) + 1 /\ Len(included) \in Nat
        /\ included'[Len(included) + 1] = e
    BY <1>3, <1>4, CalmTypes, AppendIs
  <2>2. included' # <<>>
    BY <2>1
  <2>3. Last(included') = e
    BY <2>1, <2>2, LastOf
  <2> QED
    BY <1>2, <1>3, <2>3
<1>6. pool' = {}
  BY <1>2, CalmTypes
<1>7. /\ batch # None /\ t.end = batch.end /\ t.n = batch.n
      /\ t.n > 0 /\ inbox + t.n = t.end /\ inbox' = t.end
      /\ t.end \in Nat /\ t.n \in Nat /\ inbox \in Nat
  BY <1>1, <1>5, CalmTypes, RequestType DEF CalmL1, SameBatch, Accepts
<1>8. \E x \in Inclusion : x.ok /\ included' = Append(included, x)
  BY <1>3, <1>4, <1>5
<1>9. batch # None /\ batch.n > 0 /\ inbox' = batch.end
      /\ inbox < batch.end /\ batch.end \in Nat
  BY <1>7
<1> QED
  BY <1>2, <1>6, <1>8, <1>9

LEMMA CalmL1Step ==
  ASSUME GatewayInv, [GatewayNext]_gatewayVars, faults' = 0, CalmL1, CalmTurn
  PROVE  CalmL1'
<1>1. /\ \A i \in 1 .. Len(included) : included[i].ok
      /\ \A t \in pool : /\ batch # None /\ SameBatch(t, batch) /\ Accepts(t)
                         /\ last_used_nonce = nonce
      /\ batch # None /\ last_used_nonce # None
           => last_used_nonce = nonce \/ batch.end <= inbox
  BY DEF CalmL1
<1>2. CASE Seal \/ HandOver \/ CalmCheck \/ PeerBlock \/ UNCHANGED gatewayVars
  <2>1. UNCHANGED <<included, pool, batch, last_used_nonce, my_turn, inbox,
                    nonce>>
    BY <1>2 DEF Seal, HandOver, CalmCheck, PeerBlock, OtherBlock, gatewayVars,
       vars, proposerVars, batchVars, l1Vars
  <2> QED
    BY <1>1, <2>1 DEF CalmL1, Accepts
<1>3. CASE Propose
  BY <1>3, CalmL1Tries
<1>4. CASE RefusedOnceMore
  <2>1. Restart
    BY <1>4, RestartsIf DEF Restarts
  <2>2. pool = {}
    <3>1. Refused => ~Accepts(batch)
      BY DEF Refused
    <3>2. ~(pc = "wait" /\ Landed(FALSE))
      BY LandedOnce
    <3> QED
      BY <1>4, <3>1, <3>2, EmptyPool DEF RefusedOnceMore
  <2>3. /\ batch' = None
        /\ \A t \in pool' : \E u \in pool : t.end = u.end
        /\ \A i \in 1 .. Len(included') :
             i \in 1 .. Len(included) /\ included'[i].ok = included[i].ok
    BY <2>1, RestartPool DEF GatewayInv, Inv
  <2>4. pool' = {}
    BY <2>2, <2>3
  <2> QED
    BY <1>1, <2>3, <2>4 DEF CalmL1
<1>5. ASSUME NEW e \in Inclusion, e.ok, included' = Append(included, e)
      PROVE  \A i \in 1 .. Len(included') : included'[i].ok
  <2>1. included \in Seq(Inclusion)
    BY CalmTypes
  <2>2. /\ included'[Len(included) + 1] = e
        /\ \A i \in 1 .. Len(included) : included'[i] = included[i]
        /\ \A i \in 1 .. Len(included') :
             i \in 1 .. Len(included) \/ i = Len(included) + 1
    BY <1>5, <2>1, AppendIs
  <2> QED
    BY <1>1, <1>5, <2>2
<1>6. CASE Lands
  <2>1. PICK e \in Inclusion : e.ok /\ included' = Append(included, e)
    BY <1>6, LandsIs
  <2>2. \A i \in 1 .. Len(included') : included'[i].ok
    BY <1>5, <2>1
  <2>3. /\ pool' = {} /\ inbox' = batch.end /\ batch.end \in Nat
        /\ UNCHANGED <<batch, last_used_nonce>>
    BY <1>6, LandsIs
  <2>4. batch.end <= inbox'
    BY <2>3
  <2> QED
    BY <2>2, <2>3, <2>4 DEF CalmL1
<1>7. CASE PeerLands
  <2> DEFINE e == [tx |-> None, ok |-> TRUE, before |-> inbox]
  <2>1. /\ ~my_turn /\ inbox' \in inbox + 1 .. Len(blocks)
        /\ included' = Append(included, e)
        /\ UNCHANGED <<batch, last_used_nonce, nonce, pool>>
    BY <1>7 DEF PeerLands, PeerProposes, batchVars
  <2>2. e \in Inclusion /\ e.ok
    BY CalmTypes DEF Inclusion
  <2> HIDE DEF e
  <2>3. \A i \in 1 .. Len(included') : included'[i].ok
    BY <1>5, <2>1, <2>2
  <2>4. pool = {}
    BY <2>1, EmptyPool
  <2>5. batch # None /\ batch.end <= inbox => batch.end <= inbox'
    <3>1. batch # None => batch.end \in Nat
      BY RequestType DEF GatewayInv, Inv, TypeOK
    <3>2. Len(blocks) \in Nat /\ inbox \in Nat
      BY TargetType DEF GatewayInv
    <3> QED
      BY <2>1, <3>1, <3>2
  <2> QED
    BY <1>1, <2>1, <2>3, <2>4, <2>5 DEF CalmL1
<1>8. CASE CalmTurnStep
  <2>1. /\ turn' = NextPhase[turn]
        /\ turn = "handed" => Idle
        /\ my_turn' = (turn' \in {"current", "clearing", "handed", "disabled"})
        /\ UNCHANGED <<included, pool, batch, last_used_nonce, inbox, nonce>>
    BY <1>8 DEF CalmTurnStep, LongEnough, batchVars
  <2>2. ASSUME NEW t \in pool
        PROVE  my_turn'
    <3>1. batch # None /\ my_turn
      BY <1>1 DEF Accepts
    <3>2. turn \in {"current", "clearing", "handed", "disabled"}
      BY <3>1 DEF GatewayInv, GatewayTypeOK
    <3>3. turn # "handed"
      BY <2>1, <3>1, CalmTypes DEF Idle
    <3>4. turn' \in {"current", "clearing", "handed"}
      BY <2>1, <3>2, <3>3 DEF NextPhase, Turns
    <3> QED
      BY <2>1, <3>4
  <2> QED
    BY <1>1, <2>1, <2>2 DEF CalmL1, Accepts
<1> QED
  BY <1>2, <1>3, <1>4, <1>6, <1>7, <1>8, CalmSteps

-----------------------------------------------------------------------------
(* The turns.                                                              *)
LEMMA IdleTries ==
  ASSUME GatewayInv, Propose, Idle, queue = <<>>
  PROVE  Idle' /\ queue' = <<>>
<1>1. pc = "recv" /\ job = None /\ groups = {} /\ rest = <<>>
  BY DEF Idle
<1>2. ~Sent /\ ~GetNonce /\ ~GasEstimationGivesUp /\ ~SendAgain /\ ~NotIncluded
      /\ ~Proposed /\ ~Reverted /\ ~Refused
  BY <1>1 DEF Sent, GetNonce, GasEstimationGivesUp, SendAgain, NotIncluded,
     Proposed, Reverted, Refused
<1>3. ~RecvBatch /\ ~RecvResync /\ ~NextInGroup /\ ~EndResync
  BY <1>1 DEF RecvBatch, RecvResync, NextInGroup, EndResync
<1>4. ~NextGroup
  BY <1>1 DEF NextGroup
<1>5. ReorgCheckPasses
  BY <1>2, <1>3, <1>4 DEF Propose
<1> QED
  BY <1>1, <1>5 DEF ReorgCheckPasses, Idle, jobVars, batchVars

LEMMA RestartEmpty ==
  ASSUME RefusedOnceMore
  PROVE  /\ queue' = <<>> /\ job' = None /\ groups' = {} /\ rest' = <<>>
         /\ batch' = None /\ pc' = "recv"
         /\ open' = None /\ can_propose' = FALSE
         /\ UNCHANGED <<turn, my_turn, inbox, blocks>>
BY RestartsIf DEF Restarts, Restart, Reset

LEMMA CalmTurns ==
  ASSUME GatewayInv, [GatewayNext]_gatewayVars, faults' = 0, CalmTurn
  PROVE  CalmTurn'
<1>1. /\ turn # "disabled"
      /\ turn = "next" => ~can_propose
      /\ turn = "off" => Idle /\ queue = <<>>
      /\ turn = "off" => open = None
      /\ turn \in Turns /\ can_propose \in BOOLEAN
  BY DEF CalmTurn, GatewayInv, GatewayTypeOK, PeersActive
<1>2. CASE Seal \/ Lands \/ PeerLands \/ PeerBlock \/ UNCHANGED gatewayVars
  <2>1. UNCHANGED <<turn, can_propose, queue, pc, job, groups, rest>>
    BY <1>2 DEF Seal, Lands, Landing, Include, PeerLands, PeerProposes,
       PeerBlock, OtherBlock, gatewayVars, vars, proposerVars, sequencerVars,
       jobVars, batchVars
  <2> QED
    BY <1>1, <2>1 DEF CalmTurn, Idle
<1>3. CASE HandOver
  <2>1. UNCHANGED <<turn, can_propose>> /\ open # None
    BY <1>3 DEF HandOver
  <2> QED
    BY <1>1, <2>1 DEF CalmTurn
<1>4. CASE CalmCheck
  <2>1. /\ UNCHANGED <<turn, pc, job, groups, rest>>
        /\ can_propose' = MayPropose(turn)
        /\ ~can_propose' => UNCHANGED queue
    BY <1>4 DEF CalmCheck, batchVars
  <2>2. turn \in {"off", "next"} => ~can_propose'
    BY <2>1 DEF MayPropose
  <2> QED
    BY <1>1, <2>1, <2>2 DEF CalmTurn, Idle
<1>5. CASE Propose
  <2>1. UNCHANGED <<turn, can_propose>>
    BY <1>5, TriesKeep DEF Tries
  <2>2. turn = "off" => Idle' /\ queue' = <<>>
    BY <1>1, <1>5, IdleTries
  <2> QED
    BY <1>1, <2>1, <2>2 DEF CalmTurn
<1>6. CASE RefusedOnceMore
  <2>1. Idle' /\ queue' = <<>>
    BY <1>6, RestartEmpty DEF Idle
  <2> QED
    BY <1>1, <1>6, <2>1, RestartEmpty DEF CalmTurn
<1>7. CASE CalmTurnStep
  <2>1. /\ turn' = NextPhase[turn]
        /\ can_propose = MayPropose(turn)
        /\ turn = "handed" => Idle /\ queue = <<>>
        /\ UNCHANGED <<queue, pc, job, groups, rest, can_propose>>
    BY <1>7 DEF CalmTurnStep, LongEnough, jobVars, batchVars
  <2>2. /\ turn' # "disabled"
        /\ turn' = "next" => turn = "off"
        /\ turn' = "off" => turn = "handed"
    BY <1>1, <2>1 DEF NextPhase, Turns
  <2>3. turn = "off" => ~can_propose
    BY <2>1 DEF MayPropose
  <2> QED
    BY <2>1, <2>2, <2>3 DEF CalmTurn, Idle
<1> QED
  BY <1>2, <1>3, <1>4, <1>5, <1>6, <1>7, CalmSteps

-----------------------------------------------------------------------------
(* The batches of its own that the proposer has while the flag is down.    *)
LEMMA Emptied ==
  ASSUME queue' = <<>>, job' = None, groups' = {}, rest' = <<>>, batch' = None,
         NEW tip
  PROVE  OwnOnly(tip)'
<1>1. Len(queue') = 0
  OBVIOUS
<1> QED
  BY <1>1 DEF OwnOnly

LEMMA QueueTypes ==
  ASSUME GatewayInv
  PROVE  /\ queue \in Seq(Request) /\ Len(queue) \in Nat
         /\ \A i \in 1 .. Len(queue) :
              /\ queue[i] \in Request /\ Sound(queue[i], Len(blocks))
              /\ queue[i].start \in Nat /\ queue[i].end \in Nat
              /\ queue[i].start <= queue[i].end
              /\ queue[i].end <= ResyncTarget
         /\ ResyncTarget \in Nat /\ Len(blocks) \in Nat /\ inbox \in Nat
         /\ inbox <= ResyncTarget
         /\ batch # None => /\ batch \in Batch /\ batch.start \in Nat
                            /\ batch.end \in Nat /\ batch.n \in Nat
                            /\ Spans(batch) /\ batch.end <= ResyncTarget
<1>1. /\ queue \in Seq(Request) /\ batch \in Batch \cup {None}
      /\ \A i \in 1 .. Len(queue) : Sound(queue[i], Len(blocks))
      /\ \A i \in 1 .. Len(queue) : queue[i].end <= ResyncTarget
      /\ batch # None => Spans(batch) /\ batch.end <= ResyncTarget
      /\ inbox <= ResyncTarget
  BY DEF GatewayInv, Inv, TypeOK, WorkInv, EndsBy
<1>2. /\ ResyncTarget \in Nat /\ Len(blocks) \in Nat /\ inbox \in Nat
  BY TargetType DEF GatewayInv
<1>3. /\ Len(queue) \in Nat
      /\ \A i \in 1 .. Len(queue) : queue[i] \in Request
  BY <1>1, LenProperties, ElementOfSeq
<1>4. \A i \in 1 .. Len(queue) :
        /\ queue[i].start \in Nat /\ queue[i].end \in Nat
        /\ queue[i].start <= queue[i].end
  BY <1>1, <1>3, RequestType DEF Sound
<1> QED
  BY <1>1, <1>2, <1>3, <1>4, RequestType

LEMMA OwnTries ==
  ASSUME GatewayInv, OwnOnly(ResyncTarget), Propose, NEW tip,
         tip = ResyncTarget
  PROVE  OwnOnly(tip)'
<1>1. /\ job = None /\ groups = {} /\ rest = <<>>
      /\ \A i \in 1 .. Len(queue) : ~queue[i].resync
      /\ \A j \in 1 .. Len(queue) :
           \A i \in 1 .. j - 1 : queue[i].end < queue[j].start
      /\ queue # <<>> => queue[Len(queue)].end = tip
      /\ batch # None => /\ \A i \in 1 .. Len(queue) : batch.end < queue[i].start
                         /\ queue = <<>> => batch.end = tip
      /\ PeersActive(turn) => batch = None /\ queue = <<>>
      /\ UNCHANGED turn
  BY TriesKeep DEF OwnOnly, Tries
<1>2. queue \in Seq(Request) /\ Len(queue) \in Nat
  BY QueueTypes
<1>3. CASE RecvBatch
  <2>1. /\ batch' = [start |-> Head(queue).start, end |-> Head(queue).end,
                     n |-> Head(queue).n, bns |-> BlocksOf(Head(queue))]
        /\ queue' = Tail(queue) /\ queue # <<>>
        /\ UNCHANGED <<job, groups, rest>>
    BY <1>3 DEF RecvBatch
  <2>2. /\ Head(queue) = queue[1] /\ Len(queue') = Len(queue) - 1
        /\ Len(queue) >= 1 /\ 1 \in 1 .. Len(queue)
        /\ \A i \in 1 .. Len(queue') : queue'[i] = queue[i + 1]
    BY <1>2, <2>1, HeadTailProperties, EmptySeq
  <2>3. \A i \in 1 .. Len(queue') :
          i + 1 \in 1 .. Len(queue) /\ 1 \in 1 .. (i + 1) - 1
    BY <1>2, <2>2
  <2>4. \A i \in 1 .. Len(queue') : ~queue'[i].resync
    BY <1>1, <2>2, <2>3
  <2>5. ASSUME NEW j \in 1 .. Len(queue'), NEW i \in 1 .. j - 1
        PROVE  queue'[i].end < queue'[j].start
    <3>1. i \in 1 .. Len(queue') /\ i + 1 \in 1 .. (j + 1) - 1
      BY <1>2, <2>2
    <3> QED
      BY <1>1, <2>2, <2>3, <3>1
  <2>6. batch'.end = queue[1].end
    BY <2>1, <2>2
  <2>7. \A i \in 1 .. Len(queue') : batch'.end < queue'[i].start
    BY <1>1, <2>2, <2>3, <2>6
  <2>8. queue' # <<>> => queue'[Len(queue')].end = tip
    <3> SUFFICES ASSUME queue' # <<>>
                 PROVE  queue'[Len(queue')].end = tip
      OBVIOUS
    <3>1. Len(queue') # 0
      <4>1. queue' \in Seq(Request)
        BY <1>2, <2>1, HeadTailProperties
      <4> QED
        BY <4>1, EmptySeq
    <3>2. Len(queue') \in 1 .. Len(queue') /\ Len(queue') + 1 = Len(queue)
      BY <1>2, <2>2, <3>1
    <3> QED
      BY <1>1, <2>1, <2>2, <3>2
  <2>9. queue' = <<>> => batch'.end = tip
    <3> SUFFICES ASSUME queue' = <<>>
                 PROVE  batch'.end = tip
      OBVIOUS
    <3>1. Len(queue) = 1
      BY <1>2, <2>2
    <3> QED
      BY <1>1, <2>1, <2>6, <3>1
  <2>10. ~PeersActive(turn)
    BY <1>1, <2>1
  <2> QED
    BY <1>1, <2>1, <2>4, <2>5, <2>7, <2>8, <2>9, <2>10 DEF OwnOnly, PeersActive
<1>4. CASE RecvResync
  <2>1. queue # <<>> /\ Head(queue).resync
    BY <1>4 DEF RecvResync
  <2>2. Head(queue) = queue[1] /\ 1 \in 1 .. Len(queue)
    BY <1>2, <2>1, HeadTailProperties, EmptySeq
  <2> QED
    BY <1>1, <2>1, <2>2
<1>5. ~NextGroup /\ ~NextInGroup /\ ~EndResync
  BY <1>1 DEF NextGroup, NextInGroup, EndResync
<1>6. CASE EndsBatch
  <2>1. batch' = None /\ UNCHANGED <<queue, job, groups, rest>>
    BY <1>6 DEF EndsBatch, Done, jobVars
  <2> QED
    BY <1>1, <2>1 DEF OwnOnly, PeersActive
<1>7. CASE Sent \/ UNCHANGED <<jobVars, batch, pool>>
  <2>1. UNCHANGED <<queue, job, groups, rest, batch>>
    BY <1>7 DEF Sent, jobVars
  <2> QED
    BY <1>1, <2>1 DEF OwnOnly, PeersActive
<1>8. TypeOK
  BY DEF GatewayInv, Inv
<1> QED
  BY <1>3, <1>4, <1>5, <1>6, <1>7, <1>8, TriesEffects DEF Tries

(* Where the open batch begins does not move, but when it is handed over   *)
(* or blocks of others come.                                               *)
LEMMA TargetKept ==
  ASSUME GatewayInv, [GatewayNext]_gatewayVars, faults' = 0
  PROVE  \/ HandOver \/ PeerBlock \/ RefusedOnceMore
         \/ ResyncTarget' = ResyncTarget
<1>1. /\ Len(blocks) \in Nat /\ open # None => open \in Nat
  BY TargetType DEF GatewayInv
<1>2. CASE Seal
  <2>1. Len(blocks') = Len(blocks) + 1
    BY <1>2, BlocksGrow
  <2>2. open' = IF open = None THEN Len(blocks) + 1 ELSE open
    BY <1>2 DEF Seal
  <2>3. Len(blocks) + 1 # None
    BY <1>1, NoneIsNot
  <2> QED
    BY <1>1, <2>1, <2>2, <2>3 DEF ResyncTarget
<1>3. CalmCheck \/ Lands \/ PeerLands \/ CalmTurnStep \/ UNCHANGED gatewayVars
        => UNCHANGED <<open, blocks>>
  BY DEF CalmCheck, Lands, Landing, Include, PeerLands, PeerProposes,
     CalmTurnStep, gatewayVars, vars, sequencerVars
<1>4. Propose => UNCHANGED <<open, blocks>>
  BY TriesKeep DEF Tries
<1>5. UNCHANGED <<open, blocks>> => ResyncTarget' = ResyncTarget
  BY DEF ResyncTarget
<1> QED
  BY <1>2, <1>3, <1>4, <1>5, CalmSteps

LEMMA HandsOver ==
  ASSUME GatewayInv, HandOver
  PROVE  \E r \in Request :
           /\ queue' = Append(queue, r)
           /\ r.start = open /\ r.end = Len(blocks) /\ ~r.resync
           /\ open' = None /\ ResyncTarget' = Len(blocks)
           /\ open \in Nat /\ ResyncTarget = open - 1 /\ open <= Len(blocks)
           /\ open # None /\ inbox < open
           /\ UNCHANGED <<job, groups, rest, batch, inbox, turn, can_propose>>
<1> DEFINE r == [resync |-> FALSE, start |-> open, end |-> Len(blocks),
                 n |-> Len(blocks) - open + 1]
<1>1. /\ queue' = Append(queue, r) /\ open' = None /\ open # None
      /\ UNCHANGED <<job, groups, rest, batch, inbox, turn, can_propose, blocks>>
  BY DEF HandOver, batchVars, l1Vars
<1>2. /\ open \in 1 .. Len(blocks) /\ Len(blocks) \in Nat /\ inbox \in Nat
      /\ ResyncTarget = open - 1 /\ inbox <= ResyncTarget
  BY <1>1, TargetType DEF GatewayInv, GatewayTypeOK, EndsBy
<1>3. r \in Request
  BY <1>2 DEF Request
<1>4. ResyncTarget' = Len(blocks)
  BY <1>1 DEF ResyncTarget
<1> QED
  BY <1>1, <1>2, <1>3, <1>4

LEMMA OwnStep ==
  ASSUME GatewayInv, [GatewayNext]_gatewayVars, faults' = 0, CalmTurn,
         ~can_propose => OwnOnly(ResyncTarget), ~can_propose'
  PROVE  OwnOnly(ResyncTarget)'
<1> DEFINE tip == ResyncTarget
<1>1. CASE RefusedOnceMore
  BY <1>1, RestartEmpty, Emptied
<1>2. CASE can_propose /\ ~RefusedOnceMore
  <2>1. CalmCheck
    <3>1. Seal \/ HandOver \/ Lands \/ PeerLands \/ PeerBlock \/ CalmTurnStep
            \/ UNCHANGED gatewayVars => UNCHANGED can_propose
      BY DEF Seal, HandOver, Lands, PeerLands, PeerBlock, CalmTurnStep,
         gatewayVars, sequencerVars
    <3>2. Propose => UNCHANGED can_propose
      BY TriesKeep DEF Tries
    <3> QED
      BY <1>2, <3>1, <3>2, CalmSteps
  <2>2. /\ ~MayPropose(turn)
        /\ UNCHANGED <<queue, job, groups, rest, batch>>
    BY <2>1 DEF CalmCheck, batchVars
  <2>3. turn = "off"
    BY <1>2, <2>2 DEF CalmTurn, MayPropose, GatewayInv, GatewayTypeOK, Turns
  <2>4. Idle /\ queue = <<>>
    BY <2>3 DEF CalmTurn
  <2>5. batch = None
    BY <2>4, CalmTypes DEF Idle
  <2> QED
    BY <2>2, <2>4, <2>5, Emptied DEF Idle
<1>3. CASE ~can_propose /\ ~RefusedOnceMore
  <2>1. /\ job = None /\ groups = {} /\ rest = <<>>
        /\ \A i \in 1 .. Len(queue) : ~queue[i].resync
        /\ \A j \in 1 .. Len(queue) :
             \A i \in 1 .. j - 1 : queue[i].end < queue[j].start
        /\ queue # <<>> => queue[Len(queue)].end = tip
        /\ batch # None => /\ \A i \in 1 .. Len(queue) :
                                batch.end < queue[i].start
                           /\ queue = <<>> => batch.end = tip
        /\ PeersActive(turn) => batch = None /\ queue = <<>>
    BY <1>3 DEF OwnOnly
  <2>2. ASSUME UNCHANGED <<queue, job, groups, rest, batch>>,
               ResyncTarget' = tip \/ (batch = None /\ queue = <<>>),
               PeersActive(turn') => batch = None /\ queue = <<>>
        PROVE  OwnOnly(ResyncTarget)'
    BY <2>1, <2>2 DEF OwnOnly, PeersActive
  <2>3. CASE Seal \/ Lands \/ PeerLands \/ UNCHANGED gatewayVars
    <3>1. UNCHANGED <<queue, job, groups, rest, batch, turn>>
      BY <2>3 DEF Seal, Lands, Landing, Include, PeerLands, PeerProposes,
         gatewayVars, vars, proposerVars, jobVars, batchVars
    <3>2. ResyncTarget' = tip \/ HandOver \/ PeerBlock
      BY <1>3, TargetKept
    <3>3. CASE ResyncTarget' = tip
      BY <2>1, <2>2, <3>1, <3>3
    <3>4. CASE HandOver
      <4>1. open' = None /\ open # None
        BY <3>4 DEF HandOver
      <4>2. UNCHANGED <<open>> \/ Seal
        BY <2>3 DEF Lands, PeerLands, gatewayVars, sequencerVars
      <4>3. Len(blocks') = Len(blocks) /\ Len(blocks) \in Nat
        BY <3>4, TargetType DEF HandOver, GatewayInv
      <4>4. ~Seal
        BY <4>3, BlocksGrow
      <4> QED
        BY <4>1, <4>2, <4>4
    <3>5. CASE PeerBlock
      BY <2>1, <2>2, <3>1, <3>5 DEF PeerBlock
    <3> QED
      BY <3>2, <3>3, <3>4, <3>5
  <2>4. CASE HandOver
    <3>1. PICK r \in Request :
            /\ queue' = Append(queue, r)
            /\ r.start = open /\ r.end = Len(blocks) /\ ~r.resync
            /\ ResyncTarget' = Len(blocks) /\ open # None
            /\ open \in Nat /\ ResyncTarget = open - 1
            /\ UNCHANGED <<job, groups, rest, batch, turn>>
      BY <2>4, HandsOver
    <3>2. /\ queue' \in Seq(Request) /\ Len(queue') = Len(queue) + 1
          /\ Len(queue) \in Nat /\ queue'[Len(queue) + 1] = r
          /\ \A i \in 1 .. Len(queue) : queue'[i] = queue[i]
          /\ \A i \in 1 .. Len(queue') :
               i \in 1 .. Len(queue) \/ i = Len(queue) + 1
      BY <3>1, QueueTypes, AppendIs
    <3>3. queue' # <<>>
      BY <3>2
    <3>4. \A i \in 1 .. Len(queue) : queue[i].end < r.start
      <4>1. \A i \in 1 .. Len(queue) :
              queue[i].end \in Nat /\ queue[i].end <= ResyncTarget
        BY QueueTypes
      <4> QED
        BY <3>1, <4>1
    <3>5. batch # None => batch.end < r.start
      <4>1. batch # None => batch.end \in Nat /\ batch.end <= ResyncTarget
        BY QueueTypes
      <4> QED
        BY <3>1, <4>1
    <3>6. ASSUME NEW j \in 1 .. Len(queue'), NEW i \in 1 .. j - 1
          PROVE  queue'[i].end < queue'[j].start
      <4>1. i \in 1 .. Len(queue)
        BY <3>2
      <4>2. CASE j \in 1 .. Len(queue)
        BY <2>1, <3>2, <4>1, <4>2
      <4>3. CASE j = Len(queue) + 1
        BY <3>2, <3>4, <4>1, <4>3
      <4> QED
        BY <3>2, <4>2, <4>3
    <3>7. \A i \in 1 .. Len(queue') : ~queue'[i].resync
      BY <2>1, <3>1, <3>2
    <3>8. batch # None => \A i \in 1 .. Len(queue') : batch.end < queue'[i].start
      BY <2>1, <3>2, <3>5
    <3>9. ~PeersActive(turn)
      BY <3>1 DEF GatewayInv, GatewayTypeOK
    <3> QED
      BY <2>1, <3>1, <3>2, <3>3, <3>6, <3>7, <3>8, <3>9 DEF OwnOnly, PeersActive
  <2>5. CASE PeerBlock
    <3>1. PeersActive(turn) /\ UNCHANGED <<queue, job, groups, rest, batch, turn>>
      BY <2>5 DEF PeerBlock, OtherBlock, jobVars, batchVars
    <3> QED
      BY <2>1, <2>2, <3>1
  <2>6. CASE Propose
    <3>1. UNCHANGED <<open, blocks>>
      BY <2>6, TriesKeep DEF Tries
    <3>2. ResyncTarget' = tip
      BY <3>1 DEF ResyncTarget
    <3>3. \A t : t = ResyncTarget => OwnOnly(t)'
      BY <1>3, <2>6, OwnTries
    <3> QED
      BY <3>2, <3>3
  <2>7. CASE CalmTurnStep
    <3>1. /\ turn' = NextPhase[turn] /\ can_propose = MayPropose(turn)
          /\ UNCHANGED <<queue, job, groups, rest, batch, open, blocks>>
      BY <2>7 DEF CalmTurnStep, LongEnough, jobVars, batchVars
    <3>2. turn \in {"off", "next", "disabled"}
      BY <1>3, <3>1 DEF MayPropose, GatewayInv, GatewayTypeOK, Turns
    <3>3. ~PeersActive(turn')
      BY <3>1, <3>2 DEF NextPhase, Turns, PeersActive
    <3>4. ResyncTarget' = tip
      BY <3>1 DEF ResyncTarget
    <3> QED
      BY <2>2, <3>1, <3>3, <3>4
  <2>8. ~CalmCheck
    <3> SUFFICES ASSUME CalmCheck
                 PROVE  FALSE
      OBVIOUS
    <3>1. can_propose # MayPropose(turn) /\ can_propose' = MayPropose(turn)
      BY DEF CalmCheck
    <3>2. MayPropose(turn) = FALSE
      <4>1. ~MayPropose(turn)
        BY <3>1, Zenon
      <4> QED
        BY <4>1 DEF MayPropose
    <3>3. can_propose = FALSE
      BY <1>3 DEF GatewayInv, GatewayTypeOK
    <3> QED
      BY <3>1, <3>2, <3>3
  <2> QED
    BY <1>3, <2>3, <2>4, <2>5, <2>6, <2>7, <2>8, CalmSteps
<1> QED
  BY <1>1, <1>2, <1>3

-----------------------------------------------------------------------------
(* What the proposer comes to while the flag is up.  At the rising edge it *)
(* is the last of its own batches or, if that is behind what has landed,   *)
(* the Resync.                                                             *)
LEMMA ReachedAtRise ==
  ASSUME GatewayInv, OwnOnly(ResyncTarget), CalmCheck, can_propose',
         NEW tip, tip = ResyncTarget
  PROVE  Reached(tip)'
<1>1. /\ job = None /\ groups = {} /\ rest = <<>>
      /\ \A i \in 1 .. Len(queue) : ~queue[i].resync
      /\ \A j \in 1 .. Len(queue) :
           \A i \in 1 .. j - 1 : queue[i].end < queue[j].start
      /\ queue # <<>> => queue[Len(queue)].end = tip
      /\ batch # None => /\ \A i \in 1 .. Len(queue) : batch.end < queue[i].start
                         /\ queue = <<>> => batch.end = tip
  BY DEF OwnOnly
<1>2. /\ CheckResync(inbox)
      /\ UNCHANGED <<job, groups, rest, batch, inbox>>
  BY DEF CalmCheck, batchVars, l1Vars
<1>3. /\ queue \in Seq(Request) /\ Len(queue) \in Nat
      /\ \A i \in 1 .. Len(queue) :
           /\ queue[i] \in Request
           /\ queue[i].start \in Nat /\ queue[i].end \in Nat
           /\ queue[i].start <= queue[i].end
           /\ queue[i].end <= tip
      /\ tip \in Nat /\ inbox \in Nat
      /\ batch # None => /\ batch.start \in Nat /\ batch.end \in Nat
                         /\ batch.start <= batch.end
  BY QueueTypes DEF Spans
<1> SUFFICES ASSUME inbox < tip
             PROVE  \E s \in inbox + 1 .. tip : Reaches(s, tip)'
  BY <1>2 DEF Reached
<1> DEFINE r == [resync |-> TRUE, start |-> inbox + 1, end |-> tip, n |-> 0]
           n == Len(queue)
<1>4. r \in Request /\ r.start = inbox + 1 /\ r.end = tip
  BY <1>3 DEF Request
<1>5. queue' = Append(queue, r)
  BY <1>2 DEF CheckResync
<1> HIDE DEF r
<1>6. /\ Len(queue') = n + 1 /\ queue'[n + 1] = r
      /\ \A i \in 1 .. n : queue'[i] = queue[i]
  BY <1>3, <1>4, <1>5, AppendIs
<1>7. rest' = <<>> /\ Len(rest') = 0 /\ groups' = {} /\ job' = None
  BY <1>1, <1>2
<1>8. ASSUME NEW s, BatchPasses(s, tip)', InQueue(s, tip)'
      PROVE  Reaches(s, tip)'
  BY <1>7, <1>8 DEF Reaches, RestPasses, GroupsPass, JobPasses
<1>9. queue # <<>> => n \in 1 .. n
  BY <1>3, EmptySeq
<1>10. CASE queue # <<>> /\ queue[n].start > inbox
  <2>1. queue[n].start \in inbox + 1 .. tip
    BY <1>3, <1>9, <1>10
  <2>2. ASSUME NEW s, s = queue[n].start
        PROVE  Reaches(s, tip)'
    <3>1. \A j \in 1 .. n - 1 : j \in 1 .. n /\ queue[j].end < s
                                /\ ~queue[j].resync
      BY <1>1, <1>3, <1>9, <1>10, <2>2
    <3>2. \A j \in 1 .. n - 1 : RequestPasses(queue'[j], s, tip)
      BY <1>6, <3>1 DEF RequestPasses, Passes
    <3>3. n \in 1 .. Len(queue') /\ queue'[n].start = s /\ queue'[n].end = tip
      BY <1>1, <1>3, <1>6, <1>9, <1>10, <2>2
    <3>4. batch # None => batch.end < s
      BY <1>1, <1>9, <1>10, <2>2
    <3>5. InQueue(s, tip)'
      BY <3>2, <3>3 DEF InQueue
    <3>6. BatchPasses(s, tip)'
      BY <1>2, <3>4 DEF BatchPasses, Passes
    <3> QED
      BY <1>8, <3>5, <3>6
  <2> QED
    BY <2>1, <2>2
<1>11. CASE queue = <<>> /\ batch # None /\ batch.start > inbox
  <2>1. ASSUME NEW s, s = batch.start
        PROVE  Reaches(s, tip)'
    BY <1>1, <1>2, <1>11, <2>1 DEF Reaches, InBatch
  <2>2. batch.start \in inbox + 1 .. tip
    BY <1>1, <1>3, <1>11
  <2> QED
    BY <2>1, <2>2
<1>12. CASE \/ queue # <<>> /\ queue[n].start <= inbox
            \/ queue = <<>> /\ (batch # None => batch.start <= inbox)
  <2>1. inbox + 1 \in inbox + 1 .. tip
    BY <1>3
  <2>2. \A j \in 1 .. n : queue[j].end < inbox + 1 \/ queue[j].end = tip
    <3> SUFFICES ASSUME NEW j \in 1 .. n
                 PROVE  queue[j].end < inbox + 1 \/ queue[j].end = tip
      OBVIOUS
    <3>1. queue # <<>> /\ queue[n].start <= inbox
      BY <1>3, <1>12, EmptySeq
    <3>2. CASE j = n
      BY <1>1, <3>1, <3>2
    <3>3. CASE j # n
      <4>1. j \in 1 .. n - 1 /\ n \in 1 .. n
        BY <1>3, <3>3
      <4>2. queue[j].end < queue[n].start
        BY <1>1, <4>1
      <4> QED
        BY <1>3, <3>1, <4>1, <4>2
    <3> QED
      BY <3>2, <3>3
  <2>3. batch # None => batch.end < inbox + 1 \/ batch.end = tip
    <3>1. CASE queue = <<>>
      BY <1>1, <3>1
    <3>2. CASE queue # <<>>
      <4>1. batch # None => batch.end < queue[n].start
        BY <1>1, <1>9, <3>2
      <4>2. queue[n].start <= inbox
        BY <1>12, <3>2
      <4> QED
        BY <1>3, <1>9, <3>2, <4>1, <4>2
    <3> QED
      BY <3>1, <3>2
  <2>4. ASSUME NEW s, s = inbox + 1
        PROVE  Reaches(s, tip)'
    <3>1. \A j \in 1 .. n : RequestPasses(queue'[j], s, tip)
      BY <1>1, <1>6, <2>2, <2>4 DEF RequestPasses, Passes
    <3>2. /\ n + 1 \in 1 .. Len(queue') /\ (n + 1) - 1 = n
          /\ queue'[n + 1].start = s /\ queue'[n + 1].end = tip
      BY <1>3, <1>4, <1>6, <2>4
    <3>3. InQueue(s, tip)'
      BY <3>1, <3>2 DEF InQueue
    <3>4. BatchPasses(s, tip)'
      BY <1>2, <2>3, <2>4 DEF BatchPasses, Passes
    <3> QED
      BY <1>8, <3>3, <3>4
  <2> QED
    BY <2>1, <2>4
<1>13. /\ queue # <<>> => queue[n].start > inbox \/ queue[n].start <= inbox
       /\ batch # None => batch.start > inbox \/ batch.start <= inbox
  BY <1>3, <1>9
<1> QED
  BY <1>10, <1>11, <1>12, <1>13

(* A batch that is handed over ends at what is then the last block, behind *)
(* everything else.                                                        *)
LEMMA ReachedAtHandOver ==
  ASSUME GatewayInv, HandOver
  PROVE  Reached(ResyncTarget)'
<1>1. PICK r \in Request :
        /\ queue' = Append(queue, r)
        /\ r.start = open /\ r.end = Len(blocks) /\ ~r.resync
        /\ ResyncTarget' = Len(blocks)
        /\ open \in Nat /\ ResyncTarget = open - 1 /\ open <= Len(blocks)
        /\ inbox < open
        /\ UNCHANGED <<job, groups, rest, batch, inbox>>
  BY HandsOver
<1>2. /\ queue \in Seq(Request) /\ inbox \in Nat /\ Len(blocks) \in Nat
      /\ \A i \in 1 .. Len(queue) :
           queue[i].end \in Nat /\ queue[i].end <= ResyncTarget
      /\ batch # None => batch.end \in Nat /\ batch.end <= ResyncTarget
  BY QueueTypes
<1>3. /\ job # None => job.end \in Nat /\ job.end <= ResyncTarget
      /\ \A g \in groups : \A bn \in g : bn \in Nat /\ bn <= ResyncTarget
      /\ \A i \in 1 .. Len(rest) :
           rest[i].end \in Nat /\ rest[i].end <= ResyncTarget
  BY RequestType, ElementOfSeq DEF GatewayInv, EndsBy, Inv, TypeOK
<1> DEFINE s == open
           tip == Len(blocks)
           n == Len(queue)
<1>4. s \in inbox + 1 .. tip
  BY <1>1, <1>2
<1>5. /\ \A i \in 1 .. n : queue[i].end < s
      /\ batch # None => batch.end < s
      /\ job # None => job.end < s
      /\ \A g \in groups : \A bn \in g : bn < s
      /\ \A i \in 1 .. Len(rest) : rest[i].end < s
  BY <1>1, <1>2, <1>3
<1>6. /\ Len(queue') = n + 1 /\ queue'[n + 1] = r /\ n \in Nat
      /\ \A i \in 1 .. n : queue'[i] = queue[i]
  BY <1>1, <1>2, AppendIs
<1>7. n + 1 \in 1 .. Len(queue') /\ (n + 1) - 1 = n
  BY <1>6
<1>8. ASSUME NEW z, z = s, NEW t, t = tip
      PROVE  Reaches(z, t)'
  <2>1. \A j \in 1 .. n : RequestPasses(queue'[j], z, t)
    BY <1>5, <1>6, <1>8 DEF RequestPasses, Passes
  <2>2. InQueue(z, t)'
    BY <1>1, <1>6, <1>7, <1>8, <2>1 DEF InQueue
  <2>3. /\ BatchPasses(z, t)' /\ RestPasses(z, t)' /\ GroupsPass(z)'
        /\ JobPasses(z)'
    BY <1>1, <1>5, <1>8
    DEF BatchPasses, RestPasses, GroupsPass, JobPasses, Passes
  <2> QED
    BY <2>2, <2>3 DEF Reaches
<1>9. ASSUME NEW t, t = tip
      PROVE  Reached(t)'
  BY <1>1, <1>4, <1>8, <1>9 DEF Reached
<1> QED
  BY <1>1, <1>9 DEF Reached

(* A Resync that begins where the proposer has not passed reaches its end  *)
(* in the blocks of the last anchor, whether or not it is split by anchor. *)
LEMMA ResyncReaches ==
  ASSUME blocks \in L2, UpwardInv, NEW r \in Request,
         Sound(r, Len(blocks)), StartResync(r),
         NEW s, s = r.start, NEW tip, tip = r.end
  PROVE  /\ \E z \in s .. tip : InGroups(z, tip)'
         /\ job' \in {r, None}
<1> DEFINE bns == BlocksOf(r)
<1>1. /\ \A bn \in bns : bn \in 1 .. Len(blocks) /\ bn \in Nat
      /\ s \in Nat /\ tip \in Nat /\ s <= tip
      /\ tip \in bns
      /\ \A bn \in bns : s <= bn /\ bn <= tip
  BY ResyncBlocks, RequestType DEF Sound, BlocksOf
<1>2. groups' = AllTogether(bns) \/ groups' = ByAnchor(bns)
  BY DEF StartResync
<1>3. job' \in {r, None}
  BY DEF StartResync
<1> HIDE DEF bns
<1>4. CASE groups' = AllTogether(bns)
  <2>1. groups' = {bns}
    BY <1>4 DEF AllTogether
  <2>2. InGroups(s, tip)'
    BY <1>1, <2>1 DEF InGroups
  <2> QED
    BY <1>1, <1>3, <2>2
<1>5. CASE groups' = ByAnchor(bns)
  <2> DEFINE With(a) == {bn \in bns : blocks[bn].anchor = a}
             g == With(blocks[tip].anchor)
  <2>1. groups' = {With(a) : a \in {blocks[bn].anchor : bn \in bns}}
    BY <1>5 DEF ByAnchor, InAnchor
  <2>2. g \in groups' /\ tip \in g /\ g \subseteq Nat /\ g # {}
    BY <1>1, <2>1
  <2>3. PICK z \in g : \A k \in g : z <= k
    <3> HIDE DEF g
    <3> QED
      BY <2>2, LeastNatural
  <2>4. z \in s .. tip /\ z \in bns /\ blocks[z].anchor = blocks[tip].anchor
    BY <1>1, <2>2, <2>3
  <2>5. ASSUME NEW h \in groups', h # g, NEW bn \in h
        PROVE  bn < z
    <3>1. PICK a \in {blocks[b].anchor : b \in bns} : h = With(a)
      BY <2>1, <2>5
    <3>2. bn \in bns /\ blocks[bn].anchor = a
      BY <2>5, <3>1
    <3>3. a # blocks[tip].anchor
      BY <2>5, <3>1
    <3>4. /\ bn \in 1 .. Len(blocks) /\ z \in 1 .. Len(blocks)
          /\ tip \in 1 .. Len(blocks)
          /\ bn \in Nat /\ z \in Nat /\ tip \in Nat /\ bn <= tip
      BY <1>1, <2>4, <3>2
    <3> SUFFICES ASSUME z <= bn
                 PROVE  FALSE
      BY <3>4
    <3>5. blocks[tip].anchor \in Nat /\ blocks[bn].anchor \in Nat
      BY <3>4, BlockType
    <3>6. /\ z < bn => blocks[z].anchor <= blocks[bn].anchor
          /\ bn < tip => blocks[bn].anchor <= blocks[tip].anchor
      BY <3>4 DEF UpwardInv, AnchorsGrow
    <3>7. (z < bn \/ z = bn) /\ (bn < tip \/ bn = tip)
      BY <3>4
    <3>8. blocks[z].anchor <= blocks[bn].anchor
          /\ blocks[bn].anchor <= blocks[tip].anchor
      BY <2>4, <3>5, <3>6, <3>7
    <3> QED
      BY <2>4, <3>2, <3>3, <3>8, <3>5
  <2> HIDE DEF g, With
  <2>6. InGroups(z, tip)'
    BY <2>2, <2>3, <2>5 DEF InGroups
  <2> QED
    BY <1>3, <2>4, <2>6
<1> QED
  BY <1>2, <1>4, <1>5

(* The requests of the group that reaches the end: the last of them does.  *)
LEMMA GroupReaches ==
  ASSUME blocks \in L2, UpwardInv, NEW g, GroupOf(g), rest' = RequestsFrom(g),
         NEW s \in Nat, NEW tip \in Nat, tip \in g,
         \A bn \in g : s <= bn /\ bn <= tip
  PROVE  \E z \in s .. tip : InRest(z, tip)'
<1>1. /\ Len(rest') \in 1 .. Len(rest')
      /\ Within(g, rest') /\ Ascending(rest')
      /\ \A bn \in g : bn <= rest'[Len(rest')].end
  BY RequestsInOrder
<1>2. \A i \in 1 .. Len(rest') :
        rest'[i].start \in g /\ rest'[i].end \in g /\ Spans(rest'[i])
  BY <1>1 DEF Within
<1>3. g \subseteq Nat
  BY LenProperties DEF GroupOf, L2
<1> DEFINE last == rest'[Len(rest')]
<1>4. last.end = tip /\ last.start \in s .. tip
  <2>1. last.end \in g /\ last.start \in g
    BY <1>1, <1>2
  <2>2. last.end \in Nat /\ last.end <= tip /\ tip <= last.end
    BY <1>1, <1>3, <2>1
  <2>3. last.start \in Nat /\ s <= last.start /\ last.start <= tip
    BY <1>3, <2>1
  <2> HIDE DEF last
  <2>4. last.end = tip
    BY <2>2
  <2> QED
    BY <2>3, <2>4
<1>5. ASSUME NEW z, z = last.start
      PROVE  InRest(z, tip)'
  <2>1. \A j \in 1 .. Len(rest') - 1 : Passes(rest'[j], z, tip)
    BY <1>1, <1>5 DEF Ascending, Passes
  <2> QED
    BY <1>1, <1>4, <1>5, <2>1 DEF InRest
<1> QED
  BY <1>4, <1>5

(* What is taken from the head of a queue and what is left of it.          *)
LEMMA Taken ==
  ASSUME NEW S, NEW q \in Seq(S), q # <<>>
  PROVE  /\ Head(q) = q[1] /\ 1 \in 1 .. Len(q) /\ Len(q) \in Nat
         /\ Len(Tail(q)) = Len(q) - 1
         /\ \A i \in 1 .. Len(Tail(q)) :
              Tail(q)[i] = q[i + 1] /\ i + 1 \in 1 .. Len(q)
         /\ \A i \in 1 .. Len(q) : i # 1 =>
              /\ i - 1 \in 1 .. Len(Tail(q)) /\ Tail(q)[i - 1] = q[i]
              /\ 1 \in 1 .. i - 1
              /\ \A j \in 1 .. (i - 1) - 1 : j + 1 \in 1 .. i - 1
                                             /\ Tail(q)[j] = q[j + 1]
<1>1. /\ Head(q) = q[1] /\ Len(q) \in Nat \ {0} /\ Len(Tail(q)) = Len(q) - 1
      /\ \A i \in 1 .. Len(Tail(q)) : Tail(q)[i] = q[i + 1]
  BY HeadTailProperties, LenProperties, EmptySeq
<1>2. \A i \in 1 .. Len(Tail(q)) : i + 1 \in 1 .. Len(q)
  BY <1>1
<1>3. ASSUME NEW i \in 1 .. Len(q), i # 1
      PROVE  /\ i - 1 \in 1 .. Len(Tail(q)) /\ Tail(q)[i - 1] = q[i]
             /\ 1 \in 1 .. i - 1
             /\ \A j \in 1 .. (i - 1) - 1 : j + 1 \in 1 .. i - 1
                                            /\ Tail(q)[j] = q[j + 1]
  <2>1. i - 1 \in 1 .. Len(Tail(q)) /\ (i - 1) + 1 = i /\ 1 \in 1 .. i - 1
    BY <1>1, <1>3
  <2>2. \A j \in 1 .. (i - 1) - 1 : j + 1 \in 1 .. i - 1
                                    /\ j \in 1 .. Len(Tail(q))
    BY <1>1, <1>3
  <2>3. Tail(q)[i - 1] = q[i]
    BY <1>1, <2>1
  <2> QED
    BY <1>1, <2>1, <2>2, <2>3
<1> QED
  BY <1>1, <1>2, <1>3

(* The batch at hand, in our turn, ends when it has landed or when its     *)
(* first block has.                                                        *)
LEMMA EndsLanded ==
  ASSUME GatewayInv, CalmL1, Propose, my_turn, batch # None, batch' = None
  PROVE  batch.start <= inbox \/ batch.end <= inbox
<1>1. /\ batch \in Batch /\ Spans(batch) /\ inbox \in Nat /\ nonce \in Nat
      /\ batch.start \in Nat /\ batch.end \in Nat /\ batch.n \in Nat
  BY QueueTypes, CalmTypes
<1>2. /\ last_used_nonce # None => last_used_nonce = nonce \/ batch.end <= inbox
      /\ last_used_nonce \in Nat \cup {None}
  BY CalmTypes DEF CalmL1
<1>3. CASE GetNonce
  <2>1. NoncePassed
    BY <1>3 DEF GetNonce
  <2>2. last_used_nonce # None /\ nonce > last_used_nonce
    BY <2>1 DEF NoncePassed, AccountNonce
  <2> QED
    BY <1>1, <1>2, <2>2
<1>4. CASE GasEstimationGivesUp
  <2>1. inbox + batch.n > batch.end
    BY <1>4 DEF GasEstimationGivesUp, AlreadyAhead
  <2> QED
    BY <1>1, <2>1 DEF Spans
<1>5. CASE Proposed
  <2>1. pc = "wait" /\ Landed(TRUE)
    BY <1>5 DEF Proposed
  <2>2. PICK i \in 1 .. Len(included) : included[i].tx = AtHand(TRUE)
    BY <2>1, CalmTypes DEF Landed
  <2>3. /\ AtHand(TRUE) \in Tx /\ AtHand(TRUE).nonce = last_used_nonce
        /\ last_used_nonce \in Nat
    BY <2>1, AtHandType DEF GatewayInv, Inv
  <2>4. last_used_nonce < nonce
    BY <2>2, <2>3, CalmTypes, NoneIsNot
  <2> QED
    BY <1>1, <1>2, <2>3, <2>4, NoneIsNot
<1>6. CASE RecvBatch \/ NextInGroup
  <2>1. pc = "recv"
    BY <1>6 DEF RecvBatch, NextInGroup, Idle
  <2> QED
    BY <2>1, CalmTypes
<1>7. CASE RecvResync \/ NextGroup \/ EndResync \/ SendAgain \/ Sent
           \/ NotIncluded \/ Reverted \/ RpcError \/ ReorgCheckPasses
  <2>1. batch' = batch
    BY <1>7 DEF RecvResync, NextGroup, EndResync, SendAgain, Sent, NotIncluded,
       Reverted, RpcError, ReorgCheckPasses, Again, Fails, batchVars
  <2> QED
    BY <2>1
<1> QED
  BY <1>3, <1>4, <1>5, <1>6, <1>7 DEF Propose

LEMMA ReachedTries ==
  ASSUME GatewayInv, CalmL1, Propose, my_turn, NEW tip, tip = ResyncTarget,
         Reached(tip)
  PROVE  Reached(tip)'
<1>1. /\ inbox \in Nat /\ tip \in Nat /\ inbox' = inbox
      /\ blocks \in L2 /\ UpwardInv /\ TypeOK
      /\ queue \in Seq(Request) /\ rest \in Seq(Batch)
      /\ \A i \in 1 .. Len(queue) : queue[i] \in Request
                                    /\ Sound(queue[i], Len(blocks))
      /\ pc = "recv" => batch = None
      /\ \A g \in groups : GroupOf(g) /\ \A bn \in g : bn <= tip
      /\ job # None => job \in Request
  BY QueueTypes, TriesKeep
  DEF GatewayInv, OpenInv, Inv, WorkInv, TypeOK, L2, Tries, Grouped, GroupOf,
      EndsBy
<1> SUFFICES ASSUME inbox < tip
             PROVE  \E s \in inbox + 1 .. tip : Reaches(s, tip)'
  BY <1>1 DEF Reached
<1>2. PICK s \in inbox + 1 .. tip : Reaches(s, tip)
  BY DEF Reached
<1>3. s \in Nat /\ s > inbox /\ \A z \in s .. tip : z \in inbox + 1 .. tip
  BY <1>1, <1>2
<1>4. SUFFICES \E z \in s .. tip : Reaches(z, tip)'
  BY <1>3
<1>5. s \in s .. tip
  BY <1>1, <1>2
<1>6. CASE RecvBatch
  <2>1. /\ pc = "recv" /\ job = None /\ groups = {} /\ rest = <<>>
        /\ queue # <<>> /\ ~Head(queue).resync /\ queue' = Tail(queue)
        /\ batch' = [start |-> Head(queue).start, end |-> Head(queue).end,
                     n |-> Head(queue).n, bns |-> BlocksOf(Head(queue))]
        /\ UNCHANGED <<job, groups, rest>>
    BY <1>6 DEF RecvBatch, Idle
  <2>2. ~InBatch(s, tip) /\ ~InRest(s, tip) /\ ~InGroups(s, tip)
    BY <1>1, <2>1 DEF InBatch, InRest, InGroups
  <2>3. PICK i \in 1 .. Len(queue) :
          /\ queue[i].start = s /\ queue[i].end = tip
          /\ \A j \in 1 .. i - 1 : RequestPasses(queue[j], s, tip)
    BY <1>2, <2>2 DEF Reaches, InQueue
  <2>4. Head(queue) = queue[1] /\ queue[1] \in Request
    BY <1>1, <2>1, Taken
  <2>5. CASE i = 1
    <3>1. InBatch(s, tip)'
      BY <2>1, <2>3, <2>4, <2>5, BatchOfRequest DEF InBatch
    <3> QED
      BY <1>5, <3>1 DEF Reaches
  <2>6. CASE i # 1
    <3>1. /\ i - 1 \in 1 .. Len(queue') /\ queue'[i - 1] = queue[i]
          /\ 1 \in 1 .. i - 1
          /\ \A j \in 1 .. (i - 1) - 1 : j + 1 \in 1 .. i - 1
                                         /\ queue'[j] = queue[j + 1]
      BY <1>1, <2>1, <2>6, Taken
    <3>2. InQueue(s, tip)'
      BY <2>3, <3>1 DEF InQueue
    <3>3. BatchPasses(s, tip)'
      BY <2>1, <2>3, <2>4, <3>1 DEF BatchPasses, RequestPasses, Passes
    <3>4. RestPasses(s, tip)' /\ GroupsPass(s)' /\ JobPasses(s)'
      BY <2>1 DEF RestPasses, GroupsPass, JobPasses
    <3> QED
      BY <1>5, <3>2, <3>3, <3>4 DEF Reaches
  <2> QED
    BY <2>5, <2>6
<1>7. CASE RecvResync
  <2>1. /\ pc = "recv" /\ job = None /\ groups = {} /\ rest = <<>>
        /\ queue # <<>> /\ Head(queue).resync /\ queue' = Tail(queue)
        /\ StartResync(Head(queue))
        /\ UNCHANGED <<rest, batch>>
    BY <1>7 DEF RecvResync, Idle, batchVars
  <2>2. ~InBatch(s, tip) /\ ~InRest(s, tip) /\ ~InGroups(s, tip)
    BY <1>1, <2>1 DEF InBatch, InRest, InGroups
  <2>3. PICK i \in 1 .. Len(queue) :
          /\ queue[i].start = s /\ queue[i].end = tip
          /\ \A j \in 1 .. i - 1 : RequestPasses(queue[j], s, tip)
    BY <1>2, <2>2 DEF Reaches, InQueue
  <2>4. /\ Head(queue) = queue[1] /\ queue[1] \in Request
        /\ Sound(queue[1], Len(blocks))
    BY <1>1, <2>1, Taken
  <2>5. \A z : BatchPasses(z, tip)' /\ RestPasses(z, tip)'
    BY <1>1, <2>1 DEF BatchPasses, RestPasses
  <2>6. CASE i = 1
    <3>1. \E z \in s .. tip : InGroups(z, tip)'
      BY <1>1, <2>1, <2>3, <2>4, <2>6, ResyncReaches
    <3> QED
      BY <2>5, <3>1 DEF Reaches
  <2>7. CASE i # 1
    <3>1. /\ i - 1 \in 1 .. Len(queue') /\ queue'[i - 1] = queue[i]
          /\ 1 \in 1 .. i - 1
          /\ \A j \in 1 .. (i - 1) - 1 : j + 1 \in 1 .. i - 1
                                         /\ queue'[j] = queue[j + 1]
      BY <1>1, <2>1, <2>7, Taken
    <3>2. InQueue(s, tip)'
      BY <2>3, <3>1 DEF InQueue
    <3>3. queue[1].end < s /\ queue[1].start \in Nat /\ queue[1].end \in Nat
      BY <2>1, <2>3, <2>4, <3>1, RequestType DEF RequestPasses
    <3>4. \A bn \in BlocksOf(queue[1]) : bn < s
      BY <1>3, <3>3 DEF BlocksOf
    <3>5. GroupsPass(s)' /\ JobPasses(s)'
      BY <2>1, <2>4, <3>3, <3>4, ResyncWithin DEF GroupsPass, JobPasses
    <3> QED
      BY <1>5, <2>5, <3>2, <3>5 DEF Reaches
  <2> QED
    BY <2>6, <2>7
<1>8. CASE NextGroup
  <2>1. PICK g \in groups : rest' = RequestsFrom(g) /\ groups' = groups \ {g}
    BY <1>8 DEF NextGroup
  <2>2. pc = "recv" /\ rest = <<>> /\ UNCHANGED <<queue, job, batch>>
    BY <1>8 DEF NextGroup, batchVars
  <2>3. ~InBatch(s, tip) /\ ~InRest(s, tip)
    BY <1>1, <2>2 DEF InBatch, InRest
  <2>4. \A z : BatchPasses(z, tip)'
    BY <1>1, <2>2 DEF BatchPasses
  <2>5. Within(g, rest') /\ g \subseteq Nat
    <3>1. GroupOf(g)
      BY <1>1
    <3>2. Within(g, rest')
      BY <1>1, <2>1, <3>1, RequestsInOrder
    <3>3. g \subseteq Nat
      BY <1>1, <3>1, LenProperties DEF GroupOf, L2
    <3> QED
      BY <3>2, <3>3
  <2>6. ASSUME \A bn \in g : bn < s
        PROVE  RestPasses(s, tip)'
    BY <2>5, <2>6 DEF Within, RestPasses, Passes
  <2>7. CASE InGroups(s, tip)
    <3>1. PICK h \in groups :
            /\ tip \in h /\ \A bn \in h : s <= bn
            /\ \A o \in groups \ {h} : \A bn \in o : bn < s
      BY <2>7 DEF InGroups
    <3>2. CASE g = h
      <4>1. \E z \in s .. tip : InRest(z, tip)'
        BY <1>1, <1>3, <2>1, <3>1, <3>2, GroupReaches
      <4> QED
        BY <2>4, <4>1 DEF Reaches
    <3>3. CASE g # h
      <4>1. RestPasses(s, tip)'
        BY <2>6, <3>1, <3>3
      <4>2. InGroups(s, tip)'
        BY <2>1, <3>1, <3>3 DEF InGroups
      <4> QED
        BY <1>5, <2>4, <4>1, <4>2 DEF Reaches
    <3> QED
      BY <3>2, <3>3
  <2>8. CASE GroupsPass(s) /\ JobPasses(s) /\ InQueue(s, tip)
    <3>1. RestPasses(s, tip)'
      BY <2>6, <2>8 DEF GroupsPass
    <3>2. GroupsPass(s)' /\ JobPasses(s)' /\ InQueue(s, tip)'
      BY <2>1, <2>2, <2>8 DEF GroupsPass, JobPasses, InQueue
    <3> QED
      BY <1>5, <2>4, <3>1, <3>2 DEF Reaches
  <2> QED
    BY <1>2, <2>3, <2>7, <2>8 DEF Reaches
<1>9. CASE NextInGroup
  <2>1. /\ pc = "recv" /\ rest # <<>> /\ batch' = Head(rest)
        /\ rest' = Tail(rest) /\ UNCHANGED <<queue, job, groups>>
    BY <1>9 DEF NextInGroup
  <2>2. ~InBatch(s, tip)
    BY <1>1, <2>1 DEF InBatch
  <2>3. /\ Head(rest) = rest[1] /\ 1 \in 1 .. Len(rest) /\ rest[1] \in Batch
    BY <1>1, <2>1, Taken, ElementOfSeq
  <2>4. CASE InRest(s, tip)
    <3>1. PICK i \in 1 .. Len(rest) :
            /\ rest[i].start = s /\ rest[i].end = tip
            /\ \A j \in 1 .. i - 1 : Passes(rest[j], s, tip)
      BY <2>4 DEF InRest
    <3>2. CASE i = 1
      <4>1. InBatch(s, tip)'
        BY <2>1, <2>3, <3>1, <3>2, NoneIsNot DEF InBatch
      <4> QED
        BY <1>5, <4>1 DEF Reaches
    <3>3. CASE i # 1
      <4>1. /\ i - 1 \in 1 .. Len(rest') /\ rest'[i - 1] = rest[i]
            /\ 1 \in 1 .. i - 1
            /\ \A j \in 1 .. (i - 1) - 1 : j + 1 \in 1 .. i - 1
                                           /\ rest'[j] = rest[j + 1]
        BY <1>1, <2>1, <3>3, Taken
      <4>2. InRest(s, tip)'
        BY <3>1, <4>1 DEF InRest
      <4>3. BatchPasses(s, tip)'
        BY <2>1, <2>3, <3>1, <4>1 DEF BatchPasses
      <4> QED
        BY <1>5, <4>2, <4>3 DEF Reaches
    <3> QED
      BY <3>2, <3>3
  <2>5. CASE RestPasses(s, tip)
    <3>1. \A i \in 1 .. Len(rest') :
            rest'[i] = rest[i + 1] /\ i + 1 \in 1 .. Len(rest)
      BY <1>1, <2>1, Taken
    <3>2. RestPasses(s, tip)' /\ BatchPasses(s, tip)'
      BY <2>1, <2>3, <2>5, <3>1 DEF RestPasses, BatchPasses
    <3>3. InGroups(s, tip) => InGroups(s, tip)'
      BY <2>1 DEF InGroups
    <3>4. GroupsPass(s) /\ JobPasses(s) /\ InQueue(s, tip)
            => GroupsPass(s)' /\ JobPasses(s)' /\ InQueue(s, tip)'
      BY <2>1 DEF GroupsPass, JobPasses, InQueue
    <3>5. \/ InRest(s, tip)
          \/ InGroups(s, tip)
          \/ GroupsPass(s) /\ JobPasses(s) /\ InQueue(s, tip)
      BY <1>2, <2>2 DEF Reaches
    <3> QED
      BY <1>5, <2>4, <3>2, <3>3, <3>4, <3>5 DEF Reaches
  <2> QED
    BY <1>2, <2>2, <2>4, <2>5 DEF Reaches
<1>10. CASE EndResync
  <2>1. /\ pc = "recv" /\ job # None /\ groups = {} /\ rest = <<>>
        /\ UNCHANGED <<queue, rest, batch>>
        /\ (job' = None /\ UNCHANGED groups) \/ StartResync(job)
    BY <1>10 DEF EndResync, batchVars
  <2>2. ~InBatch(s, tip) /\ ~InRest(s, tip) /\ ~InGroups(s, tip)
    BY <1>1, <2>1 DEF InBatch, InRest, InGroups
  <2>3. JobPasses(s) /\ InQueue(s, tip)
    BY <1>2, <2>2 DEF Reaches
  <2>4. job.end < s /\ job.start \in Nat /\ job.end \in Nat
    BY <1>1, <2>1, <2>3, RequestType DEF JobPasses
  <2>5. \A bn \in BlocksOf(job) : bn < s
    BY <1>3, <2>4 DEF BlocksOf
  <2>6. JobPasses(s)'
    BY <2>1, <2>4, ResyncWithin DEF JobPasses
  <2>7. GroupsPass(s)'
    BY <2>1, <2>5, ResyncWithin DEF GroupsPass
  <2>8. BatchPasses(s, tip)' /\ RestPasses(s, tip)' /\ InQueue(s, tip)'
    BY <1>1, <2>1, <2>3 DEF BatchPasses, RestPasses, InQueue
  <2> QED
    BY <1>5, <2>6, <2>7, <2>8 DEF Reaches
<1>11. ASSUME UNCHANGED <<queue, job, groups, rest>>,
              batch' = batch \/ (batch' = None /\ ~InBatch(s, tip))
       PROVE  \E z \in s .. tip : Reaches(z, tip)'
  <2>1. InBatch(s, tip) => InBatch(s, tip)'
    BY <1>11 DEF InBatch
  <2>2. BatchPasses(s, tip) => BatchPasses(s, tip)'
    BY <1>11 DEF BatchPasses
  <2>3. /\ InRest(s, tip) => InRest(s, tip)'
        /\ RestPasses(s, tip) => RestPasses(s, tip)'
        /\ InGroups(s, tip) => InGroups(s, tip)'
        /\ GroupsPass(s) => GroupsPass(s)'
        /\ JobPasses(s) => JobPasses(s)'
        /\ InQueue(s, tip) => InQueue(s, tip)'
    BY <1>11 DEF InRest, RestPasses, InGroups, GroupsPass, JobPasses, InQueue
  <2>4. Reaches(s, tip)'
    BY <1>2, <2>1, <2>2, <2>3 DEF Reaches
  <2> QED
    BY <1>5, <2>4
<1>12. CASE EndsBatch
  <2>1. /\ batch # None /\ batch' = None
        /\ UNCHANGED <<queue, job, groups, rest>>
    BY <1>12 DEF EndsBatch, Done, jobVars
  <2>2. ~InBatch(s, tip)
    <3>1. batch.start <= inbox \/ batch.end <= inbox
      BY <2>1, EndsLanded
    <3> QED
      BY <1>1, <1>3, <3>1 DEF InBatch
  <2> QED
    BY <1>11, <2>1, <2>2
<1>13. CASE Sent \/ UNCHANGED <<jobVars, batch, pool>>
  <2>1. UNCHANGED <<queue, job, groups, rest, batch>>
    BY <1>13 DEF Sent, jobVars
  <2> QED
    BY <1>11, <2>1
<1> QED
  BY <1>1, <1>6, <1>7, <1>8, <1>9, <1>10, <1>12, <1>13, TriesEffects DEF Tries

LEMMA ReachedKept ==
  ASSUME NEW tip, NEW s \in inbox' + 1 .. tip, Reaches(s, tip),
         UNCHANGED <<queue, job, groups, rest, batch>>
  PROVE  Reached(tip)'
<1>1. Reaches(s, tip)'
  BY DEF Reaches, InBatch, BatchPasses, InRest, RestPasses, InGroups,
     GroupsPass, JobPasses, InQueue
<1> QED
  BY <1>1 DEF Reached

LEMMA ReachedLands ==
  ASSUME GatewayInv, CalmL1, Lands, NEW tip, tip = ResyncTarget, Reached(tip)
  PROVE  Reached(tip)'
<1>1. /\ batch # None /\ batch.n > 0 /\ inbox' = batch.end
      /\ inbox < batch.end /\ batch.end \in Nat /\ batch.end <= tip
      /\ inbox \in Nat /\ tip \in Nat
      /\ UNCHANGED <<queue, job, groups, rest, batch>>
  BY LandsIs, QueueTypes
<1> SUFFICES ASSUME inbox' < tip
             PROVE  Reached(tip)'
  BY DEF Reached
<1>2. PICK s \in inbox + 1 .. tip : Reaches(s, tip)
  BY <1>1 DEF Reached
<1>3. ~InBatch(s, tip)
  BY <1>1 DEF InBatch
<1>4. batch.end < s
  BY <1>1, <1>2, <1>3 DEF Reaches, BatchPasses, Passes
<1>5. s \in inbox' + 1 .. tip
  BY <1>1, <1>2, <1>4
<1> QED
  BY <1>1, <1>2, <1>5, ReachedKept

LEMMA ReachedStep ==
  ASSUME GatewayInv, [GatewayNext]_gatewayVars, faults' = 0, CalmL1, CalmTurn,
         ~can_propose => OwnOnly(ResyncTarget),
         can_propose /\ turn \in {"current", "clearing"}
           => Reached(ResyncTarget),
         can_propose', turn' \in {"current", "clearing"}
  PROVE  Reached(ResyncTarget)'
<1> DEFINE tip == ResyncTarget
<1>1. can_propose \in BOOLEAN /\ turn \in Turns /\ turn # "disabled"
      /\ (turn = "next" => ~can_propose)
      /\ my_turn = (turn \in {"current", "clearing", "handed", "disabled"})
  BY DEF GatewayInv, GatewayTypeOK, CalmTurn
<1>2. CASE HandOver
  BY <1>2, ReachedAtHandOver
<1>3. CASE CalmCheck
  <2>1. can_propose # MayPropose(turn) /\ can_propose' = MayPropose(turn)
        /\ UNCHANGED <<open, blocks>>
    BY <1>3 DEF CalmCheck
  <2>2. ~can_propose
    <3>1. can_propose' # can_propose
      BY <2>1
    <3> QED
      BY <1>1, <3>1
  <2>3. \A t : t = tip => Reached(t)'
    BY <1>3, <2>2, ReachedAtRise
  <2>4. ResyncTarget' = tip
    BY <2>1 DEF ResyncTarget
  <2> QED
    BY <2>3, <2>4
<1>4. ~RefusedOnceMore
  BY DEF RefusedOnceMore, Reset
<1>5. CASE \/ Seal \/ Lands \/ PeerLands \/ PeerBlock \/ CalmTurnStep
           \/ Propose \/ UNCHANGED gatewayVars
  <2>1. UNCHANGED can_propose
    BY <1>5, TriesKeep DEF Seal, Lands, PeerLands, PeerBlock, CalmTurnStep,
       gatewayVars, sequencerVars, Tries
  <2>2. turn \in {"current", "clearing"}
    <3>1. CalmTurnStep => turn' = NextPhase[turn]
      BY DEF CalmTurnStep
    <3>2. ~CalmTurnStep => turn' = turn
      BY <1>5, TriesKeep DEF Seal, Lands, PeerLands, PeerBlock, gatewayVars,
         Tries
    <3>3. turn' = NextPhase[turn] => turn = "current"
      BY <1>1, <2>1 DEF NextPhase, Turns
    <3> QED
      BY <3>1, <3>2, <3>3
  <2>3. Reached(tip) /\ my_turn
    BY <1>1, <2>1, <2>2
  <2>4. ~PeerLands /\ ~PeerBlock
    BY <2>2, <2>3 DEF PeerLands, PeerProposes, PeerBlock, PeersActive
  <2>5. CASE HandOver
    BY <1>2, <2>5
  <2>6. CASE ~HandOver
    <3>1. ResyncTarget' = tip
      BY <1>4, <2>4, <2>6, TargetKept
    <3>2. ASSUME NEW t, t = tip
          PROVE  Reached(t)'
      <4>1. Reached(t)
        BY <2>3, <3>2
      <4>2. CASE Propose
        BY <2>3, <3>2, <4>1, <4>2, ReachedTries
      <4>3. CASE Lands
        BY <3>2, <4>1, <4>3, ReachedLands
      <4>4. CASE Seal \/ CalmTurnStep \/ UNCHANGED gatewayVars
        <5>1. UNCHANGED <<queue, job, groups, rest, batch, inbox>>
          BY <4>4 DEF Seal, CalmTurnStep, gatewayVars, vars, proposerVars,
             jobVars, batchVars, l1Vars
        <5>2. CASE inbox < t
          <6>1. PICK s \in inbox + 1 .. t : Reaches(s, t)
            BY <4>1, <5>2 DEF Reached
          <6> QED
            BY <5>1, <6>1, ReachedKept
        <5>3. CASE ~(inbox < t)
          BY <5>1, <5>3 DEF Reached
        <5> QED
          BY <5>2, <5>3
      <4> QED
        BY <1>5, <2>4, <4>2, <4>3, <4>4
    <3> QED
      BY <3>1, <3>2
  <2> QED
    BY <2>5, <2>6
<1> QED
  BY <1>2, <1>3, <1>4, <1>5, CalmSteps

-----------------------------------------------------------------------------
(* Nothing is stranded.                                                    *)
LEMMA CalmInvInit == GatewayInit => CalmInv
<1> SUFFICES ASSUME GatewayInit
             PROVE  CalmInv
  OBVIOUS
<1>1. /\ queue = <<>> /\ included = <<>> /\ pool = {} /\ batch = None
      /\ blocks = <<>> /\ inbox = 0 /\ open = None
      /\ can_propose = TRUE /\ turn = "current"
  BY DEF GatewayInit, Init
<1>2. Len(included) = 0 /\ Len(blocks) = 0
  BY <1>1
<1>3. CalmL1
  BY <1>1, <1>2 DEF CalmL1
<1>4. CalmTurn
  BY <1>1 DEF CalmTurn
<1>5. Reached(ResyncTarget)
  BY <1>1, <1>2 DEF Reached, ResyncTarget
<1> QED
  BY <1>1, <1>3, <1>4, <1>5 DEF CalmInv

LEMMA CalmInvStep ==
  ASSUME GatewayInv, CalmInv, [GatewayNext]_gatewayVars
  PROVE  CalmInv'
<1> SUFFICES ASSUME faults' = 0
             PROVE  /\ CalmL1' /\ CalmTurn'
                    /\ ~can_propose' => OwnOnly(ResyncTarget)'
                    /\ can_propose' /\ turn' \in {"current", "clearing"}
                         => Reached(ResyncTarget)'
  BY DEF CalmInv
<1>1. /\ CalmL1 /\ CalmTurn
      /\ ~can_propose => OwnOnly(ResyncTarget)
      /\ can_propose /\ turn \in {"current", "clearing"}
           => Reached(ResyncTarget)
  BY CalmSteps DEF CalmInv
<1>2. CalmL1'
  BY <1>1, CalmL1Step
<1>3. CalmTurn'
  BY <1>1, CalmTurns
<1>4. ~can_propose' => OwnOnly(ResyncTarget)'
  BY <1>1, OwnStep
<1>5. can_propose' /\ turn' \in {"current", "clearing"}
        => Reached(ResyncTarget)'
  BY <1>1, ReachedStep
<1> QED
  BY <1>2, <1>3, <1>4, <1>5

LEMMA CalmImplies == GatewayInv /\ CalmInv => NothingStranded
<1> SUFFICES ASSUME GatewayInv, CalmInv, faults = 0,
                    MayPropose(turn), ~PeersActive(turn), can_propose,
                    Idle, queue = <<>>, open = None
             PROVE  inbox = Len(blocks)
  BY DEF NothingStranded
<1>1. turn \in {"current", "clearing"}
  BY DEF MayPropose, PeersActive
<1>2. Reached(ResyncTarget)
  BY <1>1 DEF CalmInv
<1>3. /\ ResyncTarget = Len(blocks) /\ inbox <= ResyncTarget
      /\ ResyncTarget \in Nat /\ inbox \in Nat
  BY QueueTypes DEF ResyncTarget
<1>4. batch = None /\ groups = {} /\ rest = <<>>
  BY CalmTypes DEF Idle
<1>5. ASSUME NEW s
      PROVE  ~Reaches(s, ResyncTarget)
  BY <1>4 DEF Reaches, InBatch, InRest, InGroups, InQueue
<1> QED
  BY <1>2, <1>3, <1>5 DEF Reached

(* As long as nothing went wrong, a proposer that is idle in its turn has  *)
(* landed every block there is: those of its own that it had queued before *)
(* the flag rose, those the Resync of the rising edge found, and those     *)
(* handed over since, however they overlap and whatever other operators    *)
(* landed of them meanwhile.                                               *)
THEOREM NothingIsStranded == GatewaySpec => []NothingStranded
<1>1. GatewayInit => CalmInv
  BY CalmInvInit
<1>2. GatewayInv /\ CalmInv /\ [GatewayNext]_gatewayVars => CalmInv'
  BY CalmInvStep
<1>3. GatewaySpec => []CalmInv
  BY <1>1, <1>2, GatewayInvariant, PTL DEF GatewaySpec
<1>4. GatewayInv /\ CalmInv => NothingStranded
  BY CalmImplies
<1> QED
  BY <1>3, <1>4, GatewayInvariant, PTL

=============================================================================
