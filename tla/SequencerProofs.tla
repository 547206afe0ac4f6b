-------------------------- MODULE SequencerProofs --------------------------
(* Theorems about the sequencer loop, for every value of the constants.    *)
EXTENDS Sequencer, SequenceTheorems, TLAPS

-----------------------------------------------------------------------------
(* Helpers: what the shared parts of the handlers do to the types.         *)

LEMMA IntervalOfNats == ASSUME NEW i \in Nat, NEW j PROVE i .. j \subseteq Nat
OBVIOUS

LEMMA SealFlagType ==
  ASSUME NEW s \in SortData PROVE [s EXCEPT !.seal = TRUE] \in SortData
BY DEF SortData

LEMMA DiscardFlagType ==
  ASSUME NEW s \in SortData PROVE [s EXCEPT !.discard = TRUE] \in SortData
BY DEF SortData

LEMMA OlderType ==
  ASSUME NEW a \in Int PROVE Older(a) \in Int
BY TimeAssumption DEF Older

LEMMA ExtendedBatchType ==
  ASSUME TypeOK, state # None, NEW size \in BlockSizes
  PROVE  ExtendedBatch(size) \in Batch
<1>1. state \in SortData
  BY DEF TypeOK
<1> QED
  BY <1>1, SizeAssumption DEF TypeOK, ExtendedBatch, SizeOf, SortData, Batch

LEMMA StartBlockType == ASSUME TypeOK PROVE StartBlock \in SortData
BY TimeAssumption DEF TypeOK, StartBlock, SortData, Batch

LEMMA SendBatchType ==
  ASSUME NEW r, NEW owed, owed \subseteq Nat, live_pending \in Nat,
         SendBatch(r, owed)
  PROVE  /\ request' \in Batch \cup {None}
         /\ live_pending' \in Nat
         /\ unsent' \subseteq Nat
         /\ lost_flush' \in BOOLEAN
<1>1. live_pending' \in Nat
  BY SMT DEF SendBatch, PendingAfter
<1>2. unsent' \subseteq Nat
  BY Zenon DEF SendBatch
<1> QED
  BY <1>1, <1>2 DEF SendBatch

LEMMA SendBatchCheckedType ==
  ASSUME TypeOK, SendBatchChecked
  PROVE  /\ state' \in SortData \cup {None}
         /\ request' \in Batch \cup {None}
         /\ live_pending' \in Nat
         /\ unsent' \subseteq Nat
         /\ lost_flush' \in BOOLEAN
<1>1. CASE state # None /\ state' = [state EXCEPT !.seal = TRUE]
           /\ UNCHANGED outVars
  BY <1>1, SealFlagType DEF TypeOK, outVars
<1>2. CASE state = None /\ SendBatch(request, unsent) /\ UNCHANGED state
  BY <1>2, SendBatchType DEF TypeOK
<1> QED
  BY <1>1, <1>2 DEF SendBatchChecked

LEMMA AbortType ==
  ASSUME NEW to \in Down, Abort(to)
  PROVE  /\ pc' \in LoopSteps \cup Down
         /\ state' \in SortData \cup {None}
         /\ request' \in Batch \cup {None}
         /\ anchor' \in Nat /\ anchor_error_count' \in Nat
         /\ parent' \in Nat /\ parent_anchor' \in Nat /\ foreign' \in BOOLEAN
         /\ can_sequence' \in BOOLEAN /\ can_propose' \in BOOLEAN
         /\ needs_status_check' \in BOOLEAN
         /\ live_pending' \in Nat /\ stall' \in Nat
BY DEF Abort

LEMMA AdoptBlockType ==
  ASSUME TypeOK, NEW n \in Nat, NEW a \in Nat, AdoptBlock(n, a),
         net' \in Nat, net_anchor' \in Nat, feed' \in Seq(FeedBlock)
  PROVE  TypeOK'
<1>1. unsent' \subseteq Nat
  BY DEF AdoptBlock, TypeOK
<1>2. CASE Abort("starting")
  BY <1>1, <1>2, AbortType DEF AdoptBlock, TypeOK, Down
<1>3. CASE parent' = n /\ parent_anchor' \in {a, parent_anchor} /\ foreign' = TRUE
           /\ UNCHANGED <<pc, state, request, live_pending, anchorVars,
                          lookVars, stall>>
  BY <1>1, <1>3 DEF AdoptBlock, TypeOK, anchorVars, lookVars
<1> QED
  BY <1>2, <1>3 DEF AdoptBlock

-----------------------------------------------------------------------------
(* Every variable keeps its type: one case per action of Next.             *)
LEMMA TypeStep == TypeOK /\ [Next]_vars => TypeOK'
<1> SUFFICES ASSUME TypeOK, [Next]_vars PROVE TypeOK'
  OBVIOUS
<1>1. CASE Startup
  <2>1. <<>> \in Seq(FeedBlock)
    OBVIOUS
  <2> QED
    BY <1>1, <2>1 DEF TypeOK, Startup, LoopSteps, vars, outVars,
       lookVars, chainVars, anchorVars, envVars
<1>2. CASE HandleSims
  <2>1. pc' \in LoopSteps
    BY <1>2 DEF HandleSims, Goto, LoopSteps
  <2>2. state' \in SortData \cup {None}
    BY <1>2, SealFlagType, DiscardFlagType DEF HandleSims, TypeOK
  <2> QED
    BY <1>2, <2>1, <2>2 DEF TypeOK, HandleSims, vars, outVars,
       lookVars, chainVars, anchorVars, envVars
<1>3. CASE CheckCanSequence
  BY <1>3 DEF TypeOK, CheckCanSequence, Goto, LoopSteps, vars, outVars,
       lookVars, chainVars, anchorVars, envVars
<1>4. CASE CheckCanPropose
  <2>1. unsent' \subseteq Nat
    <3>1. PICK o \in 0 .. net :
            unsent' = IF can_propose' /\ ~can_propose
                      THEN (o + 1 .. parent) \ (o + 1 .. ResyncTarget)
                      ELSE unsent
      BY <1>4 DEF CheckCanPropose
    <3>2. o + 1 \in Nat
      OBVIOUS
    <3> QED
      BY <3>1, <3>2, IntervalOfNats DEF TypeOK
  <2>2. can_propose' \in BOOLEAN
    BY <1>4 DEF CheckCanPropose, MayPropose
  <2> QED
    BY <1>4, <2>1, <2>2 DEF TypeOK, CheckCanPropose, Goto, LoopSteps, vars, outVars,
       lookVars, chainVars, anchorVars, envVars
<1>5. CASE MaybeRefreshAnchor
  <2>1. /\ state' \in SortData \cup {None}
        /\ request' \in Batch \cup {None}
        /\ live_pending' \in Nat /\ unsent' \subseteq Nat
        /\ lost_flush' \in BOOLEAN /\ anchor' \in Nat
    BY <1>5, SendBatchCheckedType DEF MaybeRefreshAnchor, TypeOK, outVars
  <2> QED
    BY <1>5, <2>1 DEF TypeOK, MaybeRefreshAnchor, Goto, LoopSteps, vars, outVars,
       lookVars, chainVars, anchorVars, envVars
<1>6. CASE ClearProposal
  <2>1. /\ state' \in SortData \cup {None}
        /\ request' \in Batch \cup {None}
        /\ live_pending' \in Nat /\ unsent' \subseteq Nat
        /\ lost_flush' \in BOOLEAN
    BY <1>6, SendBatchCheckedType DEF ClearProposal, TypeOK, outVars
  <2> QED
    BY <1>6, <2>1 DEF TypeOK, ClearProposal, Goto, LoopSteps, vars, outVars,
       lookVars, chainVars, anchorVars, envVars
<1>7. CASE CheckTimeShift
  <2>1. /\ state' \in SortData \cup {None}
        /\ request' \in Batch \cup {None}
        /\ live_pending' \in Nat /\ unsent' \subseteq Nat
        /\ lost_flush' \in BOOLEAN
    BY <1>7, SendBatchCheckedType DEF CheckTimeShift, TypeOK, outVars
  <2> QED
    BY <1>7, <2>1 DEF TypeOK, CheckTimeShift, Goto, LoopSteps, vars, outVars,
       lookVars, chainVars, anchorVars, envVars
<1>8. CASE StaySync
  BY <1>8 DEF TypeOK, StaySync, Goto, LoopSteps, vars, outVars,
       lookVars, chainVars, anchorVars, envVars
<1>9. CASE StatusPass
  BY <1>9 DEF TypeOK, StatusPass, Goto, LoopSteps, vars, outVars,
       lookVars, chainVars, anchorVars, envVars
<1>10. CASE StatusSkip
  BY <1>10 DEF TypeOK, StatusSkip, Goto, LoopSteps, vars, outVars,
       lookVars, chainVars, anchorVars, envVars
<1>11. CASE AnchorBlock
  <2>1. StartBlock \in SortData
    BY TimeAssumption DEF TypeOK, StartBlock, SortData, Batch
  <2>2. unchecked' \in BOOLEAN
    BY <1>11 DEF AnchorBlock
  <2> QED
    BY <1>11, <2>1, <2>2 DEF TypeOK, AnchorBlock, Goto, LoopSteps, vars, outVars,
       lookVars, chainVars, anchorVars, envVars
<1>12. CASE AnchorFails
  BY <1>12 DEF TypeOK, AnchorFails, Goto, LoopSteps, vars, outVars,
       lookVars, chainVars, anchorVars, envVars
<1>13. CASE DiscardBlock
  <2>1. /\ request' \in Batch \cup {None}
        /\ live_pending' \in Nat /\ unsent' \subseteq Nat
        /\ lost_flush' \in BOOLEAN
    BY <1>13, SendBatchType DEF DiscardBlock, TypeOK, outVars
  <2> QED
    BY <1>13, <2>1 DEF TypeOK, DiscardBlock, Goto, LoopSteps, vars, outVars,
       lookVars, chainVars, anchorVars, envVars
<1>14. CASE KeepSorting
  BY <1>14 DEF TypeOK, KeepSorting, Goto, LoopSteps, vars, outVars,
       lookVars, chainVars, anchorVars, envVars
<1>15. CASE SealBlock
  <2>1. state \in SortData /\ state.block \in Nat /\ state.anchor \in Nat
    BY <1>15 DEF TypeOK, SealBlock, MaySeal, SortData
  <2>2. PICK size \in BlockSizes :
          LET r == ExtendedBatch(size)
              owed == {b \in unsent : b < state.block} \cup {state.block}
          IN  IF NeedsAnchorRefresh(state.anchor) THEN SendBatch(r, owed)
                                                  ELSE KeepBatch(r, owed)
    BY <1>15 DEF SealBlock
  <2> DEFINE owed == {b \in unsent : b < state.block} \cup {state.block}
  <2>3. owed \subseteq Nat
    BY <2>1 DEF TypeOK
  <2>4. ExtendedBatch(size) \in Batch
    BY <1>15, ExtendedBatchType DEF SealBlock, MaySeal
  <2>5. /\ request' \in Batch \cup {None}
        /\ live_pending' \in Nat /\ unsent' \subseteq Nat
        /\ lost_flush' \in BOOLEAN
    BY <2>2, <2>3, <2>4, SendBatchType DEF KeepBatch, TypeOK
  <2> QED
    BY <1>15, <2>1, <2>5 DEF TypeOK, SealBlock, Goto, LoopSteps, vars, outVars,
       lookVars, chainVars, anchorVars, envVars
<1>16. CASE SealRefused
  BY <1>16 DEF TypeOK, SealRefused, Goto, LoopSteps, vars, outVars,
       lookVars, chainVars, anchorVars, envVars
<1>17. CASE SealPanics
  <2>1. state.block \in Nat /\ state.anchor \in Nat
    BY <1>17 DEF TypeOK, SealPanics, MaySeal, SortData
  <2>2. PICK to \in Down : Abort(to)
    BY <1>17 DEF SealPanics, Down
  <2>3. unsent' \subseteq Nat
    BY <1>17, <2>1 DEF TypeOK, SealPanics
  <2> QED
    BY <1>17, <2>1, <2>2, <2>3, AbortType DEF TypeOK, SealPanics
<1>18. CASE RecvL1
  BY <1>18 DEF TypeOK, RecvL1, vars, outVars,
       lookVars, chainVars, anchorVars, envVars
<1>19. CASE RecvL2
  <2>1. Head(feed) \in FeedBlock /\ Tail(feed) \in Seq(FeedBlock)
    BY <1>19 DEF TypeOK, RecvL2
  <2>2. Head(feed).number \in Nat /\ Head(feed).anchor \in Nat
    BY <2>1 DEF FeedBlock
  <2>3. CASE AdoptBlock(Head(feed).number, Head(feed).anchor)
    BY <1>19, <2>1, <2>2, <2>3, AdoptBlockType DEF RecvL2, TypeOK
  <2>4. CASE IgnoreBlock(Head(feed).number)
    BY <1>19, <2>1, <2>4
       DEF IgnoreBlock, RecvL2, TypeOK, outVars, anchorVars, chainVars, lookVars
  <2> QED
    BY <1>19, <2>3, <2>4 DEF RecvL2
<1>20. CASE RecvReorg
  <2>1. PICK n \in 1 .. parent, a \in 1 .. MaxL1 :
          AdoptBlock(n, a) /\ net' = n /\ net_anchor' = a
    BY <1>20 DEF RecvReorg
  <2>2. n \in Nat /\ a \in Nat
    OBVIOUS
  <2> QED
    BY <1>20, <2>1, <2>2, AdoptBlockType DEF RecvReorg, TypeOK
<1>21. CASE Crash
  BY <1>21, AbortType DEF TypeOK, Crash, Down, envVars
<1>22. CASE Tick
  <2>1. state' \in SortData \cup {None}
    BY <1>22, OlderType DEF TypeOK, Tick, SortData
  <2>2. request' \in Batch \cup {None}
    BY <1>22, OlderType DEF TypeOK, Tick, Batch
  <2>3. stall' \in Nat
    BY <1>22 DEF TypeOK, Tick
  <2> QED
    BY <1>22, <2>1, <2>2, <2>3 DEF TypeOK, Tick, vars, outVars,
       lookVars, chainVars, anchorVars, envVars
<1>23. CASE TurnStep
  <2>1. turn' \in Turns
    BY <1>23 DEF TurnStep, TypeOK, FollowingTurns, Turns
  <2> QED
    BY <1>23, <2>1 DEF TypeOK, TurnStep, vars, outVars,
       lookVars, chainVars, anchorVars, envVars
<1>24. CASE PeerBlock
  <2>1. net' \in Nat /\ net_anchor' \in Nat
    BY <1>24 DEF PeerBlock, TypeOK
  <2>2. feed' \in Seq(FeedBlock)
    BY <1>24, <2>1 DEF PeerBlock, TypeOK, FeedBlock
  <2> QED
    BY <1>24, <2>1, <2>2 DEF TypeOK, PeerBlock, vars, outVars,
       lookVars, chainVars, anchorVars, envVars
<1>25. CASE FeedLoses
  BY <1>25 DEF TypeOK, FeedLoses, vars, outVars,
       lookVars, chainVars, anchorVars, envVars
<1>26. CASE ProposalDone
  BY <1>26 DEF TypeOK, ProposalDone, vars, outVars,
       lookVars, chainVars, anchorVars, envVars
<1>27. CASE UNCHANGED vars
  BY <1>27 DEF TypeOK, vars, outVars,
       lookVars, chainVars, anchorVars, envVars
<1> QED
  BY <1>1, <1>2, <1>3, <1>4, <1>5, <1>6, <1>7, <1>8, <1>9,
     <1>10, <1>11, <1>12, <1>13, <1>14, <1>15, <1>16, <1>17, <1>18,
     <1>19, <1>20, <1>21, <1>22, <1>23, <1>24, <1>25, <1>26, <1>27
     DEF Next, LoopStep, Receive, Environment

(* The sequencer's variables always have the types of the source.          *)
THEOREM TypeCorrect == Spec => []TypeOK
<1>1. Init => TypeOK
  <2>1. <<>> \in Seq(FeedBlock)
    OBVIOUS
  <2>2. Init => /\ can_sequence \in BOOLEAN /\ can_propose \in BOOLEAN
                /\ needs_status_check \in BOOLEAN /\ seen \in BOOLEAN
                /\ lost_flush \in BOOLEAN /\ unchecked \in BOOLEAN
    BY Zenon DEF Init
  <2>3. Init => pc \in Down /\ turn \in Turns
    BY DEF Init, Down, Turns
  <2>4. Init => /\ anchor \in Nat /\ anchor_error_count \in Nat
                /\ live_pending \in Nat /\ parent \in Nat
                /\ parent_anchor \in Nat /\ safe_l1 \in Nat
                /\ net \in Nat /\ net_anchor \in Nat /\ stall \in Nat
    BY DEF Init
  <2>5. Init => unsent \subseteq Nat
    BY Zenon DEF Init
  <2> QED
    BY <2>1, <2>2, <2>3, <2>4, <2>5 DEF Init, TypeOK
<1> QED
  BY <1>1, TypeStep, PTL DEF Spec

-----------------------------------------------------------------------------
(* A process that is down has neither a build in progress nor a batch.     *)
DownIsEmpty == pc \in Down => state = None /\ request = None

(* The inductive form of AnchorAgreement.                                  *)
AnchorInv == AnchorAgreement /\ DownIsEmpty

(* SendBatch leaves no batch open, so whatever is said of the open batch   *)
(* holds; SendBatchChecked does that, or only tells the build to seal.     *)
LEMMA SendBatchCheckedEffect ==
  ASSUME TypeOK, SendBatchChecked
  PROVE  \/ state = None /\ state' = None /\ request' = None
         \/ /\ state # None /\ state' # None
            /\ state'.anchor = state.anchor /\ state'.shift = state.shift
            /\ request' = request /\ lost_flush' = lost_flush
<1>1. CASE state # None /\ state' = [state EXCEPT !.seal = TRUE]
           /\ UNCHANGED outVars
  <2>1. state \in SortData
    BY <1>1 DEF TypeOK
  <2>2. state' \in SortData /\ state' # None
    BY <1>1, <2>1, SealFlagType, NoneAssumption
  <2>3. state'.anchor = state.anchor /\ state'.shift = state.shift
    BY <1>1, <2>1 DEF SortData
  <2> QED
    BY <1>1, <2>2, <2>3 DEF outVars
<1>2. CASE state = None /\ SendBatch(request, unsent) /\ UNCHANGED state
  BY <1>2 DEF SendBatch
<1> QED
  BY <1>1, <1>2 DEF SendBatchChecked

(* handle_sims and the clock change the flags and the age of the build.    *)
LEMMA HandleSimsEffect ==
  ASSUME TypeOK, HandleSims
  PROVE  /\ (state' = None) <=> (state = None)
         /\ state # None => /\ state'.anchor = state.anchor
                            /\ state'.shift = state.shift
<1>1. CASE UNCHANGED state
  BY <1>1
<1>2. CASE state # None /\ (\/ state' = [state EXCEPT !.seal = TRUE]
                            \/ state' = [state EXCEPT !.discard = TRUE])
  <2>1. state \in SortData
    BY <1>2 DEF TypeOK
  <2>2. state' \in SortData
    BY <1>2, <2>1, SealFlagType, DiscardFlagType
  <2>3. state'.anchor = state.anchor /\ state'.shift = state.shift
    BY <1>2, <2>1 DEF SortData
  <2> QED
    BY <1>2, <2>2, <2>3, NoneAssumption
<1> QED
  BY <1>1, <1>2 DEF HandleSims

LEMMA TickEffect ==
  ASSUME TypeOK, Tick
  PROVE  /\ (state' = None) <=> (state = None)
         /\ state # None => /\ state'.anchor = state.anchor
                            /\ state'.shift = state.shift
         /\ (request' = None) <=> (request = None)
         /\ request # None => /\ request'.anchor = request.anchor
                              /\ request'.age = Older(request.age)
<1>1. ASSUME state # None
      PROVE  /\ state' # None /\ state'.anchor = state.anchor
             /\ state'.shift = state.shift
  <2>1. state \in SortData /\ state' = [state EXCEPT !.age = Older(@)]
    BY <1>1 DEF TypeOK, Tick
  <2>2. state' \in SortData
    BY <2>1, OlderType DEF SortData
  <2> QED
    BY <2>1, <2>2, NoneAssumption DEF SortData
<1>2. ASSUME request # None
      PROVE  /\ request' # None /\ request'.anchor = request.anchor
             /\ request'.age = Older(request.age)
  <2>1. request \in Batch /\ request' = [request EXCEPT !.age = Older(@)]
    BY <1>2 DEF TypeOK, Tick
  <2>2. request' \in Batch
    BY <2>1, OlderType DEF Batch
  <2> QED
    BY <2>1, <2>2, NoneAssumption DEF Batch
<1> QED
  BY <1>1, <1>2 DEF Tick

(* A received block either loses the process's memory or leaves the build, *)
(* the batch and the anchor alone.                                         *)
LEMMA RecvBlockEffect ==
  ASSUME RecvL2 \/ RecvReorg
  PROVE  \/ Abort("starting") /\ lost_flush' = lost_flush
         \/ UNCHANGED <<pc, state, request, anchor, lost_flush, stall>>
<1>1. ASSUME NEW n, NEW a, AdoptBlock(n, a)
      PROVE  \/ Abort("starting") /\ lost_flush' = lost_flush
             \/ UNCHANGED <<pc, state, request, anchor, lost_flush, stall>>
  BY <1>1 DEF AdoptBlock, anchorVars
<1>2. ASSUME NEW n, IgnoreBlock(n)
      PROVE  UNCHANGED <<pc, state, request, anchor, lost_flush, stall>>
  BY <1>2 DEF IgnoreBlock, outVars, anchorVars
<1> QED
  BY <1>1, <1>2 DEF RecvL2, RecvReorg

(* Only anchor_block starts a block.                                       *)
LEMMA OnlyAnchorBlockStarts ==
  ASSUME TypeOK, Next, Anchors
  PROVE  AnchorBlock
<1>1. state = None /\ state' # None
  BY DEF Anchors
<1>2. ~(\/ HandleSims \/ MaybeRefreshAnchor \/ ClearProposal
        \/ CheckTimeShift \/ Tick)
  BY <1>1, SendBatchCheckedEffect, HandleSimsEffect, TickEffect
     DEF MaybeRefreshAnchor, ClearProposal, CheckTimeShift
<1>3. ~(\/ Startup \/ CheckCanSequence \/ CheckCanPropose \/ StaySync
        \/ StatusPass \/ StatusSkip \/ AnchorFails \/ DiscardBlock
        \/ KeepSorting \/ SealBlock \/ SealRefused \/ SealPanics)
  BY <1>1 DEF Startup, CheckCanSequence, CheckCanPropose, StaySync,
     StatusPass, StatusSkip, AnchorFails, DiscardBlock, KeepSorting,
     SealBlock, SealRefused, SealPanics, Abort
<1>4. ~(\/ RecvL1 \/ RecvL2 \/ RecvReorg \/ Crash \/ TurnStep \/ PeerBlock
        \/ FeedLoses \/ ProposalDone)
  BY <1>1, RecvBlockEffect
     DEF RecvL1, Crash, Abort, TurnStep, PeerBlock, FeedLoses, ProposalDone
<1> QED
  BY <1>2, <1>3, <1>4 DEF Next, LoopStep, Receive, Environment

-----------------------------------------------------------------------------
(* The open batch keeps the anchor its next block will have.               *)
LEMMA AnchorStep == TypeOK /\ AnchorInv /\ [Next]_vars => AnchorInv'
<1> SUFFICES ASSUME TypeOK, AnchorInv, [Next]_vars PROVE AnchorInv'
  OBVIOUS
<1> USE DEF AnchorInv, AnchorAgreement, DownIsEmpty
<1>1. CASE Startup
  BY <1>1 DEF Startup, Down, anchorVars
<1>2. CASE HandleSims
  BY <1>2, HandleSimsEffect DEF HandleSims, Goto, Down, outVars, anchorVars
<1>3. CASE CheckCanSequence
  BY <1>3 DEF CheckCanSequence, Goto, Down, outVars, anchorVars
<1>4. CASE CheckCanPropose
  BY <1>4 DEF CheckCanPropose, Goto, Down, outVars, anchorVars
<1>5. CASE MaybeRefreshAnchor
  BY <1>5, SendBatchCheckedEffect
     DEF MaybeRefreshAnchor, Goto, Down, outVars, anchorVars
<1>6. CASE ClearProposal
  BY <1>6, SendBatchCheckedEffect
     DEF ClearProposal, Goto, Down, outVars, anchorVars
<1>7. CASE CheckTimeShift
  BY <1>7, SendBatchCheckedEffect
     DEF CheckTimeShift, Goto, Down, outVars, anchorVars
<1>8. CASE StaySync
  BY <1>8 DEF StaySync, Goto, Down, outVars, anchorVars
<1>9. CASE StatusPass
  BY <1>9 DEF StatusPass, Goto, Down, outVars, anchorVars
<1>10. CASE StatusSkip
  BY <1>10 DEF StatusSkip, Goto, Down, outVars, anchorVars
<1>11. CASE AnchorBlock
  <2>1. state' # None /\ state'.anchor = anchor
    <3>1. StartBlock \in SortData
      BY TimeAssumption DEF TypeOK, StartBlock, SortData, Batch
    <3> QED
      BY <1>11, <3>1, NoneAssumption DEF AnchorBlock, StartBlock
  <2> QED
    BY <1>11, <2>1 DEF AnchorBlock, Goto, Down, outVars
<1>12. CASE AnchorFails
  BY <1>12 DEF AnchorFails, Goto, Down, outVars
<1>13. CASE DiscardBlock
  BY <1>13
     DEF DiscardBlock, NeedsAnchorRefresh, SendBatch, Goto, Down, outVars,
         anchorVars
<1>14. CASE KeepSorting
  BY <1>14 DEF KeepSorting, Goto, Down, outVars, anchorVars
<1>15. CASE SealBlock
  <2>1. PICK size \in BlockSizes :
          LET r == ExtendedBatch(size)
              owed == {b \in unsent : b < state.block} \cup {state.block}
          IN  IF NeedsAnchorRefresh(state.anchor) THEN SendBatch(r, owed)
                                                  ELSE KeepBatch(r, owed)
    BY <1>15 DEF SealBlock
  <2>2. ExtendedBatch(size).anchor = state.anchor
    BY <1>15 DEF SealBlock, AnchorMismatch, ExtendedBatch
  <2>3. /\ state' = None /\ anchor' = anchor
        /\ pc' = "recv"
    BY <1>15 DEF SealBlock, Goto, anchorVars
  <2>4. CASE NeedsAnchorRefresh(state.anchor)
    BY <2>1, <2>3, <2>4 DEF SendBatch, Down
  <2>5. CASE ~NeedsAnchorRefresh(state.anchor)
    BY <2>1, <2>2, <2>3, <2>5 DEF KeepBatch, NeedsAnchorRefresh, Down
  <2> QED
    BY <2>4, <2>5
<1>16. CASE SealRefused
  BY <1>16
     DEF SealRefused, MaySeal, NeedsAnchorRefresh, Goto, Down, anchorVars
<1>17. CASE SealPanics
  <2>1. lost_flush' = lost_flush /\ state' = None /\ request' = None
    BY <1>17 DEF SealPanics, Abort
  <2>2. pc' = "panic_anchor" => AnchorMismatch /\ state # None
    BY <1>17 DEF SealPanics, Abort, MaySeal
  <2> QED
    BY <2>1, <2>2 DEF AnchorMismatch
<1>18. CASE RecvL1
  BY <1>18 DEF RecvL1, Down, outVars, anchorVars
<1>19. CASE RecvL2
  BY <1>19, RecvBlockEffect DEF Abort, Down
<1>20. CASE RecvReorg
  BY <1>20, RecvBlockEffect DEF Abort, Down
<1>21. CASE Crash
  BY <1>21 DEF Crash, Abort
<1>22. CASE Tick
  BY <1>22, TickEffect DEF Tick, Down, anchorVars
<1>23. CASE TurnStep
  BY <1>23 DEF TurnStep, outVars, anchorVars
<1>24. CASE PeerBlock
  BY <1>24 DEF PeerBlock, outVars, anchorVars
<1>25. CASE FeedLoses
  BY <1>25 DEF FeedLoses, outVars, anchorVars
<1>26. CASE ProposalDone
  BY <1>26 DEF ProposalDone, anchorVars
<1>27. CASE UNCHANGED vars
  BY <1>27 DEF vars, outVars, anchorVars
<1> QED
  BY <1>1, <1>2, <1>3, <1>4, <1>5, <1>6, <1>7, <1>8, <1>9,
     <1>10, <1>11, <1>12, <1>13, <1>14, <1>15, <1>16, <1>17, <1>18,
     <1>19, <1>20, <1>21, <1>22, <1>23, <1>24, <1>25, <1>26, <1>27
     DEF Next, LoopStep, Receive, Environment

(* The assertion of seal_block (sequencer.rs:735) can only fail after a    *)
(* seal that failed left the batch of an older anchor open.                *)
THEOREM AnchorsAgree == Spec => []AnchorAgreement
<1>1. Init => AnchorInv
  BY DEF Init, AnchorInv, AnchorAgreement, DownIsEmpty
<1>2. AnchorInv => AnchorAgreement
  BY DEF AnchorInv
<1> QED
  BY <1>1, <1>2, AnchorStep, TypeCorrect, PTL DEF Spec

-----------------------------------------------------------------------------
(* The inductive form of TimeShiftFits: from the time shift check to the   *)
(* anchoring the batch ages by the stall at most, and the time shift fixed *)
(* at the anchoring is the one the block is sealed with.                   *)
TimeInv ==
  /\ pc # "panic_shift"
  /\ DownIsEmpty
  /\ stall <= MaxStall
  /\ pc \in {"transition", "anchoring"} /\ state = None /\ request # None =>
       request.age <= TimeShiftLimit + stall
  /\ state # None /\ request # None => state.shift <= MaxTimeShift

LEMMA TimeStep == TypeOK /\ TimeInv /\ [Next]_vars => TimeInv'
<1> SUFFICES ASSUME TypeOK, TimeInv, [Next]_vars PROVE TimeInv'
  OBVIOUS
<1> USE DEF TimeInv, DownIsEmpty
<1>1. CASE Startup
  BY <1>1 DEF Startup, Down
<1>2. CASE HandleSims
  BY <1>2, HandleSimsEffect DEF HandleSims, Goto, Down, outVars
<1>3. CASE CheckCanSequence
  BY <1>3 DEF CheckCanSequence, Goto, Down, outVars
<1>4. CASE CheckCanPropose
  BY <1>4 DEF CheckCanPropose, Goto, Down, outVars
<1>5. CASE MaybeRefreshAnchor
  BY <1>5, SendBatchCheckedEffect DEF MaybeRefreshAnchor, Goto, Down, outVars
<1>6. CASE ClearProposal
  BY <1>6, SendBatchCheckedEffect DEF ClearProposal, Goto, Down, outVars
<1>7. CASE CheckTimeShift
  <2>1. pc' = "transition" /\ stall' = 0 /\ 0 <= MaxStall
    BY <1>7, TimeAssumption DEF CheckTimeShift, Goto
  <2>2. CASE TimeShiftTooLong
    BY <1>7, <2>1, <2>2, SendBatchCheckedEffect DEF CheckTimeShift, Down
  <2>3. CASE ~TimeShiftTooLong
    <3>1. request # None => request.age <= TimeShiftLimit
      BY <2>3, TimeAssumption DEF TimeShiftTooLong, TypeOK, Batch
    <3>2. UNCHANGED <<state, request>>
      BY <1>7, <2>3 DEF CheckTimeShift, outVars
    <3> QED
      BY <2>1, <3>1, <3>2, TimeAssumption DEF Down
  <2> QED
    BY <2>2, <2>3
<1>8. CASE StaySync
  BY <1>8 DEF StaySync, Goto, Down, outVars
<1>9. CASE StatusPass
  BY <1>9 DEF StatusPass, Goto, Down, outVars
<1>10. CASE StatusSkip
  BY <1>10 DEF StatusSkip, Goto, Down, outVars
<1>11. CASE AnchorBlock
  <2>1. StartBlock.shift =
          IF request = None THEN 0 ELSE request.age + TargetBlockTime
    BY DEF StartBlock
  <2>2. request # None =>
          request.age \in Int /\ request.age <= TimeShiftLimit + stall
    BY <1>11 DEF AnchorBlock, Goto, TypeOK, Batch
  <2>3. request # None => request.age + TargetBlockTime <= MaxTimeShift
    BY <2>2, TimeAssumption DEF TypeOK
  <2> QED
    BY <1>11, <2>1, <2>3 DEF AnchorBlock, Goto, Down, outVars
<1>12. CASE AnchorFails
  BY <1>12 DEF AnchorFails, Goto, Down, outVars
<1>13. CASE DiscardBlock
  BY <1>13 DEF DiscardBlock, Goto, Down
<1>14. CASE KeepSorting
  BY <1>14 DEF KeepSorting, Goto, Down, outVars
<1>15. CASE SealBlock
  BY <1>15 DEF SealBlock, Goto, Down
<1>16. CASE SealRefused
  BY <1>16 DEF SealRefused, Goto, Down
<1>17. CASE SealPanics
  <2>1. ~ShiftOverflow
    <3>1. state # None /\ state \in SortData
      BY <1>17 DEF SealPanics, MaySeal, TypeOK
    <3> QED
      BY <3>1, TimeAssumption DEF ShiftOverflow, SortData
  <2> QED
    BY <1>17, <2>1, TimeAssumption DEF SealPanics, Abort
<1>18. CASE RecvL1
  BY <1>18 DEF RecvL1, Down, outVars
<1>19. CASE RecvL2 \/ RecvReorg
  <2>1. CASE Abort("starting")
    BY <2>1, TimeAssumption DEF Abort, Down
  <2>2. CASE UNCHANGED <<pc, state, request, anchor, lost_flush, stall>>
    BY <2>2
  <2> QED
    BY <1>19, <2>1, <2>2, RecvBlockEffect
<1>21. CASE Crash
  BY <1>21, TimeAssumption DEF Crash, Abort
<1>22. CASE Tick
  <2>1. request # None => request'.age <= request.age + 1
    <3>1. request # None => request.age \in Int
      BY DEF TypeOK, Batch
    <3> QED
      BY <1>22, <3>1, TickEffect DEF Older
  <2>2. stall' <= MaxStall
    <3>1. (stall < MaxStall /\ stall' = stall + 1) \/ stall' = stall
      BY <1>22 DEF Tick
    <3>2. stall \in Nat /\ MaxStall \in Nat
      BY TimeAssumption DEF TypeOK
    <3> QED
      BY <3>1, <3>2
  <2>3. request # None => request'.age \in Int /\ request.age \in Int
    <3>1. request # None => request.age \in Int
      BY DEF TypeOK, Batch
    <3> QED
      BY <1>22, <3>1, TickEffect, OlderType
  <2>4. state = None /\ pc \in {"transition", "anchoring"} => stall' = stall + 1
    BY <1>22 DEF Tick
  <2>5. pc' = pc /\ pc \notin Down
    BY <1>22 DEF Tick, Down
  <2>6. ASSUME pc \in {"transition", "anchoring"}, state = None, request # None
        PROVE  request'.age <= TimeShiftLimit + stall'
    BY <2>1, <2>3, <2>4, <2>6, TimeAssumption DEF TypeOK
  <2>7. state' # None /\ request' # None => state'.shift <= MaxTimeShift
    BY <1>22, TickEffect
  <2> QED
    BY <1>22, <2>2, <2>5, <2>6, <2>7, TickEffect
<1>23. CASE TurnStep
  BY <1>23 DEF TurnStep, outVars
<1>24. CASE PeerBlock
  BY <1>24 DEF PeerBlock, outVars
<1>25. CASE FeedLoses
  BY <1>25 DEF FeedLoses, outVars
<1>26. CASE ProposalDone
  BY <1>26 DEF ProposalDone
<1>27. CASE UNCHANGED vars
  BY <1>27 DEF vars, outVars
<1> QED
  BY <1>1, <1>2, <1>3, <1>4, <1>5, <1>6, <1>7, <1>8, <1>9,
     <1>10, <1>11, <1>12, <1>13, <1>14, <1>15, <1>16, <1>17, <1>18,
     <1>19, <1>21, <1>22, <1>23, <1>24, <1>25, <1>26, <1>27
     DEF Next, LoopStep, Receive, Environment

(* Under TimeAssumption (no stall longer than 255 s - 230 s - one block    *)
(* time), no block is sealed with a time shift that does not fit in a u8.  *)
THEOREM TimeShiftsFit == Spec => []TimeShiftFits
<1>1. Init => TimeInv
  BY TimeAssumption DEF Init, TimeInv, DownIsEmpty
<1>2. TimeInv => TimeShiftFits
  BY DEF TimeInv, TimeShiftFits
<1> QED
  BY <1>1, <1>2, TimeStep, TypeCorrect, PTL DEF Spec

-----------------------------------------------------------------------------
(* The two action properties, one step at a time.                          *)
LEMMA UnbrokenStep ==
  TypeOK /\ [Next]_vars =>
    [state # None /\ state' # None /\ request # None => request' # None]_vars
<1> SUFFICES ASSUME TypeOK, Next, state # None, state' # None, request # None
             PROVE  request' # None
  BY DEF vars
<1>1. CASE Startup
  BY <1>1 DEF Startup
<1>2. CASE HandleSims \/ CheckCanSequence \/ StaySync \/ StatusPass
           \/ StatusSkip \/ AnchorBlock \/ AnchorFails \/ KeepSorting
  BY <1>2 DEF HandleSims, CheckCanSequence, StaySync, StatusPass, StatusSkip,
              AnchorBlock, AnchorFails, KeepSorting, outVars
<1>3. CASE CheckCanPropose
  BY <1>3 DEF CheckCanPropose
<1>4. CASE MaybeRefreshAnchor \/ ClearProposal \/ CheckTimeShift
  BY <1>4, SendBatchCheckedEffect
     DEF MaybeRefreshAnchor, ClearProposal, CheckTimeShift, outVars
<1>5. CASE DiscardBlock \/ SealBlock \/ SealRefused \/ SealPanics
  BY <1>5 DEF DiscardBlock, SealBlock, SealRefused, SealPanics, Abort
<1>6. CASE RecvL1 \/ RecvL2 \/ RecvReorg
  BY <1>6, RecvBlockEffect DEF RecvL1, Abort, outVars
<1>7. CASE Crash \/ TurnStep \/ PeerBlock \/ FeedLoses \/ ProposalDone
  BY <1>7 DEF Crash, Abort, TurnStep, PeerBlock, FeedLoses, ProposalDone,
              outVars
<1>8. CASE Tick
  BY <1>8, TickEffect
<1> QED
  BY <1>1, <1>2, <1>3, <1>4, <1>5, <1>6, <1>7, <1>8
     DEF Next, LoopStep, Receive, Environment

(* A batch is never sent while a block that will join it is being built.   *)
THEOREM BatchesUnbroken == Spec => BatchUnbroken
BY TypeCorrect, UnbrokenStep, PTL DEF Spec, BatchUnbroken

(* The anchor of the next block is at least that of the block being built  *)
(* and, unless the parent is foreign, that of the parent.  It holds because*)
(* a refresh only moves the anchor forward, and because the block that     *)
(* becomes the parent was itself anchored with it or with an earlier one.  *)
ParentInv ==
  /\ ~foreign => parent_anchor <= anchor
  /\ state # None => state.anchor <= anchor

LEMMA ParentAbort ==
  ASSUME NEW to, Abort(to)
  PROVE  ParentInv'
BY DEF Abort, ParentInv

LEMMA ParentStep == TypeOK /\ ParentInv /\ [Next]_vars => ParentInv'
<1> SUFFICES ASSUME TypeOK, ParentInv, [Next]_vars PROVE ParentInv'
  OBVIOUS
<1>0. /\ anchor \in Nat /\ safe_l1 \in Nat /\ parent_anchor \in Nat
      /\ foreign \in BOOLEAN
      /\ state # None => state \in SortData /\ state.anchor \in Nat
  BY DEF TypeOK, SortData
<1>1. CASE MaybeRefreshAnchor
  <2>1. state' # None => state # None /\ state'.anchor = state.anchor
    <3>1. CASE state' = state
      BY <3>1
    <3>2. CASE state # None /\ state' = [state EXCEPT !.seal = TRUE]
      BY <1>0, <3>2 DEF SortData
    <3> QED
      BY <1>1, <3>1, <3>2 DEF MaybeRefreshAnchor, SendBatchChecked
  <2>2. anchor' \in Nat /\ anchor <= anchor'
    BY <1>0, <1>1 DEF MaybeRefreshAnchor, RefreshDue
  <2>3. ~foreign' => parent_anchor' <= anchor'
    <3>1. parent_anchor' = parent_anchor
      BY <1>1 DEF MaybeRefreshAnchor
    <3>2. CASE foreign' = foreign
      BY <1>0, <2>2, <3>1, <3>2 DEF ParentInv
    <3>3. CASE anchor' = safe_l1 /\ foreign' = (foreign /\ safe_l1 < parent_anchor)
      BY <1>0, <2>2, <3>1, <3>3 DEF ParentInv
    <3> QED
      BY <1>1, <3>2, <3>3 DEF MaybeRefreshAnchor
  <2>4. state' # None => state'.anchor <= anchor'
    BY <1>0, <2>1, <2>2 DEF ParentInv
  <2> QED
    BY <2>3, <2>4 DEF ParentInv
<1>2. CASE RecvL1
  BY <1>2 DEF RecvL1, ParentInv, anchorVars
<1>3. CASE RecvL2 \/ RecvReorg
  <2>1. ASSUME NEW n, NEW a, AdoptBlock(n, a)
        PROVE  ParentInv'
    <3>1. CASE Abort("starting")
      BY <3>1, ParentAbort
    <3>2. CASE foreign' = TRUE /\ state' = state /\ anchor' = anchor
      BY <3>2 DEF ParentInv
    <3> QED
      BY <2>1, <3>1, <3>2 DEF AdoptBlock, anchorVars
  <2>2. ASSUME NEW n, IgnoreBlock(n)
        PROVE  ParentInv'
    BY <2>2 DEF IgnoreBlock, ParentInv, anchorVars, chainVars
  <2> QED
    BY <1>3, <2>1, <2>2 DEF RecvL2, RecvReorg
<1>4. CASE SealPanics \/ Crash
  BY <1>4, ParentAbort DEF SealPanics, Crash
<1>5. CASE Startup
  BY <1>5 DEF Startup, ParentInv, anchorVars
<1>6. CASE HandleSims \/ ClearProposal \/ CheckTimeShift
  <2>1. state' # None => state # None /\ state'.anchor = state.anchor
    <3>1. CASE state' = state
      BY <3>1
    <3>2. CASE state # None /\ state' = [state EXCEPT !.seal = TRUE]
      BY <1>0, <3>2 DEF SortData
    <3>3. CASE state # None /\ state' = [state EXCEPT !.discard = TRUE]
      BY <1>0, <3>3 DEF SortData
    <3> QED
      BY <1>6, <3>1, <3>2, <3>3
         DEF HandleSims, ClearProposal, CheckTimeShift, SendBatchChecked
  <2>2. UNCHANGED <<anchor, parent_anchor, foreign>>
    BY <1>6 DEF HandleSims, ClearProposal, CheckTimeShift, anchorVars, chainVars
  <2> QED
    BY <2>1, <2>2 DEF ParentInv
<1>7. CASE AnchorBlock
  <2>1. state'.anchor = anchor /\ anchor' = anchor
    BY <1>7 DEF AnchorBlock, StartBlock
  <2>2. UNCHANGED <<parent_anchor, foreign>>
    BY <1>7 DEF AnchorBlock, chainVars
  <2> QED
    BY <1>0, <2>1, <2>2 DEF ParentInv
<1>8. CASE SealBlock
  <2>1. state # None /\ state' = None /\ anchor' = anchor
    BY <1>8 DEF SealBlock, MaySeal, anchorVars
  <2>2. \/ parent_anchor' = state.anchor
        \/ UNCHANGED <<parent_anchor, foreign>>
    BY <1>8 DEF SealBlock
  <2> QED
    BY <1>0, <2>1, <2>2 DEF ParentInv
<1>9. CASE DiscardBlock \/ SealRefused
  BY <1>9 DEF DiscardBlock, SealRefused, ParentInv, anchorVars, chainVars
<1>10. CASE CheckCanSequence \/ CheckCanPropose \/ StaySync \/ StatusPass
            \/ StatusSkip \/ AnchorFails \/ KeepSorting
  BY <1>10 DEF CheckCanSequence, CheckCanPropose, StaySync, StatusPass,
     StatusSkip, AnchorFails, KeepSorting, ParentInv, anchorVars, chainVars
<1>11. CASE Tick
  <2>1. state' # None => state # None /\ state'.anchor = state.anchor
    BY <1>0, <1>11 DEF Tick, SortData
  <2>2. UNCHANGED <<anchor, parent_anchor, foreign>>
    BY <1>11 DEF Tick, anchorVars, chainVars
  <2> QED
    BY <2>1, <2>2 DEF ParentInv
<1>12. CASE TurnStep \/ PeerBlock \/ FeedLoses \/ ProposalDone
  BY <1>12 DEF TurnStep, PeerBlock, FeedLoses, ProposalDone, ParentInv,
     anchorVars, chainVars
<1>13. CASE UNCHANGED vars
  BY <1>13 DEF vars, ParentInv, anchorVars, chainVars
<1> QED
  BY <1>1, <1>2, <1>3, <1>4, <1>5, <1>6, <1>7, <1>8, <1>9, <1>10, <1>11, <1>12,
     <1>13 DEF Next, LoopStep, Receive, Environment

(* No block is anchored behind its parent (sequencer.rs:220 compares the   *)
(* safe L1 block, not the anchor, with the parent's anchor), unless the    *)
(* parent is a block of another gateway or of an earlier process that no   *)
(* refresh has caught up with.                                             *)
THEOREM AnchorKeepsUp == Spec => AnchorNotBehindParent
<1>1. Init => ParentInv
  BY DEF Init, ParentInv
<1>2. ParentInv /\ TypeOK /\ [Next]_vars =>
        [Anchors /\ ~foreign => state'.anchor >= parent_anchor]_vars
  <2> SUFFICES ASSUME ParentInv, TypeOK, Next, Anchors, ~foreign
               PROVE  state'.anchor >= parent_anchor
    OBVIOUS
  <2>1. AnchorBlock
    BY OnlyAnchorBlockStarts
  <2>2. state'.anchor = anchor
    BY <2>1 DEF AnchorBlock, StartBlock
  <2> QED
    BY <2>2 DEF ParentInv, TypeOK
<1> QED
  BY <1>1, <1>2, TypeCorrect, ParentStep, PTL DEF Spec, AnchorNotBehindParent

-----------------------------------------------------------------------------
(* The refinement: every step of the loop is one step of Batching, or none *)
(* that it sees.                                                           *)
LEMMA OpenBatchNone ==
  ASSUME NEW r \in Batch \cup {None}
  PROVE  (OpenBatch(r) = None) <=> (r = None)
BY NoneAssumption, NoneViewAssumption DEF OpenBatch, Batch

LEMMA BuildingNone ==
  ASSUME NEW s \in SortData \cup {None}
  PROVE  (Building(s) = None) <=> (s = None)
BY NoneAssumption, NoneViewAssumption DEF Building, SortData

Unseen == UNCHANGED <<OpenBatch(request), Building(state), live_pending>>

(* A batch that nobody is building for is handed over whole.               *)
LEMMA SendMapsToHandOver ==
  ASSUME TypeOK, SendBatchChecked
  PROVE  Batches!HandOver \/ Unseen
<1>1. CASE state # None /\ state' = [state EXCEPT !.seal = TRUE]
           /\ UNCHANGED outVars
  <2>1. state \in SortData
    BY <1>1 DEF TypeOK
  <2>2. state' # None /\ state'.block = state.block
                      /\ state'.anchor = state.anchor
    BY <1>1, <2>1, SealFlagType, NoneAssumption DEF SortData
  <2> QED
    BY <1>1, <2>2 DEF Unseen, Building, outVars
<1>2. CASE state = None /\ SendBatch(request, unsent) /\ UNCHANGED state
  <2>1. CASE request = None
    BY <1>2, <2>1 DEF SendBatch, PendingAfter, Unseen
  <2>2. CASE request # None
    <3>1. OpenBatch(request) # None
      BY <2>2, OpenBatchNone DEF TypeOK
    <3>2. OpenBatch(request') = None /\ Building(state) = None
      BY <1>2 DEF SendBatch, OpenBatch, Building
    <3>3. live_pending' = live_pending + 1
      BY <1>2, <2>2 DEF SendBatch, PendingAfter
    <3> QED
      BY <1>2, <3>1, <3>2, <3>3 DEF Batches!HandOver, Batches!HandedOver
  <2> QED
    BY <2>1, <2>2
<1> QED
  BY <1>1, <1>2 DEF SendBatchChecked

LEMMA AbortMapsToFail == ASSUME NEW to, Abort(to) PROVE Batches!Fail
BY DEF Abort, Batches!Fail, OpenBatch, Building

(* The sealed block joins the open batch, or begins one.                   *)
LEMMA SealMapsToSeal == ASSUME TypeOK, TypeOK', SealBlock PROVE Batches!Seal
<1>1. state \in SortData /\ state # None /\ state' = None
  BY DEF SealBlock, MaySeal, TypeOK
<1>2. Building(state) # None /\ Building(state') = None
  BY <1>1, BuildingNone DEF Building
<1>3. Building(state).block = state.block
      /\ Building(state).anchor = state.anchor
  BY <1>1 DEF Building
<1>4. PICK size \in BlockSizes :
        \/ SendBatch(ExtendedBatch(size),
                     {b \in unsent : b < state.block} \cup {state.block})
        \/ KeepBatch(ExtendedBatch(size),
                     {b \in unsent : b < state.block} \cup {state.block})
  BY DEF SealBlock
<1>5. request \in Batch \cup {None}
  BY DEF TypeOK
<1>6. OpenBatch(request) # None =>
        OpenBatch(request).anchor = Building(state).anchor
  <2>1. ASSUME request # None PROVE OpenBatch(request).anchor = request.anchor
    BY <2>1 DEF OpenBatch
  <2>2. request # None => request.anchor = state.anchor
    BY DEF SealBlock, AnchorMismatch
  <2> QED
    BY <1>3, <1>5, <2>1, <2>2, OpenBatchNone
<1>7. ExtendedBatch(size) # None
  BY <1>1, <1>5, NoneAssumption, ExtendedBatchType
<1>8. CASE SendBatch(ExtendedBatch(size),
                     {b \in unsent : b < state.block} \cup {state.block})
  BY <1>2, <1>6, <1>7, <1>8
     DEF SendBatch, PendingAfter, OpenBatch, Batches!Seal, Batches!HandedOver
<1>9. CASE KeepBatch(ExtendedBatch(size),
                     {b \in unsent : b < state.block} \cup {state.block})
  <2>1. OpenBatch(ExtendedBatch(size)) = Batches!Joined
    BY <1>3, <1>5, <1>7, OpenBatchNone
       DEF OpenBatch, ExtendedBatch, Batches!Joined
  <2> QED
    BY <1>2, <1>6, <1>9, <2>1 DEF KeepBatch, Batches!Seal
<1> QED
  BY <1>4, <1>8, <1>9

(* A block of another gateway leaves the batch alone or ends the process.  *)
LEMMA ReceiveMapsToFail ==
  ASSUME RecvL2 \/ RecvReorg PROVE Batches!Fail \/ Unseen
<1>1. ASSUME NEW n, NEW a, AdoptBlock(n, a) PROVE Batches!Fail \/ Unseen
  BY <1>1, AbortMapsToFail DEF AdoptBlock, Unseen
<1>2. ASSUME NEW n, IgnoreBlock(n) PROVE Unseen
  BY <1>2 DEF IgnoreBlock, Unseen, outVars
<1> QED
  BY <1>1, <1>2 DEF RecvL2, RecvReorg

LEMMA HandleSimsUnseen == ASSUME TypeOK, HandleSims PROVE Unseen
<1>1. CASE UNCHANGED state
  BY <1>1 DEF HandleSims, Unseen, outVars
<1>2. CASE state # None /\ (\/ state' = [state EXCEPT !.seal = TRUE]
                            \/ state' = [state EXCEPT !.discard = TRUE])
  <2>1. state \in SortData
    BY <1>2 DEF TypeOK
  <2>2. state' # None
    BY <1>2, <2>1, SealFlagType, DiscardFlagType, NoneAssumption
  <2>3. state'.block = state.block /\ state'.anchor = state.anchor
    BY <1>2, <2>1 DEF SortData
  <2> QED
    BY <1>2, <2>2, <2>3 DEF HandleSims, Unseen, Building, outVars
<1> QED
  BY <1>1, <1>2 DEF HandleSims

(* Time is not part of what the proposer is promised.                      *)
LEMMA TickUnseen == ASSUME TypeOK, Tick PROVE Unseen
<1>1. Building(state') = Building(state)
  <2>1. CASE state = None
    BY <2>1 DEF Tick, Building
  <2>2. CASE state # None
    <3>1. state \in SortData /\ state' = [state EXCEPT !.age = Older(@)]
      BY <2>2 DEF TypeOK, Tick
    <3>2. state' # None
      BY <2>2, TickEffect
    <3>3. state'.block = state.block /\ state'.anchor = state.anchor
      BY <3>1 DEF SortData
    <3> QED
      BY <2>2, <3>2, <3>3 DEF Building
  <2> QED
    BY <2>1, <2>2
<1>2. OpenBatch(request') = OpenBatch(request)
  <2>1. CASE request = None
    BY <2>1 DEF Tick, OpenBatch
  <2>2. CASE request # None
    <3>1. request \in Batch /\ request' = [request EXCEPT !.age = Older(@)]
      BY <2>2 DEF TypeOK, Tick
    <3>2. request' # None
      BY <2>2, TickEffect
    <3>3. /\ request'.anchor = request.anchor
          /\ request'.start = request.start
          /\ request'.end = request.end
          /\ request'.len = request.len
      BY <3>1 DEF Batch
    <3> QED
      BY <2>2, <3>2, <3>3 DEF OpenBatch
  <2> QED
    BY <2>1, <2>2
<1> QED
  BY <1>1, <1>2 DEF Tick, Unseen

LEMMA RefinementStep ==
  TypeOK /\ TypeOK' /\ [Next]_vars => [Batches!Next]_(Batches!vars)
<1> SUFFICES ASSUME TypeOK, TypeOK', [Next]_vars
             PROVE  Batches!Next \/ Unseen
  BY DEF Batches!vars, Unseen
<1>1. CASE HandleSims
  BY <1>1, HandleSimsUnseen
<1>2. CASE MaybeRefreshAnchor \/ ClearProposal \/ CheckTimeShift
  <2>1. CASE SendBatchChecked
    BY <2>1, SendMapsToHandOver DEF Batches!Next
  <2>2. CASE UNCHANGED <<state, outVars>>
    BY <2>2 DEF Unseen, outVars
  <2> QED
    BY <1>2, <2>1, <2>2
       DEF MaybeRefreshAnchor, ClearProposal, CheckTimeShift, outVars
<1>3. CASE AnchorBlock
  <2>1. state = None /\ Building(state) = None
    BY <1>3 DEF AnchorBlock, Building
  <2>2. state' = StartBlock /\ state' # None
    BY <1>3, NoneAssumption, StartBlockType DEF AnchorBlock
  <2>3. Building(state') \in [block: Nat, anchor: Nat]
    BY <2>2 DEF Building, StartBlock, TypeOK
  <2> QED
    BY <1>3, <2>1, <2>3
       DEF AnchorBlock, outVars, Batches!Begin, Batches!Next
<1>4. CASE DiscardBlock \/ SealRefused
  <2>1. state \in SortData /\ state # None /\ state' = None
    BY <1>4 DEF DiscardBlock, SealRefused, MaySeal, TypeOK
  <2>2. Building(state) # None /\ Building(state') = None
    BY <2>1, BuildingNone DEF Building
  <2>3. CASE UNCHANGED <<request, live_pending>>
    BY <2>2, <2>3 DEF Batches!Drop, Batches!Next
  <2>4. CASE SendBatch(request, unsent)
    <3>1. OpenBatch(request') = None
      BY <2>4 DEF SendBatch, OpenBatch
    <3>2. CASE request = None
      BY <2>2, <2>4, <3>2
         DEF SendBatch, PendingAfter, Batches!Drop, Batches!Next
    <3>3. CASE request # None
      <4>1. OpenBatch(request) # None
        BY <3>3, OpenBatchNone DEF TypeOK
      <4>2. live_pending' = live_pending + 1
        BY <2>4, <3>3 DEF SendBatch, PendingAfter
      <4> QED
        BY <2>2, <3>1, <4>1, <4>2
           DEF Batches!HandedOver, Batches!Drop, Batches!Next
    <3> QED
      BY <3>2, <3>3
  <2> QED
    BY <1>4, <2>3, <2>4 DEF DiscardBlock, SealRefused, outVars
<1>5. CASE SealBlock
  BY <1>5, SealMapsToSeal DEF Batches!Next
<1>6. CASE SealPanics \/ Crash
  BY <1>6, AbortMapsToFail DEF SealPanics, Crash, Batches!Next
<1>7. CASE RecvL2 \/ RecvReorg
  BY <1>7, ReceiveMapsToFail DEF Batches!Next
<1>8. CASE Tick
  BY <1>8, TickUnseen
<1>9. CASE ProposalDone
  BY <1>9 DEF ProposalDone, Batches!Finish, Batches!Next
<1>10. CASE Startup \/ CheckCanSequence \/ CheckCanPropose \/ StaySync
            \/ StatusPass \/ StatusSkip \/ AnchorFails \/ KeepSorting
  BY <1>10
     DEF Startup, CheckCanSequence, CheckCanPropose, StaySync, StatusPass,
         StatusSkip, AnchorFails, KeepSorting, outVars, Unseen
<1>11. CASE RecvL1 \/ TurnStep \/ PeerBlock \/ FeedLoses \/ UNCHANGED vars
  BY <1>11 DEF RecvL1, TurnStep, PeerBlock, FeedLoses, vars, outVars, Unseen
<1> QED
  BY <1>1, <1>2, <1>3, <1>4, <1>5, <1>6, <1>7, <1>8, <1>9, <1>10, <1>11
     DEF Next, LoopStep, Receive, Environment

(* The sequencer loop implements Batching: over deferred flushes, dropped  *)
(* builds, failed seals and panics, its batches grow only by their own     *)
(* blocks and reach the proposer once and whole.                           *)
THEOREM SequencerBatches == Spec => BatchesWhole
<1>1. Init => Batches!Init
  BY DEF Init, Batches!Init, OpenBatch, Building
<1> QED
  BY <1>1, TypeCorrect, RefinementStep, PTL
     DEF Spec, BatchesWhole, Batches!Spec

-----------------------------------------------------------------------------
(* While others build, this gateway does not: it has read its last phase   *)
(* when the next one comes, and TurnStep waits for its build and batch.    *)
TurnInv ==
  /\ DownIsEmpty
  /\ pc \in Down => ~can_sequence /\ ~can_propose
  /\ pc = "anchoring" => can_sequence
  /\ can_sequence => MaySequence(turn) \/ ~seen
  /\ state # None \/ request # None \/ can_sequence => ~PeersActive(turn)

LEMMA AbortTurn ==
  ASSUME TypeOK, TurnInv, NEW to \in Down, Abort(to), turn' = turn
  PROVE  TurnInv'
BY Zenon DEF TurnInv, DownIsEmpty, Abort, Down

LEMMA TurnInvStep == TypeOK /\ TurnInv /\ [Next]_vars => TurnInv'
<1> SUFFICES ASSUME TypeOK, TurnInv, [Next]_vars PROVE TurnInv'
  OBVIOUS
<1> USE DEF TurnInv, DownIsEmpty
<1>1. CASE Startup
  BY <1>1 DEF Startup, Down, lookVars
<1>2. CASE HandleSims
  BY <1>2, HandleSimsEffect
     DEF HandleSims, Goto, Down, outVars, lookVars, envVars
<1>3. CASE CheckCanSequence
  <2>1. can_sequence' => MaySequence(turn)
    BY <1>3 DEF CheckCanSequence
  <2>2. MaySequence(turn) => ~PeersActive(turn)
    BY DEF MaySequence, PeersActive
  <2>3. /\ pc' = "check_propose" /\ turn' = turn
        /\ state' = state /\ request' = request
    BY <1>3 DEF CheckCanSequence, Goto, outVars
  <2> QED
    BY <2>1, <2>2, <2>3 DEF Down
<1>4. CASE CheckCanPropose
  BY <1>4 DEF CheckCanPropose, Goto, Down, envVars
<1>5. CASE MaybeRefreshAnchor \/ ClearProposal \/ CheckTimeShift
  <2>1. /\ pc' \in {"clear", "time_shift", "transition"}
        /\ UNCHANGED <<turn, seen, can_sequence, can_propose>>
    BY <1>5 DEF MaybeRefreshAnchor, ClearProposal, CheckTimeShift, Goto,
                lookVars, envVars
  <2>2. SendBatchChecked \/ UNCHANGED <<state, request>>
    BY <1>5 DEF MaybeRefreshAnchor, ClearProposal, CheckTimeShift, outVars
  <2>3. /\ state' # None => state # None
        /\ request' # None => request # None
    BY <2>2, SendBatchCheckedEffect
  <2> QED
    BY <2>1, <2>3 DEF Down
<1>6. CASE StaySync \/ AnchorFails \/ KeepSorting
  BY <1>6 DEF StaySync, AnchorFails, KeepSorting, Goto, Down, outVars,
              lookVars, envVars
<1>7. CASE StatusPass \/ StatusSkip
  BY <1>7 DEF StatusPass, StatusSkip, ReadyToAnchor, Goto, Down, outVars,
              lookVars, envVars
<1>8. CASE AnchorBlock
  BY <1>8 DEF AnchorBlock, Goto, Down, outVars, lookVars, envVars
<1>9. CASE DiscardBlock
  <2>1. request' # None => request # None
    BY <1>9 DEF DiscardBlock, SendBatch, outVars
  <2> QED
    BY <1>9, <2>1 DEF DiscardBlock, Goto, Down, lookVars, envVars
<1>10. CASE SealBlock
  BY <1>10 DEF SealBlock, MaySeal, Goto, Down, lookVars
<1>11. CASE SealRefused
  BY <1>11 DEF SealRefused, Goto, Down, lookVars, envVars
<1>12. CASE SealPanics
  <2>1. PICK to \in Down : Abort(to)
    BY <1>12 DEF SealPanics, Down
  <2> QED
    BY <1>12, <2>1, AbortTurn DEF SealPanics
<1>13. CASE Crash
  BY <1>13, AbortTurn DEF Crash, Down, envVars
<1>14. CASE RecvL1
  BY <1>14 DEF RecvL1, outVars, lookVars, envVars
<1>15. CASE RecvL2 \/ RecvReorg
  <2>1. CASE Abort("starting")
    <3>1. turn' = turn /\ "starting" \in Down
      BY <1>15 DEF RecvL2, RecvReorg, AdoptBlock, IgnoreBlock, Down
    <3> QED
      BY <2>1, <3>1, AbortTurn
  <2>2. CASE ~Abort("starting")
    <3>1. UNCHANGED <<pc, state, request, lookVars, turn, seen>>
      BY <1>15, <2>2 DEF RecvL2, RecvReorg, AdoptBlock, IgnoreBlock, outVars
    <3> QED
      BY <3>1 DEF lookVars
  <2> QED
    BY <2>1, <2>2
<1>16. CASE Tick
  BY <1>16, TickEffect DEF Tick, lookVars, envVars
<1>17. CASE TurnStep
  <2>1. UNCHANGED <<pc, state, request, can_sequence, can_propose>> /\ ~seen'
    BY <1>17 DEF TurnStep, outVars, lookVars
  <2>2. PeersActive(turn') => state = None /\ request = None
    BY <1>17 DEF TurnStep
  <2>3. PeersActive(turn') => ~can_sequence
    <3>1. turn \in Turns /\ turn' \in FollowingTurns[turn]
          /\ (seen \/ pc \in Down)
      BY <1>17 DEF TurnStep, TypeOK
    <3>2. PeersActive(turn') => ~MaySequence(turn)
      BY <3>1 DEF Turns, FollowingTurns, PeersActive, MaySequence
    <3> QED
      BY <3>1, <3>2
  <2> QED
    BY <2>1, <2>2, <2>3
<1>18. CASE PeerBlock \/ FeedLoses \/ ProposalDone
  BY <1>18 DEF PeerBlock, FeedLoses, ProposalDone, outVars, lookVars, envVars
<1>19. CASE UNCHANGED vars
  BY <1>19 DEF vars, outVars, lookVars, envVars
<1> QED
  BY <1>1, <1>2, <1>3, <1>4, <1>5, <1>6, <1>7, <1>8, <1>9, <1>10, <1>11,
     <1>12, <1>13, <1>14, <1>15, <1>16, <1>17, <1>18, <1>19
     DEF Next, LoopStep, Receive, Environment

-----------------------------------------------------------------------------
(* The blocks of others that are still to be delivered lie between the     *)
(* parent p and the tip n that the network knows, in their order.          *)
FeedBetween(p, n, f) ==
  /\ p <= n
  /\ \A i \in 1 .. Len(f) :
       /\ p < f[i].number /\ f[i].number <= n
       /\ \A j \in 1 .. i - 1 : f[j].number < f[i].number

LEMMA FeedNumber ==
  ASSUME NEW f \in Seq(FeedBlock), NEW i \in 1 .. Len(f)
  PROVE  f[i].number \in Nat
<1>1. f[i] \in FeedBlock
  BY ElementOfSeq
<1> QED
  BY <1>1 DEF FeedBlock

LEMMA FeedWider ==
  ASSUME NEW f \in Seq(FeedBlock), NEW p \in Nat, NEW n \in Nat,
         NEW q \in Nat, NEW m \in Nat, FeedBetween(p, n, f), q <= p, n <= m
  PROVE  FeedBetween(q, m, f)
<1>1. ASSUME NEW i \in 1 .. Len(f)
      PROVE  q < f[i].number /\ f[i].number <= m
  BY FeedNumber DEF FeedBetween
<1> QED
  BY <1>1 DEF FeedBetween

LEMMA FeedEmpty ==
  ASSUME NEW n \in Nat, NEW p \in Nat, p <= n
  PROVE  FeedBetween(p, n, <<>>)
<1>1. 1 .. Len(<<>>) = {}
  BY EmptySeq
<1> QED
  BY <1>1 DEF FeedBetween

LEMMA FeedNext ==
  ASSUME NEW f \in Seq(FeedBlock), f # <<>>, NEW p \in Nat, NEW n \in Nat,
         FeedBetween(p, n, f)
  PROVE  /\ Head(f).number \in Nat /\ Tail(f) \in Seq(FeedBlock)
         /\ p < Head(f).number /\ Head(f).number <= n
         /\ FeedBetween(Head(f).number, n, Tail(f))
<1>1. Len(f) \in Nat /\ Len(f) # 0
  BY EmptySeq, LenProperties
<1>2. /\ Head(f) = f[1] /\ Tail(f) \in Seq(FeedBlock)
      /\ Len(Tail(f)) = Len(f) - 1
      /\ \A i \in 1 .. Len(Tail(f)) : Tail(f)[i] = f[i + 1]
  BY HeadTailProperties
<1> DEFINE t == Tail(f)
<1> HIDE DEF t
<1>3. 1 \in 1 .. Len(f)
  BY <1>1
<1>4. /\ f[1].number \in Nat /\ p < f[1].number /\ f[1].number <= n
  BY <1>3, FeedNumber DEF FeedBetween
<1>5. ASSUME NEW i \in 1 .. Len(t)
      PROVE  /\ f[1].number < t[i].number /\ t[i].number <= n
             /\ \A j \in 1 .. i - 1 : t[j].number < t[i].number
  <2>1. i + 1 \in 1 .. Len(f) /\ 1 \in 1 .. (i + 1) - 1
    BY <1>1, <1>2 DEF t
  <2>2. /\ f[i + 1].number <= n
        /\ \A j \in 1 .. (i + 1) - 1 : f[j].number < f[i + 1].number
    BY <2>1 DEF FeedBetween
  <2>3. t[i] = f[i + 1]
    BY <1>2 DEF t
  <2>4. ASSUME NEW j \in 1 .. i - 1 PROVE t[j].number < t[i].number
    <3>1. j \in 1 .. Len(t) /\ j + 1 \in 1 .. (i + 1) - 1
      BY <1>1, <1>2 DEF t
    <3>2. t[j] = f[j + 1]
      BY <1>2, <3>1 DEF t
    <3> QED
      BY <2>2, <2>3, <3>1, <3>2
  <2> QED
    BY <2>1, <2>2, <2>3, <2>4
<1>6. FeedBetween(f[1].number, n, t)
  BY <1>4, <1>5 DEF FeedBetween
<1> QED
  BY <1>2, <1>4, <1>6 DEF t

LEMMA FeedNone ==
  ASSUME NEW f \in Seq(FeedBlock), NEW p \in Nat, NEW n \in Nat,
         FeedBetween(p, n, f), n <= p
  PROVE  f = <<>>
<1> SUFFICES ASSUME f # <<>> PROVE FALSE
  OBVIOUS
<1>1. /\ Head(f).number \in Nat
      /\ p < Head(f).number /\ Head(f).number <= n
  BY FeedNext
<1> QED
  BY <1>1

LEMMA FeedGrows ==
  ASSUME NEW f \in Seq(FeedBlock), NEW p \in Nat, NEW n \in Nat,
         FeedBetween(p, n, f), NEW b \in FeedBlock, b.number = n + 1
  PROVE  FeedBetween(p, n + 1, Append(f, b))
<1> DEFINE t == Append(f, b)
<1>1. /\ Len(f) \in Nat /\ Len(t) = Len(f) + 1 /\ t[Len(f) + 1] = b
      /\ \A i \in 1 .. Len(f) : t[i] = f[i]
  BY AppendProperties, LenProperties
<1> HIDE DEF t
<1>2. ASSUME NEW i \in 1 .. Len(f)
      PROVE  /\ f[i].number \in Nat
             /\ p < f[i].number /\ f[i].number <= n
             /\ \A j \in 1 .. i - 1 : f[j].number < f[i].number
  BY FeedNumber DEF FeedBetween
<1>3. ASSUME NEW i \in 1 .. Len(f) + 1
      PROVE  /\ p < t[i].number /\ t[i].number <= n + 1
             /\ \A j \in 1 .. i - 1 : t[j].number < t[i].number
  <2>1. \A j \in 1 .. i - 1 : j \in 1 .. Len(f)
    BY <1>1
  <2>2. CASE i = Len(f) + 1
    <3>1. t[i].number = n + 1 /\ p < n + 1
      BY <1>1, <2>2 DEF FeedBetween
    <3> QED
      BY <1>1, <1>2, <2>1, <3>1
  <2>3. CASE i # Len(f) + 1
    <3>1. i \in 1 .. Len(f) /\ t[i] = f[i]
      BY <1>1, <2>3
    <3>2. \A j \in 1 .. i - 1 : t[j] = f[j]
      BY <1>1, <2>1
    <3>3. f[i].number \in Nat /\ p < f[i].number /\ f[i].number <= n
      BY <1>2, <3>1
    <3>4. f[i].number <= n + 1
      BY <3>3
    <3> QED
      BY <1>2, <3>1, <3>2, <3>3, <3>4, Zenon
  <2> QED
    BY <2>2, <2>3
<1>4. p <= n + 1
  BY DEF FeedBetween
<1>5. FeedBetween(p, n + 1, t)
  BY <1>1, <1>3, <1>4 DEF FeedBetween
<1> QED
  BY <1>5 DEF t

-----------------------------------------------------------------------------
(* The inductive form of BatchContiguous and TakeoverCovered, as long as   *)
(* no block was built unchecked: with a batch open, a block in             *)
(* construction or a status check passed, the parent is the network's tip, *)
(* and so no block of another gateway is left in the feed.                 *)
OnTip ==
  request # None \/ state # None \/ (can_sequence /\ ~needs_status_check)

TipInv ==
  /\ FeedBetween(parent, net, feed)
  /\ OnTip => net <= parent
  /\ state # None => net < state.block

BatchInv ==
  request # None =>
    /\ request.len = request.end - request.start + 1
    /\ request.end = parent
    /\ state # None => state.block = parent + 1

OwedInv == can_propose => unsent \subseteq Blocks(request)

CoverInv == ~unchecked => TipInv /\ BatchInv /\ OwedInv

(* Nothing new is built, and the batch is left alone or sent.              *)
SameState ==
  state' # None => state # None /\ state'.block = state.block

SameBatch ==
  /\ request' # None <=> request # None
  /\ request # None => /\ request'.start = request.start
                       /\ request'.end = request.end
                       /\ request'.len = request.len
  /\ unsent' = unsent

SentBatch == request' = None /\ unsent' = unsent \ Blocks(request)

Quiet ==
  /\ SameState /\ (SameBatch \/ SentBatch)
  /\ UNCHANGED <<parent, net, feed, unchecked>>
  /\ can_propose' => can_propose

LEMMA QuietCover ==
  ASSUME CoverInv, Quiet,
         ~unchecked /\ can_sequence' /\ ~needs_status_check' =>
           net <= parent
  PROVE  CoverInv'
<1> SUFFICES ASSUME ~unchecked' PROVE TipInv' /\ BatchInv' /\ OwedInv'
  BY DEF CoverInv
<1>1. ~unchecked /\ TipInv /\ BatchInv /\ OwedInv
  BY DEF CoverInv, Quiet
<1>2. /\ parent' = parent /\ net' = net /\ feed' = feed
      /\ can_propose' => can_propose
      /\ request' # None => request # None
      /\ SameState
  BY DEF Quiet, SameBatch, SentBatch
<1>3. TipInv'
  <2>1. OnTip' => net <= parent
    BY <1>1, <1>2 DEF TipInv, OnTip, SameState
  <2> QED
    BY <1>1, <1>2, <2>1 DEF TipInv, SameState
<1>4. BatchInv'
  BY <1>1, <1>2 DEF Quiet, SameBatch, SentBatch, BatchInv, SameState
<1>5. OwedInv'
  <2>1. CASE SameBatch
    <3>1. Blocks(request') = Blocks(request)
      BY <2>1 DEF SameBatch, Blocks
    <3> QED
      BY <1>1, <1>2, <2>1, <3>1 DEF SameBatch, OwedInv
  <2>2. CASE SentBatch
    BY <1>1, <1>2, <2>2 DEF SentBatch, OwedInv
  <2> QED
    BY <2>1, <2>2 DEF Quiet
<1> QED
  BY <1>3, <1>4, <1>5

(* The process starts again behind whatever the network knows.             *)
LEMMA AbortCover ==
  ASSUME TypeOK, CoverInv, NEW to, Abort(to), unchecked' = unchecked,
         net' \in Nat, net <= net' \/ feed = <<>>,
         feed' = feed \/ (feed # <<>> /\ feed' = Tail(feed))
  PROVE  CoverInv'
<1> SUFFICES ASSUME ~unchecked' PROVE TipInv' /\ BatchInv' /\ OwedInv'
  BY DEF CoverInv
<1>1. FeedBetween(parent, net, feed)
  BY DEF CoverInv, TipInv
<1>2. /\ parent' = 0 /\ state' = None /\ request' = None
      /\ ~can_sequence' /\ ~can_propose'
  BY DEF Abort
<1>3. /\ parent \in Nat /\ net \in Nat /\ feed \in Seq(FeedBlock)
  BY DEF TypeOK
<1>4. FeedBetween(0, net', feed')
  <2>1. CASE feed = <<>> /\ feed' = <<>>
    BY <2>1, FeedEmpty
  <2>2. CASE feed' = feed /\ net <= net'
    BY <1>1, <1>3, <2>2, FeedWider
  <2>3. CASE feed # <<>> /\ feed' = Tail(feed) /\ net <= net'
    <3>1. /\ Head(feed).number \in Nat /\ Tail(feed) \in Seq(FeedBlock)
          /\ FeedBetween(Head(feed).number, net, Tail(feed))
      BY <1>1, <1>3, <2>3, FeedNext
    <3>2. 0 <= Head(feed).number
      BY <3>1
    <3> QED
      BY <1>3, <2>3, <3>1, <3>2, FeedWider
  <2> QED
    BY <2>1, <2>2, <2>3
<1>5. TipInv'
  BY <1>2, <1>4 DEF TipInv, OnTip
<1> QED
  BY <1>2, <1>5 DEF BatchInv, OwedInv

LEMMA SendBatchCheckedQuiet ==
  ASSUME TypeOK, SendBatchChecked
  PROVE  SameState /\ (SameBatch \/ SentBatch)
<1>1. CASE state # None /\ state' = [state EXCEPT !.seal = TRUE]
           /\ UNCHANGED outVars
  <2>1. state \in SortData
    BY <1>1 DEF TypeOK
  <2>2. state'.block = state.block
    BY <1>1, <2>1 DEF SortData
  <2> QED
    BY <1>1, <2>2 DEF outVars, SameState, SameBatch
<1>2. CASE state = None /\ SendBatch(request, unsent) /\ UNCHANGED state
  BY <1>2 DEF SendBatch, SameState, SentBatch
<1> QED
  BY <1>1, <1>2 DEF SendBatchChecked

LEMMA HandleSimsSameState == ASSUME TypeOK, HandleSims PROVE SameState
<1>1. CASE state # None /\ (\/ state' = [state EXCEPT !.seal = TRUE]
                            \/ state' = [state EXCEPT !.discard = TRUE])
  <2>1. state \in SortData
    BY <1>1 DEF TypeOK
  <2>2. state'.block = state.block
    BY <1>1, <2>1 DEF SortData
  <2> QED
    BY <1>1, <2>2 DEF SameState
<1>2. CASE UNCHANGED state
  BY <1>2 DEF SameState
<1> QED
  BY <1>1, <1>2 DEF HandleSims

LEMMA TickSame == ASSUME TypeOK, Tick PROVE SameState /\ SameBatch
<1>1. SameState
  <2>1. CASE state # None
    <3>1. state \in SortData /\ state' = [state EXCEPT !.age = Older(@)]
      BY <2>1 DEF TypeOK, Tick
    <3>2. state'.block = state.block
      BY <3>1 DEF SortData
    <3> QED
      BY <2>1, <3>2 DEF SameState
  <2>2. CASE state = None
    BY <2>2 DEF Tick, SameState
  <2> QED
    BY <2>1, <2>2
<1>2. SameBatch
  <2>1. CASE request # None
    <3>1. request \in Batch /\ request' = [request EXCEPT !.age = Older(@)]
      BY <2>1 DEF TypeOK, Tick
    <3>2. /\ request'.start = request.start
          /\ request'.end = request.end
          /\ request'.len = request.len
      BY <3>1 DEF Batch
    <3>3. request' # None
      BY <2>1, TickEffect
    <3> QED
      BY <2>1, <3>2, <3>3 DEF SameBatch, Tick
  <2>2. CASE request = None
    BY <2>2 DEF Tick, SameBatch
  <2> QED
    BY <2>1, <2>2
<1> QED
  BY <1>1, <1>2

(* The loop reads or waits, and neither builds nor receives.               *)
LEMMA LoopQuiet ==
  ASSUME TypeOK, CoverInv,
         \/ HandleSims \/ CheckCanSequence \/ MaybeRefreshAnchor
         \/ ClearProposal \/ CheckTimeShift \/ StaySync \/ StatusPass
         \/ StatusSkip \/ AnchorFails \/ DiscardBlock \/ KeepSorting
         \/ SealRefused \/ RecvL1 \/ Tick \/ TurnStep \/ ProposalDone
         \/ UNCHANGED vars
  PROVE  CoverInv'
<1>a. ~unchecked /\ can_sequence /\ ~needs_status_check => net <= parent
  BY DEF CoverInv, TipInv, OnTip
<1>b. state' = state => SameState
  BY DEF SameState
<1>c. UNCHANGED <<request, unsent>> => SameBatch
  BY DEF SameBatch
<1>1. CASE HandleSims
  BY <1>1, <1>a, <1>c, HandleSimsSameState, QuietCover
     DEF HandleSims, Quiet, outVars, chainVars, lookVars, envVars
<1>2. CASE CheckCanSequence
  <2>1. Quiet
    BY <1>2, <1>b, <1>c DEF CheckCanSequence, Quiet, outVars, chainVars
  <2>2. can_sequence' /\ ~needs_status_check' =>
          can_sequence /\ ~needs_status_check
    BY <1>2 DEF CheckCanSequence
  <2> QED
    BY <1>a, <2>1, <2>2, QuietCover
<1>3. CASE MaybeRefreshAnchor \/ ClearProposal \/ CheckTimeShift
  <2>1. SameState /\ (SameBatch \/ SentBatch)
    <3>1. SendBatchChecked \/ UNCHANGED <<state, outVars>>
      BY <1>3 DEF MaybeRefreshAnchor, ClearProposal, CheckTimeShift, outVars
    <3> QED
      BY <1>b, <1>c, <3>1, SendBatchCheckedQuiet DEF outVars
  <2>2. UNCHANGED <<parent, lookVars, envVars, unchecked>>
    BY <1>3 DEF MaybeRefreshAnchor, ClearProposal, CheckTimeShift, chainVars
  <2> QED
    BY <1>a, <2>1, <2>2, QuietCover DEF Quiet, chainVars, lookVars, envVars
<1>4. CASE StatusPass
  <2>1. Quiet /\ net <= parent
    BY <1>4, <1>b, <1>c
       DEF StatusPass, StatusOk, Quiet, outVars, chainVars, envVars
  <2> QED
    BY <2>1, QuietCover
<1>5. CASE StaySync \/ StatusSkip \/ AnchorFails \/ KeepSorting
  BY <1>5, <1>a, <1>b, <1>c, QuietCover
     DEF StaySync, StatusSkip, AnchorFails, KeepSorting, Quiet, outVars,
         chainVars, lookVars, envVars
<1>6. CASE DiscardBlock
  <2>1. SameBatch \/ SentBatch
    BY <1>6, <1>c DEF DiscardBlock, SendBatch, SentBatch, outVars
  <2>2. SameState
    BY <1>6 DEF DiscardBlock, SameState
  <2> QED
    BY <1>6, <1>a, <2>1, <2>2, QuietCover
       DEF DiscardBlock, Quiet, chainVars, lookVars, envVars
<1>7. CASE SealRefused
  <2>1. SameState
    BY <1>7 DEF SealRefused, SameState
  <2> QED
    BY <1>7, <1>a, <1>c, <2>1, QuietCover
       DEF SealRefused, Quiet, chainVars, lookVars, envVars
<1>8. CASE RecvL1
  BY <1>8, <1>a, <1>b, <1>c, QuietCover
     DEF RecvL1, Quiet, outVars, lookVars, envVars
<1>9. CASE Tick
  BY <1>9, <1>a, TickSame, QuietCover
     DEF Tick, Quiet, chainVars, lookVars, envVars
<1>10. CASE TurnStep \/ ProposalDone \/ UNCHANGED vars
  BY <1>10, <1>a, <1>b, <1>c, QuietCover
     DEF TurnStep, ProposalDone, Quiet, vars, outVars, chainVars, lookVars,
         envVars
<1> QED
  BY <1>1, <1>2, <1>3, <1>4, <1>5, <1>6, <1>7, <1>8, <1>9, <1>10

(* check_resync: what the open batch does not hold, the Resync covers.     *)
LEMMA TakeoverCover ==
  ASSUME TypeOK, CoverInv, CheckCanPropose PROVE CoverInv'
<1> SUFFICES ASSUME ~unchecked' PROVE TipInv' /\ BatchInv' /\ OwedInv'
  BY DEF CoverInv
<1>1. /\ UNCHANGED <<state, request, parent, net, feed, can_sequence,
                     needs_status_check, unchecked>>
  BY DEF CheckCanPropose, chainVars, envVars
<1>2. ~unchecked /\ TipInv /\ BatchInv /\ OwedInv
  BY <1>1 DEF CoverInv
<1>3. TipInv' /\ BatchInv'
  BY <1>1, <1>2 DEF TipInv, BatchInv, OnTip
<1>4. OwedInv'
  <2>1. PICK o \in 0 .. net :
          unsent' = IF can_propose' /\ ~can_propose
                    THEN (o + 1 .. parent) \ (o + 1 .. ResyncTarget)
                    ELSE unsent
    BY DEF CheckCanPropose
  <2>2. CASE can_propose' /\ ~can_propose
    <3>1. parent \in Nat /\ o \in Nat
      BY DEF TypeOK
    <3>2. CASE request = None
      BY <2>1, <2>2, <3>2 DEF ResyncTarget, OwedInv
    <3>3. CASE request # None
      <4>1. /\ request.start \in Nat /\ request.end = parent
            /\ ResyncTarget = request.start - 1
            /\ Blocks(request) = request.start .. request.end
        BY <1>2, <3>3 DEF BatchInv, TypeOK, Batch, ResyncTarget, Blocks
      <4>2. \A b \in unsent' : b \in Blocks(request)
        BY <2>1, <2>2, <3>1, <4>1
      <4> QED
        BY <1>1, <4>2 DEF OwedInv
    <3> QED
      BY <3>2, <3>3
  <2>3. CASE ~(can_propose' /\ ~can_propose)
    BY <1>1, <1>2, <2>1, <2>3 DEF OwedInv
  <2> QED
    BY <2>2, <2>3
<1> QED
  BY <1>3, <1>4

(* A sealed block is the next one of the batch, and the network's tip.     *)
LEMMA SealCover ==
  ASSUME TypeOK, TypeOK', CoverInv, SealBlock PROVE CoverInv'
<1> SUFFICES ASSUME ~unchecked' PROVE TipInv' /\ BatchInv' /\ OwedInv'
  BY DEF CoverInv
<1>1. /\ ~unchecked /\ TipInv /\ BatchInv /\ OwedInv
  BY DEF SealBlock, CoverInv
<1>2. /\ state # None /\ state' = None /\ state.block \in Nat
      /\ net' = state.block /\ feed' = feed
      /\ can_propose' = can_propose
  BY DEF SealBlock, MaySeal, TypeOK, SortData, lookVars
<1>3. parent \in Nat /\ net \in Nat /\ feed \in Seq(FeedBlock)
  BY DEF TypeOK
<1>4. /\ net <= parent /\ net < state.block /\ FeedBetween(parent, net, feed)
  BY <1>1, <1>2 DEF TipInv, OnTip
<1>5. feed = <<>> /\ parent < state.block
  <2>1. feed = <<>>
    BY <1>3, <1>4, FeedNone
  <2>2. parent <= net
    BY <1>4 DEF FeedBetween
  <2> QED
    BY <1>2, <1>3, <1>4, <2>1, <2>2
<1>6. parent' = state.block
  <2>1. ~(state.block < parent)
    BY <1>2, <1>3, <1>5
  <2> QED
    BY <2>1 DEF SealBlock
<1>7. TipInv'
  <2>1. FeedBetween(parent', net', feed')
    BY <1>2, <1>5, <1>6, FeedEmpty
  <2>2. net' <= parent'
    BY <1>2, <1>6
  <2> QED
    BY <1>2, <2>1, <2>2 DEF TipInv
<1>8. PICK size \in BlockSizes :
        \/ SendBatch(ExtendedBatch(size),
                     {b \in unsent : b < state.block} \cup {state.block})
        \/ KeepBatch(ExtendedBatch(size),
                     {b \in unsent : b < state.block} \cup {state.block})
  BY DEF SealBlock
<1> DEFINE r == ExtendedBatch(size)
           owed == {b \in unsent : b < state.block} \cup {state.block}
<1>9. /\ r \in Batch /\ r # None
      /\ r.end = state.block
      /\ r.start = IF request = None THEN state.block ELSE request.start
      /\ r.len = IF request = None THEN 1 ELSE request.len + 1
  BY <1>2, ExtendedBatchType, NoneAssumption DEF ExtendedBatch
<1> HIDE DEF r
<1>10. r.len = r.end - r.start + 1
  <2>1. CASE request = None
    BY <1>2, <1>9, <2>1
  <2>2. CASE request # None
    <3>1. /\ request.len = request.end - request.start + 1
          /\ request.end = parent /\ state.block = parent + 1
      BY <1>1, <1>2, <2>2 DEF BatchInv
    <3>2. request.start \in Nat
      BY <2>2 DEF TypeOK, Batch
    <3> QED
      BY <1>2, <1>3, <1>9, <2>2, <3>1, <3>2
  <2> QED
    BY <2>1, <2>2
<1>11. can_propose => owed \subseteq Blocks(r)
  <2> SUFFICES ASSUME can_propose, NEW b \in owed PROVE b \in Blocks(r)
    OBVIOUS
  <2>1. Blocks(r) = r.start .. state.block
    BY <1>9 DEF Blocks
  <2>2. unsent \subseteq Blocks(request)
    BY <1>1 DEF OwedInv
  <2>3. CASE request = None
    <3>1. b = state.block
      BY <2>2, <2>3 DEF Blocks
    <3> QED
      BY <1>2, <1>9, <2>1, <2>3, <3>1
  <2>4. CASE request # None
    <3>1. /\ request.end = parent /\ state.block = parent + 1
          /\ Blocks(request) = request.start .. request.end
          /\ request.start \in Nat /\ r.start = request.start
      BY <1>1, <1>2, <1>9, <2>4 DEF BatchInv, Blocks, TypeOK, Batch
    <3>2. b = state.block \/ b \in request.start .. parent
      BY <2>2, <3>1
    <3>3. request.start <= state.block
      <4>1. request.len \in Nat
            /\ request.len = request.end - request.start + 1
        BY <1>1, <2>4 DEF BatchInv, TypeOK, Batch
      <4> QED
        BY <1>3, <3>1, <4>1
    <3> QED
      BY <1>2, <1>3, <2>1, <3>1, <3>2, <3>3
  <2> QED
    BY <2>3, <2>4
<1>12. CASE SendBatch(r, owed)
  <2>1. request' = None /\ unsent' = owed \ Blocks(r)
    BY <1>12 DEF SendBatch
  <2>2. OwedInv'
    BY <1>2, <1>11, <2>1 DEF OwedInv
  <2> QED
    BY <1>7, <2>1, <2>2 DEF BatchInv
<1>13. CASE KeepBatch(r, owed)
  <2>1. request' = r /\ unsent' = owed
    BY <1>13 DEF KeepBatch
  <2>2. OwedInv'
    BY <1>2, <1>11, <2>1 DEF OwedInv
  <2>3. BatchInv'
    BY <1>2, <1>6, <1>9, <1>10, <2>1 DEF BatchInv
  <2> QED
    BY <1>7, <2>2, <2>3
<1> QED
  BY <1>8, <1>12, <1>13 DEF r

(* A block of another gateway arrives only when nothing of ours depends on *)
(* the parent it replaces.                                                 *)
LEMMA ReceiveCover ==
  ASSUME TypeOK, CoverInv, RecvL2 PROVE CoverInv'
<1> DEFINE n == Head(feed).number
<1>1. /\ feed # <<>> /\ feed' = Tail(feed) /\ UNCHANGED <<net, unchecked>>
      /\ feed \in Seq(FeedBlock) /\ parent \in Nat /\ net \in Nat
  BY DEF RecvL2, AdoptBlock, IgnoreBlock, TypeOK
<1>2. CASE Abort("starting")
  BY <1>1, <1>2, AbortCover
<1>3. CASE ~Abort("starting")
  <2> SUFFICES ASSUME ~unchecked' PROVE TipInv' /\ BatchInv' /\ OwedInv'
    BY DEF CoverInv
  <2>1. ~unchecked /\ TipInv /\ BatchInv /\ OwedInv
    BY <1>1 DEF CoverInv
  <2>2. /\ n \in Nat /\ parent < n /\ n <= net /\ FeedBetween(n, net, feed')
    BY <1>1, <2>1, FeedNext DEF TipInv
  <2> HIDE DEF n
  <2>3. ~OnTip
    <3>1. ~(net <= parent)
      BY <1>1, <2>2
    <3> QED
      BY <2>1, <3>1 DEF TipInv
  <2>4. AdoptBlock(n, Head(feed).anchor)
    <3>1. ~(n < parent)
      BY <1>1, <2>2
    <3> QED
      BY <3>1 DEF RecvL2, IgnoreBlock, n
  <2>5. /\ parent' = n
        /\ UNCHANGED <<state, request, lookVars>>
        /\ unsent' = unsent
    <3>1. ~(n <= parent)
      BY <1>1, <2>2
    <3> QED
      BY <1>3, <2>4, <3>1 DEF AdoptBlock
  <2>6. ~OnTip' /\ state' = None /\ request' = None
    BY <2>3, <2>5 DEF OnTip, lookVars
  <2>7. TipInv'
    BY <1>1, <2>2, <2>5, <2>6 DEF TipInv
  <2> QED
    BY <2>1, <2>5, <2>6, <2>7 DEF BatchInv, OwedInv, Blocks, lookVars
<1> QED
  BY <1>2, <1>3

(* A reorg of the node's takes the parent to its new tip, or the process   *)
(* with it.                                                                *)
LEMMA ReorgCover ==
  ASSUME TypeOK, CoverInv, RecvReorg PROVE CoverInv'
<1>1. PICK n \in 1 .. parent, a \in 1 .. MaxL1 :
        AdoptBlock(n, a) /\ net' = n
  BY DEF RecvReorg
<1>2. /\ feed = <<>> /\ feed' = <<>> /\ unchecked' = unchecked
      /\ parent \in Nat /\ n \in Nat /\ n <= parent /\ net \in Nat
  BY <1>1 DEF RecvReorg, AdoptBlock, TypeOK
<1>3. CASE Abort("starting")
  BY <1>1, <1>2, <1>3, AbortCover
<1>4. CASE ~Abort("starting")
  <2> SUFFICES ASSUME ~unchecked' PROVE TipInv' /\ BatchInv' /\ OwedInv'
    BY DEF CoverInv
  <2>1. ~unchecked /\ TipInv /\ BatchInv /\ OwedInv
    BY <1>2 DEF CoverInv
  <2>2. /\ parent' = n /\ ~BreaksBatch(n)
        /\ UNCHANGED <<state, request, lookVars>>
        /\ unsent' = {b \in unsent : b < n}
    BY <1>1, <1>2, <1>4 DEF AdoptBlock
  <2>3. request = None
    <3>1. request # None => request.end = parent
      BY <2>1 DEF BatchInv
    <3> QED
      BY <1>2, <2>2, <3>1 DEF BreaksBatch
  <2>4. FeedBetween(n, n, feed')
    <3>1. n <= n
      BY <1>2
    <3> QED
      BY <1>2, <3>1, FeedEmpty
  <2>5. state # None => n < state.block
    <3> SUFFICES ASSUME state # None PROVE n < state.block
      OBVIOUS
    <3>1. /\ net < state.block /\ net <= parent /\ parent <= net
          /\ state.block \in Nat
      BY <2>1 DEF TipInv, OnTip, FeedBetween, TypeOK, SortData
    <3> QED
      BY <1>2, <3>1
  <2>6. TipInv'
    <3>1. net' <= parent'
      BY <1>1, <1>2, <2>2
    <3> QED
      BY <1>1, <2>2, <2>4, <2>5, <3>1 DEF TipInv
  <2> QED
    BY <2>1, <2>2, <2>3, <2>6 DEF BatchInv, OwedInv, Blocks, lookVars
<1> QED
  BY <1>3, <1>4

LEMMA CoverStep ==
  TypeOK /\ TypeOK' /\ TurnInv /\ CoverInv /\ [Next]_vars => CoverInv'
<1> SUFFICES ASSUME TypeOK, TypeOK', TurnInv, CoverInv, [Next]_vars
             PROVE  CoverInv'
  OBVIOUS
<1>a. parent \in Nat /\ net \in Nat /\ feed \in Seq(FeedBlock)
  BY DEF TypeOK
<1>1. CASE Startup
  <2>1. /\ state = None /\ request = None /\ ~can_sequence /\ ~can_propose
        /\ UNCHANGED <<state, request, lookVars>>
        /\ parent' = net /\ net' = net /\ feed' = <<>>
    BY <1>1 DEF Startup, TurnInv, DownIsEmpty
  <2>2. ~OnTip' /\ ~can_propose' /\ state' = None /\ request' = None
    BY <2>1 DEF OnTip, lookVars
  <2>3. FeedBetween(parent', net', feed')
    <3>1. net <= net
      BY <1>a
    <3> QED
      BY <1>a, <2>1, <3>1, FeedEmpty
  <2> QED
    BY <2>2, <2>3 DEF CoverInv, TipInv, BatchInv, OwedInv
<1>2. CASE CheckCanPropose
  BY <1>2, TakeoverCover
<1>3. CASE AnchorBlock
  <2> SUFFICES ASSUME ~unchecked' PROVE TipInv' /\ BatchInv' /\ OwedInv'
    BY DEF CoverInv
  <2>1. /\ ~unchecked /\ ~(needs_status_check /\ parent < net)
        /\ state = None /\ state' = StartBlock
        /\ UNCHANGED <<request, unsent, parent, net, feed, lookVars>>
    BY <1>3 DEF AnchorBlock, outVars, chainVars, envVars
  <2>2. TipInv /\ BatchInv /\ OwedInv
    BY <2>1 DEF CoverInv
  <2>3. can_sequence
    BY <1>3 DEF AnchorBlock, Goto, TurnInv
  <2>4. net <= parent
    <3>1. CASE needs_status_check
      BY <1>a, <2>1, <3>1
    <3>2. CASE ~needs_status_check
      BY <2>2, <2>3, <3>2 DEF TipInv, OnTip
    <3> QED
      BY <3>1, <3>2
  <2>5. state'.block = parent + 1 /\ net < parent + 1
    BY <1>a, <2>1, <2>4 DEF StartBlock
  <2>6. TipInv'
    BY <2>1, <2>2, <2>4, <2>5 DEF TipInv
  <2>7. BatchInv' /\ OwedInv'
    BY <2>1, <2>2, <2>5 DEF BatchInv, OwedInv, Blocks, lookVars
  <2> QED
    BY <2>6, <2>7
<1>4. CASE SealBlock
  BY <1>4, SealCover
<1>5. CASE SealPanics
  <2>1. PICK to : Abort(to)
    BY <1>5 DEF SealPanics
  <2>2. /\ net' = state.block /\ feed' = feed /\ unchecked' = unchecked
        /\ state # None /\ net' \in Nat
    BY <1>5 DEF SealPanics, MaySeal, TypeOK
  <2>3. CASE unchecked
    BY <2>2, <2>3 DEF CoverInv
  <2>4. CASE ~unchecked
    <3>1. net < state.block
      BY <2>2, <2>4 DEF CoverInv, TipInv
    <3>2. net <= net'
      BY <1>a, <2>2, <3>1
    <3> QED
      BY <2>1, <2>2, <3>2, AbortCover
  <2> QED
    BY <2>3, <2>4
<1>6. CASE Crash
  <2>1. net <= net' /\ net' \in Nat
    BY <1>6, <1>a DEF Crash, envVars
  <2> QED
    BY <1>6, <2>1, AbortCover DEF Crash, envVars
<1>7. CASE RecvL2
  BY <1>7, ReceiveCover
<1>8. CASE RecvReorg
  BY <1>8, ReorgCover
<1>9. CASE PeerBlock
  <2> SUFFICES ASSUME ~unchecked' PROVE TipInv' /\ BatchInv' /\ OwedInv'
    BY DEF CoverInv
  <2>1. /\ UNCHANGED <<state, request, unsent, parent, lookVars, unchecked>>
        /\ net' = net + 1 /\ PeersActive(turn)
        /\ feed' = Append(feed, [number |-> net', anchor |-> net_anchor'])
    BY <1>9 DEF PeerBlock, outVars, chainVars
  <2>2. TipInv /\ BatchInv /\ OwedInv
    BY <2>1 DEF CoverInv
  <2>3. state = None /\ request = None /\ ~OnTip
    BY <2>1 DEF TurnInv, OnTip
  <2>4. FeedBetween(parent, net', feed')
    <3> DEFINE b == [number |-> net', anchor |-> net_anchor']
    <3>1. b \in FeedBlock /\ b.number = net + 1
      BY <1>9, <2>1 DEF TypeOK, FeedBlock
    <3> HIDE DEF b
    <3>2. FeedBetween(parent, net + 1, Append(feed, b))
      BY <1>a, <2>2, <3>1, FeedGrows DEF TipInv
    <3> QED
      BY <2>1, <3>2 DEF b
  <2>5. ~OnTip'
    BY <2>1, <2>3 DEF OnTip, lookVars
  <2> QED
    BY <2>1, <2>2, <2>3, <2>4, <2>5
       DEF TipInv, BatchInv, OwedInv, Blocks, lookVars
<1>10. CASE FeedLoses
  <2> SUFFICES ASSUME ~unchecked' PROVE TipInv' /\ BatchInv' /\ OwedInv'
    BY DEF CoverInv
  <2>1. /\ UNCHANGED <<state, request, unsent, parent, net, lookVars,
                       unchecked>>
        /\ feed # <<>> /\ feed' = Tail(feed)
    BY <1>10 DEF FeedLoses, outVars, chainVars
  <2>2. TipInv /\ BatchInv /\ OwedInv
    BY <2>1 DEF CoverInv
  <2>3. FeedBetween(parent, net, feed')
    <3>1. /\ Head(feed).number \in Nat /\ Tail(feed) \in Seq(FeedBlock)
          /\ parent < Head(feed).number
          /\ FeedBetween(Head(feed).number, net, Tail(feed))
      BY <1>a, <2>1, <2>2, FeedNext DEF TipInv
    <3>2. parent <= Head(feed).number /\ net <= net
      BY <1>a, <3>1
    <3> QED
      BY <1>a, <2>1, <3>1, <3>2, FeedWider
  <2> QED
    BY <2>1, <2>2, <2>3 DEF TipInv, OnTip, BatchInv, OwedInv, Blocks, lookVars
<1> QED
  BY <1>1, <1>2, <1>3, <1>4, <1>5, <1>6, <1>7, <1>8, <1>9, <1>10, LoopQuiet
     DEF Next, LoopStep, Receive, Environment

LEMMA CoverInit == Init => TurnInv /\ CoverInv
<1> SUFFICES ASSUME Init PROVE TurnInv /\ CoverInv
  OBVIOUS
<1>1. TurnInv
  BY DEF Init, TurnInv, DownIsEmpty
<1>2. FeedBetween(0, 0, <<>>)
  BY FeedEmpty
<1>3. CoverInv
  BY <1>2 DEF Init, CoverInv, TipInv, OnTip, BatchInv, OwedInv
<1> QED
  BY <1>1, <1>3

(* The blocks of the open batch are consecutive and end at the parent,     *)
(* over reorgs, lost and late blocks of other gateways, failed seals and   *)
(* restarts: no foreign block lands between two of ours, if the first      *)
(* block of the turn was built on the network's tip.                       *)
THEOREM BatchesContiguous == Spec => []BatchContiguous
<1>1. TypeOK /\ TurnInv /\ CoverInv => BatchContiguous
  BY DEF CoverInv, BatchInv, BatchContiguous
<1> QED
  BY <1>1, CoverInit, TurnInvStep, CoverStep, TypeCorrect, PTL DEF Spec

(* While this gateway may propose, what it owes L1 is in the open batch or *)
(* was handed over: the Resync of check_resync and the open batch meet     *)
(* without a gap at every takeover.                                        *)
THEOREM TakeoversCovered == Spec => []TakeoverCovered
<1>1. CoverInv => TakeoverCovered
  BY DEF CoverInv, OwedInv, TakeoverCovered
<1> QED
  BY <1>1, CoverInit, TurnInvStep, CoverStep, TypeCorrect, PTL DEF Spec

LEMMA OnTipStep ==
  TypeOK /\ TurnInv /\ CoverInv /\ [Next]_vars =>
    [Anchors /\ ~needs_status_check /\ ~unchecked => parent >= net]_vars
<1> SUFFICES ASSUME TypeOK, TurnInv, CoverInv, Next, Anchors,
                    ~needs_status_check, ~unchecked
             PROVE  parent >= net
  BY DEF vars
<1>1. AnchorBlock
  BY OnlyAnchorBlockStarts
<1>2. can_sequence
  BY <1>1 DEF AnchorBlock, Goto, TurnInv
<1>3. net <= parent /\ net \in Nat /\ parent \in Nat
  BY <1>2 DEF CoverInv, TipInv, OnTip, TypeOK
<1> QED
  BY <1>3

(* Once a status check has passed in the current turn, no block is built   *)
(* behind the network's tip, although the check is not repeated and its    *)
(* flag outlives the turn it was made in.                                  *)
THEOREM BlocksBuildOnTip == Spec => BuildsOnTip
BY CoverInit, TurnInvStep, CoverStep, OnTipStep, TypeCorrect, PTL
   DEF Spec, BuildsOnTip

=============================================================================
