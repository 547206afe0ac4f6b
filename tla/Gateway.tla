------------------------------ MODULE Gateway ------------------------------
(***************************************************************************)
(* A gateway from the block it seals to the block that L1 knows: the       *)
(* proposer as module Proposer has it, and in front of it what module      *)
(* Sequencer says of the open batch, of the turns and of the Resync that   *)
(* check_resync asks for (crates/sequencer/src/sequencer.rs).  The two     *)
(* share the queue of requests, the delay flag and the process: one panics *)
(* and both start again.                                                   *)
(*                                                                         *)
(* Module Proposer takes any request at any time; here the requests are    *)
(* those the sequencer makes.  Whatever can go wrong from outside is a     *)
(* fault, and there may be MaxFaults of them.  L1 reorgs are left to       *)
(* module Proposer.  Anchors only grow here (Upward): with an anchor below *)
(* the parent's, which Proposer allows, a Resync of the two blocks is      *)
(* proposed in the wrong order, skipped as if it were on L1 already, and   *)
(* made again the same way by every later one.                             *)
(***************************************************************************)
EXTENDS Proposer, Turns

CONSTANT MaxFaults    (* bound: faults                                     *)

ASSUME FaultAssumption == MaxFaults \in Nat

VARIABLES
  open,               (* proposer_request: its first block, or None        *)
  can_propose,        (* flags.can_propose                                 *)
  turn,               (* what the lookahead says of this operator          *)
  faults              (* how much has gone wrong                           *)

proposerVars == <<jobVars, batchVars, flagVars, owed>>
sequencerVars == <<open, can_propose>>
gatewayVars == <<vars, sequencerVars, turn, faults>>

GatewayInit ==
  /\ Init
  /\ open = None /\ can_propose = TRUE /\ turn = "current" /\ faults = 0

Fault == faults < MaxFaults /\ faults' = faults + 1

(* The process starts again, and with it the sequencer.                    *)
Reset == open' = None /\ can_propose' = FALSE

-----------------------------------------------------------------------------
(* The sequencer.  A sealed block joins the open batch, of its own anchor, *)
(* or begins one; a batch is handed over when the anchor changes, the turn *)
(* ends or its time shift grows, with nothing else known of it here but    *)
(* that the anchor is too old before there are MaxPerBatch blocks.         *)
Upward == AnchorsGrow(DOMAIN blocks)'

Seal ==
  /\ MaySequence(turn) /\ ~delayed
  /\ \E anchor \in Anchors :
       /\ open # None => /\ anchor = blocks[open].anchor
                         /\ Len(blocks) - open + 1 < MaxPerBatch
       /\ NewBlocks(1, anchor) /\ Upward
  /\ open' = IF open = None THEN Len(blocks) + 1 ELSE open
  /\ UNCHANGED <<proposerVars, l1Vars, can_propose, turn, faults>>

HandOver ==
  /\ open # None /\ Len(queue) < MaxQueue
  /\ LET k == Len(blocks) - open + 1
     IN  queue' = Append(queue, [resync |-> FALSE, start |-> open,
                                 end |-> Len(blocks), n |-> k])
  /\ owed' = owed \cup open .. Len(blocks)
  /\ live_pending' = live_pending + 1
  /\ open' = None
  /\ UNCHANGED <<job, groups, rest, excused, batchVars, delayed, checks, l1Vars,
                 blocks, can_propose, turn, faults>>

(* check_can_propose; the rising edge asks for a Resync from the L2 origin *)
(* last polled up to the open batch, whatever is queued already.           *)
Faulty_ResyncTarget == IF open = None THEN Len(blocks) - 1 ELSE open - 1
ResyncTarget == IF open = None THEN Len(blocks) ELSE open - 1

Faulty_CheckResync(origin) == UNCHANGED <<queue, owed>>
CheckResync(origin) ==
  IF origin < ResyncTarget
  THEN /\ Len(queue) < MaxQueue
       /\ queue' = Append(queue, [resync |-> TRUE, start |-> origin + 1,
                                  end |-> ResyncTarget, n |-> 0])
       /\ owed' = owed \cup origin + 1 .. ResyncTarget
  ELSE UNCHANGED <<queue, owed>>

CheckCanPropose ==
  /\ can_propose # MayPropose(turn)
  /\ can_propose' = MayPropose(turn)
  /\ \/ ~can_propose' /\ UNCHANGED <<queue, owed, faults>>
     \/ can_propose' /\ CheckResync(inbox) /\ UNCHANGED faults
     \/ can_propose' /\ Fault /\ \E old \in 0 .. inbox - 1 : CheckResync(old)
  /\ UNCHANGED <<job, groups, rest, excused, batchVars, flagVars, l1Vars, blocks,
                 open, turn>>

-----------------------------------------------------------------------------
(* The proposer.  An error that is the contracts' answer to this batch is  *)
(* no fault.                                                               *)
Refused == pc = "send" /\ ~Accepts(batch)

Propose ==
  /\ \/ RecvBatch
     \/ RecvResync
     \/ NextGroup
     \/ NextInGroup
     \/ GetNonce
     \/ GasEstimationGivesUp
     \/ SendAgain
     \/ Sent
     \/ NotIncluded
     \/ Proposed
     \/ Reverted
     \/ ReorgCheckPasses
     \/ EndResync /\ job' = None
     \/ Refused /\ RpcError
  /\ UNCHANGED <<sequencerVars, turn, faults>>

RefusedOnceMore ==
  /\ Refused \/ (pc = "wait" /\ Landed(FALSE))
  /\ LastRetryFails /\ Reset
  /\ UNCHANGED <<turn, faults>>

ProposerFault ==
  /\ RpcError \/ (EndResync /\ job' # None)
  /\ Fault
  /\ UNCHANGED <<sequencerVars, turn>>

ProcessFault ==
  /\ LastRetryFails \/ Crash
  /\ Reset /\ Fault
  /\ UNCHANGED turn

-----------------------------------------------------------------------------
(* L1 and the other gateways.                                              *)
Landing(ok) == Include /\ Last(included').ok = ok

Lands == Landing(TRUE) /\ UNCHANGED <<sequencerVars, turn, faults>>

Reverts == Landing(FALSE) /\ Fault /\ UNCHANGED <<sequencerVars, turn>>

(* Another operator proposes what was there when it last took over.        *)
PeerLands ==
  /\ PeerProposes
  /\ open # None => inbox' < open
  /\ UNCHANGED <<sequencerVars, turn, faults>>

PeerBlock ==
  /\ PeersActive(turn) /\ open = None
  /\ OtherBlock /\ Upward
  /\ UNCHANGED <<sequencerVars, turn, faults>>

(* The phases in their order.  The router follows the lookahead at once,   *)
(* the flag when it is read.  A turn that is long enough lets the proposer *)
(* finish; one that is not is a fault, and so is a failed poll.            *)
NextPhase ==
  [t \in Turns |->
     CASE t = "off" -> "next"
       [] t = "next" -> "current"
       [] t = "current" -> "clearing"
       [] t = "clearing" -> "handed"
       [] t = "handed" -> "off"
       [] t = "disabled" -> "current"]

LongEnough ==
  /\ can_propose = MayPropose(turn)
  /\ turn = "handed" => Idle /\ queue = <<>>

TurnStep ==
  /\ \/ turn' = NextPhase[turn] /\ LongEnough /\ UNCHANGED faults
     \/ turn' = NextPhase[turn] /\ Fault
     \/ turn = "current" /\ turn' = "disabled" /\ Fault
  /\ PeersActive(turn') => open = None
  /\ my_turn' = (turn' \in {"current", "clearing", "handed", "disabled"})
  /\ UNCHANGED <<proposerVars, inbox, nonce, pool, included, l1_reorged,
                 blocks, sequencerVars>>

GatewayNext ==
  \/ Seal
  \/ HandOver
  \/ CheckCanPropose
  \/ Propose
  \/ RefusedOnceMore
  \/ ProposerFault
  \/ ProcessFault
  \/ Lands
  \/ Reverts
  \/ PeerLands
  \/ PeerBlock
  \/ TurnStep

GatewaySpec == GatewayInit /\ [][GatewayNext]_gatewayVars

(* The tasks run and their calls return; L1 includes what it accepts; the  *)
(* clock moves on.  A batch whose timestamp L1 has not reached, or whose   *)
(* fees are too low, is sent in the end (see module Account).              *)
FairSpec ==
  /\ GatewaySpec
  /\ WF_gatewayVars(HandOver)
  /\ WF_gatewayVars(CheckCanPropose)
  /\ WF_gatewayVars(Propose)
  /\ WF_gatewayVars(RefusedOnceMore)
  /\ SF_gatewayVars(Propose /\ Sent)
  /\ WF_gatewayVars(Lands)
  /\ WF_gatewayVars(TurnStep)

-----------------------------------------------------------------------------
(* As long as nothing went wrong, a proposer that is idle in its turn has  *)
(* landed every block there is, its own and those it found: although the   *)
(* Resync ends before the open batch and covers what is queued already     *)
(* (sequencer.rs:482), although other operators land some of it meanwhile, *)
(* and although a batch whose last block is behind what L1 expects is      *)
(* skipped whole (manager.rs:473).                                         *)
NothingStranded ==
  /\ faults = 0
  /\ MayPropose(turn) /\ ~PeersActive(turn) /\ can_propose
  /\ Idle /\ queue = <<>> /\ open = None
  => inbox = Len(blocks)

(* The gateway keeps the promise: blocks land in their order and, once     *)
(* faults cease, whatever they were and whenever they came, every block    *)
(* lands: what a crash, a skipped or a refused batch or a short turn left  *)
(* behind is proposed by a later Resync.                                   *)
Promise == INSTANCE Rollup WITH tip <- Len(blocks), inbox <- inbox

BlocksLand == Promise!FairSpec

=============================================================================
