------------------------------ MODULE Lookahead ------------------------------
(***************************************************************************)
(* The operator lookahead (crates/common/src/taiko/lookahead.rs) of every  *)
(* gateway, over one clock (crates/common/src/beacon.rs) and one L1: three *)
(* background tasks of each process poll the L1 contracts, and its         *)
(* LookaheadHandle tells the sequencer from what they stored, and from the *)
(* clock, whether the operator may sequence, propose and has to clear.     *)
(*                                                                         *)
(* No gateway talks to another here: that no two of them sequence at once  *)
(* rests on each of them reading the same whitelist at another moment.     *)
(* The contracts are environment: the whitelist answers with the operator  *)
(* of the epoch of the latest L1 block, which may lag behind the clock.    *)
(***************************************************************************)
EXTENDS Integers, Turns

CONSTANTS
  Operators,          (* the gateways, named by their operator address     *)
  Zero,               (* Address::ZERO: no operator                        *)
  SlotTime,           (* seconds_per_slot, in clock units; polls wake up   *)
                      (* twice per slot                                    *)
  SlotsPerEpoch,      (* slots_per_epoch                                   *)
  FirstUpdate,        (* 2: the lookahead is updated after this slot       *)
  Buffer,             (* handover_start_buffer_ms, in clock units          *)
  DefaultWindow,      (* handover_window_slots of the configuration        *)
  Windows,            (* values the router's handOverSlots can have        *)
  MaxMissed,          (* most consecutive slots without an L1 block        *)
  FirstEpoch,         (* the epoch in which the behaviour begins           *)
  MaxTime             (* bound: the clock, from there                      *)

ASSUME ZeroAssumption == Zero \notin Operators
ASSUME ClockAssumption ==
  /\ {SlotTime, SlotsPerEpoch, FirstEpoch} \subseteq Nat \ {0}
  /\ {FirstUpdate, Buffer, MaxMissed, MaxTime} \subseteq Nat
(* As many slots as an epoch is old at an update are not missed in a row.  *)
ASSUME MissedAssumption == MaxMissed <= FirstUpdate
(* The first update of an epoch comes before the handover window, and the  *)
(* handover buffer ends within it, not only with it.                       *)
ASSUME WindowAssumption ==
  \A w \in Windows \cup {DefaultWindow} :
    /\ w \in Nat /\ FirstUpdate + 1 < SlotsPerEpoch - w
    /\ Buffer + 1 < w * SlotTime

VARIABLES
  now,                (* the clock, utcnow_sec() - genesis_time_sec        *)
  block_slot,         (* slot of the latest L1 block                       *)
  operator_of         (* the whitelist: operator of each epoch             *)

VARIABLES             (* of each gateway                                   *)
  task,               (* where its lookahead task is                       *)
  read_epoch,         (* current_epoch, as this poll read it (0: no poll)  *)
  current_operator,   (* the first answer of this poll                     *)
  lookahead,          (* the shared Lookahead                              *)
  last,               (* LookaheadHandle.last, the copy the loop uses      *)
  preconfs_enabled,   (* the flag of the wrapper poll                      *)
  handover_window,    (* handover_window_slots, the value of the router    *)
  fetched             (* the router was asked in this epoch                *)

l1Vars == <<block_slot, operator_of>>
pollVars == <<task, read_epoch, current_operator>>
flagVars == <<preconfs_enabled, handover_window, fetched>>
vars == <<now, l1Vars, pollVars, lookahead, last, flagVars>>

-----------------------------------------------------------------------------
(* BeaconHandle.                                                           *)
SlotAt(t) == t \div SlotTime
EpochOf(slot) == slot \div SlotsPerEpoch
EpochStart(epoch) == epoch * SlotsPerEpoch
TimeOfSlot(slot) == slot * SlotTime

current_slot == SlotAt(now)
current_epoch == EpochOf(current_slot)
slot_in_epoch == current_slot % SlotsPerEpoch

Epochs == 0 .. FirstEpoch + EpochOf(SlotAt(MaxTime)) + 1
EndTime == TimeOfSlot(EpochStart(FirstEpoch)) + MaxTime

NoLookahead == [curr |-> Zero, next |-> Zero, updated_epoch |-> 0]

(* Down: no process, or one that still waits for an L1 block of the epoch. *)
(* Boot, ask: before one of the two calls of the whitelist.                *)
Tasks == {"down", "boot_current", "boot_next",
          "sleep", "awake", "ask_current", "ask_next"}
Asking == {"boot_current", "boot_next", "ask_current", "ask_next"}
Up(g) == task[g] \in {"sleep", "awake", "ask_current", "ask_next"}

(* getOperatorForCurrentEpoch and getOperatorForNextEpoch; an empty        *)
(* whitelist reverts with InvalidOperatorCount, which reads as Zero.       *)
CurrentEpochAnswer == operator_of[EpochOf(block_slot)]
NextEpochAnswer == operator_of[EpochOf(block_slot) + 1]

Init ==
  /\ now = TimeOfSlot(EpochStart(FirstEpoch))
  /\ block_slot = current_slot - 1
  /\ operator_of \in [Epochs -> Operators \cup {Zero}]
  /\ \A e \in 0 .. FirstEpoch - 1 : operator_of[e] = Zero
  /\ task = [g \in Operators |-> "down"]
  /\ read_epoch = [g \in Operators |-> 0]
  /\ current_operator = [g \in Operators |-> Zero]
  /\ lookahead = [g \in Operators |-> NoLookahead]
  /\ last = [g \in Operators |-> NoLookahead]
  /\ preconfs_enabled = [g \in Operators |-> FALSE]
  /\ handover_window = [g \in Operators |-> DefaultWindow]
  /\ fetched = [g \in Operators |-> FALSE]

-----------------------------------------------------------------------------
(* The process starts, and waits: "make sure we have at least a block in   *)
(* the current epoch".  It takes one after the first slot of the epoch.    *)
BlockInEpoch == block_slot > EpochStart(current_epoch)

Start(g) ==
  /\ task[g] = "down"
  /\ BlockInEpoch
  /\ task' = [task EXCEPT ![g] = "boot_current"]
  /\ UNCHANGED <<now, l1Vars, read_epoch, current_operator, lookahead, last,
                 flagVars>>

BootCurrent(g) ==
  /\ task[g] = "boot_current"
  /\ task' = [task EXCEPT ![g] = "boot_next"]
  /\ current_operator' = [current_operator EXCEPT ![g] = CurrentEpochAnswer]
  /\ UNCHANGED <<now, l1Vars, read_epoch, lookahead, last, flagVars>>

(* The epoch a lookahead is stamped with.                                  *)
Faulty_Stamp == current_epoch + 1
Stamp == current_epoch

(* The second call may fail ("in the beginning of the epoch this might     *)
(* fail"), for the default address.  The epoch is read after both calls.   *)
BootNext(g) ==
  /\ task[g] = "boot_next"
  /\ task' = [task EXCEPT ![g] = "sleep"]
  /\ \E next \in {NextEpochAnswer, Zero} :
       lookahead' = [lookahead EXCEPT ![g] =
         [curr |-> current_operator[g], next |-> next,
          updated_epoch |-> Stamp]]
  /\ last' = [last EXCEPT ![g] = lookahead'[g]]
  /\ current_operator' = [current_operator EXCEPT ![g] = Zero]
  /\ UNCHANGED <<now, l1Vars, read_epoch, flagVars>>

(* The lookahead task wakes up every half slot and updates "late enough".  *)
Faulty_LateEnough == TRUE
LateEnough == slot_in_epoch > FirstUpdate

SkipUpdate(g) ==
  /\ task[g] = "awake"
  /\ ~LateEnough
  /\ task' = [task EXCEPT ![g] = "sleep"]
  /\ UNCHANGED <<now, l1Vars, read_epoch, current_operator, lookahead, last,
                 flagVars>>

BeginUpdate(g) ==
  /\ task[g] = "awake"
  /\ LateEnough
  /\ task' = [task EXCEPT ![g] = "ask_current"]
  /\ read_epoch' = [read_epoch EXCEPT ![g] = Stamp]
  /\ UNCHANGED <<now, l1Vars, current_operator, lookahead, last, flagVars>>

AskCurrent(g) ==
  /\ task[g] = "ask_current"
  /\ task' = [task EXCEPT ![g] = "ask_next"]
  /\ current_operator' = [current_operator EXCEPT ![g] = CurrentEpochAnswer]
  /\ UNCHANGED <<now, l1Vars, read_epoch, lookahead, last, flagVars>>

(* Stamped with the epoch read before the two calls.                       *)
AskNext(g) ==
  /\ task[g] = "ask_next"
  /\ task' = [task EXCEPT ![g] = "sleep"]
  /\ lookahead' = [lookahead EXCEPT ![g] =
       [curr |-> current_operator[g], next |-> NextEpochAnswer,
        updated_epoch |-> read_epoch[g]]]
  /\ read_epoch' = [read_epoch EXCEPT ![g] = 0]
  /\ current_operator' = [current_operator EXCEPT ![g] = Zero]
  /\ UNCHANGED <<now, l1Vars, last, flagVars>>

(* maybe_refresh, at the first question asked 500 ms after the last one.   *)
MaybeRefresh(g) ==
  /\ Up(g)
  /\ last[g] # lookahead[g]
  /\ last' = [last EXCEPT ![g] = lookahead[g]]
  /\ UNCHANGED <<now, l1Vars, pollVars, lookahead, flagVars>>

(* The wrapper poll stores whether there is a router; an error is a no.    *)
PollWrapper(g) ==
  /\ task[g] # "down"
  /\ preconfs_enabled' = [preconfs_enabled EXCEPT ![g] = ~@]
  /\ UNCHANGED <<now, l1Vars, pollVars, lookahead, last, handover_window,
                 fetched>>

(* The router poll, once per epoch; an error keeps the last value.         *)
PollRouter(g) ==
  /\ task[g] # "down"
  /\ ~fetched[g]
  /\ \E w \in Windows \cup {handover_window[g]} :
       handover_window' = [handover_window EXCEPT ![g] = w]
  /\ fetched' = [fetched EXCEPT ![g] = TRUE]
  /\ UNCHANGED <<now, l1Vars, pollVars, lookahead, last, preconfs_enabled>>

(* The process stops: in particular when a call of the whitelist fails,    *)
(* which panics.                                                           *)
Crash(g) ==
  /\ task[g] # "down"
  /\ task' = [task EXCEPT ![g] = "down"]
  /\ read_epoch' = [read_epoch EXCEPT ![g] = 0]
  /\ current_operator' = [current_operator EXCEPT ![g] = Zero]
  /\ lookahead' = [lookahead EXCEPT ![g] = NoLookahead]
  /\ last' = [last EXCEPT ![g] = NoLookahead]
  /\ preconfs_enabled' = [preconfs_enabled EXCEPT ![g] = FALSE]
  /\ handover_window' = [handover_window EXCEPT ![g] = DefaultWindow]
  /\ fetched' = [fetched EXCEPT ![g] = FALSE]
  /\ UNCHANGED <<now, l1Vars>>

-----------------------------------------------------------------------------
NewBlock ==
  /\ block_slot < current_slot
  /\ block_slot' = current_slot
  /\ UNCHANGED <<now, operator_of, pollVars, lookahead, last, flagVars>>

(* The clock moves on.  Assumed of the deployment: at most MaxMissed slots *)
(* in a row have no block; a poll starts in the half slot in which it is   *)
(* due, its calls are answered in the slot in which it started; the router *)
(* is asked within a slot; the loop asks its handle every half slot.       *)
Tick ==
  LET slot == SlotAt(now + 1)
      newSlot == slot # current_slot
  IN  /\ now < EndTime
      /\ slot - 1 - block_slot <= MaxMissed
      /\ \A g \in Operators :
           /\ task[g] # "awake"
           /\ last[g] = lookahead[g]
           /\ newSlot => task[g] \notin Asking /\ (task[g] # "down" => fetched[g])
      /\ now' = now + 1
      /\ task' = [g \in Operators |->
                    IF task[g] = "sleep" THEN "awake" ELSE task[g]]
      /\ fetched' = [g \in Operators |->
                       fetched[g] /\ EpochOf(slot) = current_epoch]
      /\ UNCHANGED <<l1Vars, read_epoch, current_operator, lookahead, last,
                     preconfs_enabled, handover_window>>

GatewayStep(g) ==
  \/ Start(g)
  \/ BootCurrent(g)
  \/ BootNext(g)
  \/ SkipUpdate(g)
  \/ BeginUpdate(g)
  \/ AskCurrent(g)
  \/ AskNext(g)
  \/ MaybeRefresh(g)
  \/ PollWrapper(g)
  \/ PollRouter(g)
  \/ Crash(g)

Next == (\E g \in Operators : GatewayStep(g)) \/ NewBlock \/ Tick

Spec == Init /\ [][Next]_vars

-----------------------------------------------------------------------------
(* The answers of the handle.  "current operator only sequences until      *)
(* here", "next operator sequences after this time":                       *)
CutoffSlot(g) == EpochStart(current_epoch) + SlotsPerEpoch - handover_window[g]
BeforeCutoff(g) == current_slot < CutoffSlot(g)
AfterBuffer(g) == now > TimeOfSlot(CutoffSlot(g)) + Buffer

(* The operators of this epoch and the next, as far as the gateway knows:  *)
(* early in the epoch it knows them from the one before.                   *)
Faulty_InForce(g) == [curr |-> last[g].curr, next |-> last[g].next]
InForce(g) ==
  IF last[g].updated_epoch \in {0, current_epoch}
  THEN [curr |-> last[g].curr, next |-> last[g].next]
  ELSE [curr |-> last[g].next, next |-> Zero]

Faulty_CanSequence(g) ==
  /\ preconfs_enabled[g]
  /\ \/ g = InForce(g).curr /\ BeforeCutoff(g)
     \/ g = InForce(g).next /\ AfterBuffer(g)

CanSequence(g) ==
  /\ preconfs_enabled[g]
  /\ \/ g = InForce(g).curr /\ g = InForce(g).next
     \/ g = InForce(g).curr /\ BeforeCutoff(g)
     \/ g = InForce(g).next /\ AfterBuffer(g)

Faulty_CanPropose(g) == preconfs_enabled[g] /\ g = last[g].curr
CanPropose(g) ==
  /\ preconfs_enabled[g]
  /\ g = IF last[g].updated_epoch = current_epoch THEN last[g].curr
                                                  ELSE last[g].next

Faulty_ShouldClear(g) ==
  /\ preconfs_enabled[g]
  /\ last[g].updated_epoch = current_epoch
  /\ g = last[g].curr
  /\ ~BeforeCutoff(g)

ShouldClear(g) ==
  /\ preconfs_enabled[g]
  /\ last[g].updated_epoch = current_epoch
  /\ g = last[g].curr /\ g # last[g].next
  /\ ~BeforeCutoff(g)

-----------------------------------------------------------------------------
(* By the whitelist and the clock, with g's handover window: another       *)
(* operator than g may sequence, or nobody, but no longer g.               *)
HandedOver(g) == AfterBuffer(g) /\ operator_of[current_epoch + 1] # g
OthersTurn(g) ==
  \/ HandedOver(g)
  \/ /\ operator_of[current_epoch] # g
     /\ BeforeCutoff(g) \/ operator_of[current_epoch + 1] # g

Scheduled(g) ==
  \/ operator_of[current_epoch] = g /\ BeforeCutoff(g)
  \/ operator_of[current_epoch + 1] = g /\ AfterBuffer(g)

(* The phase of g's turn that its three answers make up; "none" if they    *)
(* contradict each other.                                                  *)
TurnOf(g) ==
  LET answers == <<CanSequence(g), CanPropose(g), ShouldClear(g)>>
  IN  CASE answers = <<TRUE, FALSE, FALSE>> -> "next"
        [] answers = <<TRUE, TRUE, FALSE>> -> "current"
        [] answers = <<FALSE, TRUE, TRUE>> ->
             IF HandedOver(g) THEN "handed" ELSE "clearing"
        [] answers = <<FALSE, FALSE, FALSE>> ->
             IF preconfs_enabled[g] \/ OthersTurn(g) THEN "off" ELSE "disabled"
        [] OTHER -> "none"

(* The gateway runs and has learned who is next: not so between a start    *)
(* whose second call failed and the first update.                          *)
Informed(g) ==
  Up(g) /\ last[g].next = operator_of[last[g].updated_epoch + 1]

SameWindow(g, h) == handover_window[g] = handover_window[h]

-----------------------------------------------------------------------------
(* Every variable keeps the type the code gives it, and no stamp and no    *)
(* block lies ahead of the clock.                                          *)
TypeOK ==
  LET Addresses == Operators \cup {Zero}
      Known == 0 .. current_epoch
      LookaheadType ==
        [curr: Addresses, next: Addresses, updated_epoch: Known]
  IN  /\ now \in Nat /\ block_slot \in 0 .. current_slot
      /\ operator_of \in [Epochs -> Addresses]
      /\ task \in [Operators -> Tasks]
      /\ read_epoch \in [Operators -> Known]
      /\ current_operator \in [Operators -> Addresses]
      /\ lookahead \in [Operators -> LookaheadType]
      /\ last \in [Operators -> LookaheadType]
      /\ preconfs_enabled \in [Operators -> BOOLEAN]
      /\ handover_window \in [Operators -> Windows \cup {DefaultWindow}]
      /\ fetched \in [Operators -> BOOLEAN]

(* A stored lookahead holds the operators of the epoch it is stamped with, *)
(* although it was read from a block that lags behind the clock; and the   *)
(* stamp is this epoch's, or the last one's until the first update.  This  *)
(* is what "late enough" is for (lookahead.rs:163): it needs an L1 block   *)
(* in the first slots of the epoch, which the code does not check.         *)
LookaheadTrue ==
  \A g \in Operators : Up(g) =>
    LET l == lookahead[g]
    IN  /\ l.curr = operator_of[l.updated_epoch]
        /\ l.next \in {operator_of[l.updated_epoch + 1], Zero}
        /\ \/ l.updated_epoch = current_epoch
           \/ /\ l.updated_epoch = current_epoch - 1
              /\ slot_in_epoch <= FirstUpdate + 1

(* Two gateways may sequence at the same time only while the change of the *)
(* handover window has reached one of them and not the other: otherwise    *)
(* the others keep out until the phase of this one's turn says so, from    *)
(* whatever epoch either of them has its lookahead.                        *)
OneSequencer ==
  \A g, h \in Operators :
    g # h /\ Up(g) /\ SameWindow(g, h) /\ CanSequence(h) => PeersActive(TurnOf(g))

(* At most one gateway may propose, whatever their windows.                *)
OneProposer ==
  \A g, h \in Operators : CanPropose(g) /\ CanPropose(h) => g = h

(* No turn is left idle: outside the handover gap, the operator whose turn *)
(* it is by the whitelist may sequence, if its gateway runs, is enabled    *)
(* and informed; and an operator of both epochs has no gap at all.         *)
TurnNotIdle ==
  \A g \in Operators :
    /\ Informed(g) /\ preconfs_enabled[g]
    /\ \/ Scheduled(g)
       \/ operator_of[current_epoch] = g /\ operator_of[current_epoch + 1] = g
          /\ last[g].updated_epoch = current_epoch
    => CanSequence(g)

(* The three answers always make up a phase, and phases follow each other  *)
(* as module Sequencer takes them to, unless the window changed.           *)
TurnsFollow ==
  [][\A g \in Operators :
       Informed(g) /\ Informed(g)' /\ handover_window'[g] = handover_window[g] =>
         TurnOf(g)' \in FollowingTurns[TurnOf(g)] \cup {TurnOf(g)}]_vars

=============================================================================
