--------------------------- MODULE LookaheadProofs ---------------------------
(* Theorems about the operator lookahead, for any number of gateways, any  *)
(* length of slots and epochs, any handover windows and buffer, and any    *)
(* whitelist.                                                              *)
EXTENDS Lookahead, TLAPS

-----------------------------------------------------------------------------
(* Slots and epochs.                                                       *)
LEMMA Division ==
  ASSUME NEW n \in Nat, NEW d \in Nat \ {0}
  PROVE  /\ n \div d \in Nat /\ n % d \in 0 .. d - 1
         /\ n = d * (n \div d) + (n % d)
OBVIOUS

LEMMA Quotient ==
  ASSUME NEW n \in Nat, NEW d \in Nat \ {0}, NEW q \in Nat,
         NEW r \in 0 .. d - 1, n = d * q + r
  PROVE  n \div d = q /\ n % d = r
OBVIOUS

(* Counting on by one.                                                     *)
LEMMA QuotientNext ==
  ASSUME NEW n \in Nat, NEW d \in Nat \ {0}
  PROVE  \/ /\ (n + 1) \div d = n \div d
            /\ (n + 1) % d = (n % d) + 1
         \/ /\ (n + 1) \div d = (n \div d) + 1
            /\ (n + 1) % d = 0 /\ n % d = d - 1
<1> DEFINE q == n \div d
           r == n % d
<1>1. q \in Nat /\ r \in 0 .. d - 1 /\ n = d * q + r
  BY Division
<1> HIDE DEF q, r
<1>2. CASE r < d - 1
  <2>1. r + 1 \in 0 .. d - 1 /\ n + 1 = d * q + (r + 1)
    BY <1>1, <1>2
  <2>2. (n + 1) \div d = q /\ (n + 1) % d = r + 1
    BY <1>1, <2>1, Quotient
  <2> QED
    BY <2>2 DEF q, r
<1>3. CASE r = d - 1
  <2>1. d * (q + 1) = d * q + d
    BY <1>1
  <2>2. 0 \in 0 .. d - 1 /\ q + 1 \in Nat /\ n + 1 = d * (q + 1) + 0
    BY <1>1, <1>3, <2>1
  <2>3. (n + 1) \div d = q + 1 /\ (n + 1) % d = 0
    BY <2>2, Quotient
  <2> QED
    BY <1>3, <2>3 DEF q, r
<1> QED
  BY <1>1, <1>2, <1>3

LEMMA QuotientMonotone ==
  ASSUME NEW m \in Nat, NEW n \in Nat, NEW d \in Nat \ {0}, m <= n
  PROVE  m \div d <= n \div d
<1> DEFINE p == m \div d
           q == n \div d
<1>1. p \in Nat /\ q \in Nat /\ d * p <= m /\ n < d * q + d
  BY Division
<1> HIDE DEF p, q
<1>2. SUFFICES ASSUME q + 1 <= p PROVE FALSE
  BY <1>1 DEF p, q
<1>3. d * (q + 1) <= d * p
  BY <1>1, <1>2
<1>4. d * (q + 1) = d * q + d
  BY <1>1
<1>5. d * q \in Nat /\ d * p \in Nat
  BY <1>1
<1> QED
  BY <1>1, <1>3, <1>4, <1>5

LEMMA QuotientShift ==
  ASSUME NEW n \in Nat, NEW d \in Nat \ {0}, NEW q \in Nat
  PROVE  (d * q + n) \div d = q + (n \div d)
<1> DEFINE p == n \div d
           r == n % d
<1>1. p \in Nat /\ r \in 0 .. d - 1 /\ n = d * p + r
  BY Division
<1> HIDE DEF p, r
<1>2. d * (q + p) = d * q + d * p /\ d * q \in Nat
  BY <1>1
<1>3. d * q + n \in Nat /\ d * q + n = d * (q + p) + r
  BY <1>1, <1>2
<1>4. (d * q + n) \div d = q + p
  BY <1>1, <1>3, Quotient
<1> QED
  BY <1>4 DEF p

LEMMA Constants ==
  /\ SlotTime \in Nat \ {0} /\ SlotsPerEpoch \in Nat \ {0}
  /\ FirstEpoch \in Nat \ {0}
  /\ FirstUpdate \in Nat /\ Buffer \in Nat /\ MaxMissed \in Nat
  /\ MaxTime \in Nat
BY ClockAssumption

LEMMA ClockType ==
  ASSUME now \in Nat
  PROVE  /\ current_slot \in Nat /\ current_epoch \in Nat
         /\ slot_in_epoch \in 0 .. SlotsPerEpoch - 1
         /\ EpochStart(current_epoch) \in Nat
         /\ current_slot = EpochStart(current_epoch) + slot_in_epoch
<1>1. current_slot \in Nat
  BY Constants, Division DEF current_slot, SlotAt
<1>2. /\ current_epoch \in Nat /\ slot_in_epoch \in 0 .. SlotsPerEpoch - 1
      /\ current_slot = SlotsPerEpoch * current_epoch + slot_in_epoch
  BY <1>1, Constants, Division DEF current_epoch, EpochOf, slot_in_epoch
<1>3. SlotsPerEpoch * current_epoch = current_epoch * SlotsPerEpoch
      /\ SlotsPerEpoch * current_epoch \in Nat
  BY <1>2, Constants
<1> QED
  BY <1>1, <1>2, <1>3 DEF EpochStart

(* What a tick does to slot and epoch.                                     *)
SameSlot ==
  /\ current_slot' = current_slot
  /\ current_epoch' = current_epoch /\ slot_in_epoch' = slot_in_epoch

NextSlot ==
  /\ current_slot' = current_slot + 1
  /\ current_epoch' = current_epoch /\ slot_in_epoch' = slot_in_epoch + 1

NextEpoch ==
  /\ current_slot' = current_slot + 1
  /\ current_epoch' = current_epoch + 1
  /\ slot_in_epoch = SlotsPerEpoch - 1 /\ slot_in_epoch' = 0

LEMMA TickClock ==
  ASSUME now \in Nat, now' = now + 1
  PROVE  /\ current_slot' = SlotAt(now + 1)
         /\ current_epoch' = EpochOf(SlotAt(now + 1))
         /\ SameSlot \/ NextSlot \/ NextEpoch
<1>1. /\ current_slot' = SlotAt(now + 1)
      /\ current_epoch' = EpochOf(SlotAt(now + 1))
      /\ slot_in_epoch' = current_slot' % SlotsPerEpoch
      /\ current_epoch' = current_slot' \div SlotsPerEpoch
  BY DEF current_slot, current_epoch, slot_in_epoch, SlotAt, EpochOf
<1>2. current_slot' = current_slot \/ current_slot' = current_slot + 1
  BY <1>1, Constants, QuotientNext DEF current_slot, SlotAt
<1>3. CASE current_slot' = current_slot
  BY <1>1, <1>3 DEF SameSlot, current_epoch, slot_in_epoch
<1>4. CASE current_slot' = current_slot + 1
  <2>1. current_slot \in Nat
    BY ClockType
  <2>2. \/ /\ (current_slot + 1) \div SlotsPerEpoch
                = current_slot \div SlotsPerEpoch
           /\ (current_slot + 1) % SlotsPerEpoch
                = (current_slot % SlotsPerEpoch) + 1
        \/ /\ (current_slot + 1) \div SlotsPerEpoch
                = (current_slot \div SlotsPerEpoch) + 1
           /\ (current_slot + 1) % SlotsPerEpoch = 0
           /\ current_slot % SlotsPerEpoch = SlotsPerEpoch - 1
    BY <2>1, Constants, QuotientNext
  <2>3. /\ current_epoch = current_slot \div SlotsPerEpoch
        /\ slot_in_epoch = current_slot % SlotsPerEpoch
    BY DEF current_epoch, slot_in_epoch, EpochOf
  <2> QED
    BY <1>1, <1>4, <2>2, <2>3 DEF NextSlot, NextEpoch
<1> QED
  BY <1>1, <1>2, <1>3, <1>4

(* The clock stays within the whitelist's epochs, and L1 not far behind.   *)
ClockInv ==
  /\ now \in Nat /\ now <= EndTime /\ block_slot \in Nat
  /\ FirstEpoch <= current_epoch
  /\ current_slot - 1 - MaxMissed <= block_slot /\ block_slot <= current_slot

LEMMA ClockInit == Init => ClockInv
<1> SUFFICES ASSUME Init PROVE ClockInv
  OBVIOUS
<1> DEFINE s == EpochStart(FirstEpoch)
<1>1. s \in Nat \ {0} /\ s = SlotsPerEpoch * FirstEpoch + 0
  BY Constants DEF EpochStart
<1>2. now = SlotTime * s + 0 /\ now \in Nat
  BY <1>1, Constants DEF Init, TimeOfSlot
<1>3. current_slot = s
  BY <1>1, <1>2, Constants, Quotient DEF current_slot, SlotAt
<1>4. current_epoch = FirstEpoch
  BY <1>1, <1>3, Constants, Quotient DEF current_epoch, EpochOf
<1>5. now <= EndTime
  BY <1>2, Constants DEF Init, EndTime
<1> HIDE DEF s
<1> QED
  BY <1>1, <1>2, <1>3, <1>4, <1>5, Constants DEF Init, ClockInv

LEMMA EpochsKnown ==
  ASSUME ClockInv
  PROVE  /\ current_epoch \in Epochs /\ current_epoch + 1 \in Epochs
         /\ EpochOf(block_slot) \in Epochs /\ EpochOf(block_slot) + 1 \in Epochs
<1> DEFINE k == SlotAt(MaxTime)
           e == EpochOf(k)
<1>1. k \in Nat /\ e \in Nat
  BY Constants, Division DEF SlotAt, EpochOf
<1>2. EpochStart(FirstEpoch) \in Nat
  BY Constants DEF EpochStart
<1>3. EndTime = SlotTime * EpochStart(FirstEpoch) + MaxTime /\ EndTime \in Nat
  BY <1>2, Constants DEF EndTime, TimeOfSlot
<1>4. SlotAt(EndTime) = EpochStart(FirstEpoch) + k
  BY <1>2, <1>3, Constants, QuotientShift DEF SlotAt
<1>5. EpochStart(FirstEpoch) + k = SlotsPerEpoch * FirstEpoch + k
  BY <1>1, Constants DEF EpochStart
<1>6. EpochOf(SlotAt(EndTime)) = FirstEpoch + e
  <2>1. (SlotsPerEpoch * FirstEpoch + k) \div SlotsPerEpoch
          = FirstEpoch + (k \div SlotsPerEpoch)
    BY <1>1, Constants, QuotientShift
  <2> HIDE DEF k
  <2> QED
    BY <1>4, <1>5, <2>1 DEF EpochOf
<1>7. SlotAt(now) <= SlotAt(EndTime) /\ SlotAt(now) \in Nat /\ SlotAt(EndTime) \in Nat
  BY <1>3, Constants, QuotientMonotone, Division DEF ClockInv, SlotAt
<1>8. current_epoch <= EpochOf(SlotAt(EndTime)) /\ current_epoch \in Nat
  BY <1>7, Constants, QuotientMonotone, Division
     DEF current_epoch, current_slot, EpochOf
<1>9. EpochOf(block_slot) <= current_epoch /\ EpochOf(block_slot) \in Nat
  BY <1>7, Constants, QuotientMonotone, Division
     DEF ClockInv, current_epoch, current_slot, EpochOf
<1>10. Epochs = 0 .. FirstEpoch + e + 1
  BY DEF Epochs
<1> QED
  BY <1>1, <1>6, <1>8, <1>9, <1>10, Constants

LEMMA ClockStep == ClockInv /\ [Next]_vars => ClockInv'
<1> SUFFICES ASSUME ClockInv, [Next]_vars PROVE ClockInv'
  OBVIOUS
<1>1. CASE UNCHANGED <<now, block_slot>>
  BY <1>1 DEF ClockInv, current_slot, current_epoch
<1>2. CASE NewBlock
  <2>1. current_slot' = current_slot /\ current_epoch' = current_epoch
    BY <1>2 DEF NewBlock, current_slot, current_epoch
  <2> QED
    BY <1>2, <2>1, ClockType, Constants DEF NewBlock, ClockInv
<1>3. CASE Tick
  <2>1. now' = now + 1 /\ now < EndTime /\ UNCHANGED block_slot
        /\ SlotAt(now + 1) - 1 - block_slot <= MaxMissed
    BY <1>3 DEF Tick, l1Vars
  <2>2. /\ EndTime \in Nat
    BY Constants DEF EndTime, TimeOfSlot, EpochStart
  <2> QED
    BY <2>1, <2>2, TickClock, ClockType, Constants
       DEF ClockInv, SameSlot, NextSlot, NextEpoch
<1>4. CASE \E g \in Operators : GatewayStep(g)
  <2>1. UNCHANGED <<now, block_slot>>
    BY <1>4 DEF GatewayStep, Start, BootCurrent, BootNext, SkipUpdate,
         BeginUpdate, AskCurrent, AskNext, MaybeRefresh, PollWrapper,
         PollRouter, Crash, l1Vars
  <2> QED
    BY <1>1, <2>1
<1>5. CASE UNCHANGED vars
  BY <1>1, <1>5 DEF vars, l1Vars
<1> QED
  BY <1>2, <1>3, <1>4, <1>5 DEF Next

-----------------------------------------------------------------------------
(* Type correctness.                                                       *)
LEMMA SameClock ==
  ASSUME UNCHANGED now
  PROVE  /\ UNCHANGED <<current_slot, current_epoch, slot_in_epoch>>
         /\ UNCHANGED <<LateEnough, Stamp>>
BY DEF current_slot, current_epoch, slot_in_epoch, LateEnough, Stamp

LEMMA AnswerType ==
  ASSUME TypeOK, ClockInv
  PROVE  /\ CurrentEpochAnswer \in Operators \cup {Zero}
         /\ NextEpochAnswer \in Operators \cup {Zero}
BY EpochsKnown DEF TypeOK, CurrentEpochAnswer, NextEpochAnswer

LEMMA TypeStep == TypeOK /\ ClockInv /\ [Next]_vars => TypeOK'
<1> SUFFICES ASSUME TypeOK, ClockInv, [Next]_vars PROVE TypeOK'
  OBVIOUS
<1>1. now \in Nat /\ current_epoch \in Nat /\ current_slot \in Nat
  BY ClockType DEF TypeOK
<1>2. ASSUME NEW g \in Operators, GatewayStep(g) PROVE TypeOK'
  <2>1. UNCHANGED <<now, block_slot, operator_of>>
    BY <1>2 DEF GatewayStep, Start, BootCurrent, BootNext, SkipUpdate,
         BeginUpdate, AskCurrent, AskNext, MaybeRefresh, PollWrapper,
         PollRouter, Crash, l1Vars
  <2>2. UNCHANGED <<current_slot, current_epoch>>
    BY <2>1, SameClock
  <2>3. CASE Start(g) \/ SkipUpdate(g)
    BY <2>1, <2>2, <2>3 DEF TypeOK, Start, SkipUpdate, flagVars, Tasks
  <2>4. CASE BootCurrent(g) \/ AskCurrent(g)
    BY <2>1, <2>2, <2>4, AnswerType
       DEF TypeOK, BootCurrent, AskCurrent, flagVars, Tasks
  <2>5. CASE BootNext(g)
    BY <1>1, <2>1, <2>2, <2>5, AnswerType
       DEF TypeOK, BootNext, flagVars, Tasks, Stamp
  <2>6. CASE BeginUpdate(g)
    BY <1>1, <2>1, <2>2, <2>6 DEF TypeOK, BeginUpdate, flagVars, Tasks, Stamp
  <2>7. CASE AskNext(g)
    BY <1>1, <2>1, <2>2, <2>7, AnswerType DEF TypeOK, AskNext, flagVars, Tasks
  <2>8. CASE MaybeRefresh(g)
    BY <2>1, <2>2, <2>8 DEF TypeOK, MaybeRefresh, flagVars, pollVars
  <2>9. CASE PollWrapper(g)
    BY <2>1, <2>2, <2>9 DEF TypeOK, PollWrapper, pollVars
  <2>10. CASE PollRouter(g)
    BY <2>1, <2>2, <2>10 DEF TypeOK, PollRouter, pollVars
  <2>11. CASE Crash(g)
    BY <1>1, <2>1, <2>2, <2>11 DEF TypeOK, Crash, Tasks, NoLookahead
  <2> QED
    BY <1>2, <2>3, <2>4, <2>5, <2>6, <2>7, <2>8, <2>9, <2>10, <2>11
       DEF GatewayStep
<1>3. CASE NewBlock
  BY <1>1, <1>3, SameClock DEF NewBlock, TypeOK, pollVars, flagVars
<1>4. CASE Tick
  <2>1. /\ now' \in Nat /\ block_slot' = block_slot
        /\ current_slot' \in Nat /\ current_slot <= current_slot'
        /\ current_epoch' \in Nat /\ current_epoch <= current_epoch'
    BY <1>1, <1>4, TickClock DEF Tick, l1Vars, SameSlot, NextSlot, NextEpoch
  <2>2. /\ task' \in [Operators -> Tasks] /\ fetched' \in [Operators -> BOOLEAN]
        /\ UNCHANGED <<l1Vars, read_epoch, current_operator, lookahead, last,
                       preconfs_enabled, handover_window>>
    BY <1>4 DEF Tick, TypeOK, Tasks
  <2> QED
    BY <1>1, <2>1, <2>2 DEF TypeOK, l1Vars
<1>5. CASE UNCHANGED vars
  BY <1>5, SameClock DEF vars, l1Vars, pollVars, flagVars, TypeOK
<1> QED
  BY <1>2, <1>3, <1>4, <1>5 DEF Next

(* Every variable of every gateway keeps its type, no stamp and no block   *)
(* lies ahead of the clock.                                                *)
THEOREM LookaheadTypes == Spec => [](TypeOK /\ ClockInv)
<1>1. Init => TypeOK
  <2> SUFFICES ASSUME Init PROVE TypeOK
    OBVIOUS
  <2>1. ClockInv
    BY ClockInit
  <2>2. block_slot \in 0 .. current_slot /\ current_epoch \in Nat
    BY <2>1, ClockType DEF ClockInv
  <2> QED
    BY <2>1, <2>2 DEF Init, ClockInv, TypeOK, NoLookahead, Tasks
<1> QED
  BY <1>1, ClockInit, ClockStep, TypeStep, PTL DEF Spec

-----------------------------------------------------------------------------
(* What is stored is true.  A call under way is answered by a block of     *)
(* this epoch, for the whole time it takes; what is stored, and the copy   *)
(* of it, is about the epoch it is stamped with; and a task that sleeps    *)
(* late enough in the epoch has updated.                                   *)
AnswersCurrent ==
  \A g \in Operators :
    /\ task[g] \in Asking => EpochOf(block_slot) = current_epoch
    /\ task[g] \in {"ask_current", "ask_next"} => read_epoch[g] = current_epoch
    /\ task[g] \in {"boot_next", "ask_next"} =>
         current_operator[g] = operator_of[current_epoch]

True(l) ==
  /\ l.curr = operator_of[l.updated_epoch]
  /\ l.next \in {operator_of[l.updated_epoch + 1], Zero}
  /\ FirstEpoch <= l.updated_epoch
  /\ \/ l.updated_epoch = current_epoch
     \/ l.updated_epoch = current_epoch - 1 /\ slot_in_epoch <= FirstUpdate + 1

StoredTrue ==
  \A g \in Operators :
    IF Up(g) THEN True(lookahead[g]) /\ True(last[g])
             ELSE lookahead[g] = NoLookahead /\ last[g] = NoLookahead

SleepsUpdated ==
  \A g \in Operators :
    task[g] = "sleep" =>
      lookahead[g].updated_epoch = current_epoch \/ slot_in_epoch <= FirstUpdate

LookaheadInv == AnswersCurrent /\ StoredTrue /\ SleepsUpdated

(* The block that answers is of this epoch: at a start because the task    *)
(* waited for one, at an update because it is late enough for one.         *)
LEMMA BlockOfEpoch ==
  ASSUME ClockInv, EpochStart(current_epoch) <= block_slot
  PROVE  EpochOf(block_slot) = current_epoch
<1> DEFINE r == block_slot - EpochStart(current_epoch)
<1>1. /\ current_slot \in Nat /\ current_epoch \in Nat
      /\ slot_in_epoch \in 0 .. SlotsPerEpoch - 1
      /\ EpochStart(current_epoch) \in Nat
      /\ current_slot = EpochStart(current_epoch) + slot_in_epoch
  BY ClockType DEF ClockInv
<1>2. r \in 0 .. SlotsPerEpoch - 1
      /\ block_slot = EpochStart(current_epoch) + r
  BY <1>1, Constants DEF ClockInv
<1>3. EpochStart(current_epoch) = SlotsPerEpoch * current_epoch
  BY <1>1, Constants DEF EpochStart
<1> HIDE DEF r
<1>4. block_slot = SlotsPerEpoch * current_epoch + r /\ block_slot \in Nat
  BY <1>2, <1>3 DEF ClockInv
<1> QED
  BY <1>1, <1>2, <1>4, Constants, Quotient DEF EpochOf

LEMMA LateBlock ==
  ASSUME ClockInv, LateEnough
  PROVE  EpochOf(block_slot) = current_epoch
<1>1. EpochStart(current_epoch) <= block_slot
  BY ClockType, Constants, MissedAssumption DEF ClockInv, LateEnough
<1> QED
  BY <1>1, BlockOfEpoch

LEMMA StoredStep ==
  TypeOK /\ ClockInv /\ LookaheadInv /\ [Next]_vars => LookaheadInv'
<1> SUFFICES ASSUME TypeOK, ClockInv, LookaheadInv, [Next]_vars
             PROVE  LookaheadInv'
  OBVIOUS
<1>1. /\ now \in Nat /\ current_epoch \in Nat /\ FirstEpoch <= current_epoch
      /\ current_slot \in Nat /\ slot_in_epoch \in 0 .. SlotsPerEpoch - 1
  BY ClockType DEF ClockInv
<1>2. ASSUME NEW g \in Operators, GatewayStep(g) PROVE LookaheadInv'
  <2>1. UNCHANGED <<now, block_slot, operator_of>>
    BY <1>2 DEF GatewayStep, Start, BootCurrent, BootNext, SkipUpdate,
         BeginUpdate, AskCurrent, AskNext, MaybeRefresh, PollWrapper,
         PollRouter, Crash, l1Vars
  <2>2. UNCHANGED <<current_slot, current_epoch, slot_in_epoch>>
    BY <2>1, SameClock
  <2>3. \A l : True(l) => True(l)'
    BY <2>1, <2>2 DEF True
  <2>4. CASE Start(g)
    <3>1. EpochOf(block_slot) = current_epoch
      BY <2>4, <1>1, ClockType, BlockOfEpoch DEF Start, BlockInEpoch, ClockInv
    <3> QED
      BY <2>1, <2>2, <2>3, <2>4, <3>1
         DEF Start, LookaheadInv, AnswersCurrent, StoredTrue, SleepsUpdated,
             Up, Asking, TypeOK
  <2>5. CASE BootCurrent(g) \/ AskCurrent(g)
    <3>1. CurrentEpochAnswer = operator_of[current_epoch]
      BY <2>5 DEF BootCurrent, AskCurrent, LookaheadInv, AnswersCurrent,
           Asking, CurrentEpochAnswer
    <3> QED
      BY <2>1, <2>2, <2>3, <2>5, <3>1
         DEF BootCurrent, AskCurrent, LookaheadInv, AnswersCurrent,
             StoredTrue, SleepsUpdated, Up, Asking, TypeOK
  <2>6. CASE BootNext(g)
    <3>1. True(lookahead'[g]) /\ last'[g] = lookahead'[g]
          /\ lookahead'[g].updated_epoch = current_epoch
      BY <1>1, <2>6
         DEF BootNext, LookaheadInv, AnswersCurrent, Asking, TypeOK, True,
             NextEpochAnswer, Stamp
    <3> QED
      BY <2>1, <2>2, <2>3, <2>6, <3>1
         DEF BootNext, LookaheadInv, AnswersCurrent, StoredTrue,
             SleepsUpdated, Up, Asking, TypeOK
  <2>7. CASE SkipUpdate(g)
    <3>1. slot_in_epoch <= FirstUpdate
      BY <1>1, <2>7, Constants DEF SkipUpdate, LateEnough
    <3> QED
      BY <2>1, <2>2, <2>3, <2>7, <3>1
         DEF SkipUpdate, LookaheadInv, AnswersCurrent, StoredTrue,
             SleepsUpdated, Up, Asking, TypeOK
  <2>8. CASE BeginUpdate(g)
    <3>1. EpochOf(block_slot) = current_epoch
      BY <2>8, LateBlock DEF BeginUpdate
    <3> QED
      BY <2>1, <2>2, <2>3, <2>8, <3>1
         DEF BeginUpdate, LookaheadInv, AnswersCurrent, StoredTrue,
             SleepsUpdated, Up, Asking, Stamp, TypeOK
  <2>9. CASE AskNext(g)
    <3>1. True(lookahead'[g]) /\ last' = last
          /\ lookahead'[g].updated_epoch = current_epoch
      BY <1>1, <2>9
         DEF AskNext, LookaheadInv, AnswersCurrent, Asking, TypeOK, True,
             NextEpochAnswer
    <3> QED
      BY <2>1, <2>2, <2>3, <2>9, <3>1
         DEF AskNext, LookaheadInv, AnswersCurrent, StoredTrue,
             SleepsUpdated, Up, Asking, TypeOK
  <2>10. CASE MaybeRefresh(g)
    BY <2>1, <2>2, <2>3, <2>10
       DEF MaybeRefresh, LookaheadInv, AnswersCurrent, StoredTrue,
           SleepsUpdated, Up, Asking, TypeOK, pollVars
  <2>11. CASE PollWrapper(g) \/ PollRouter(g)
    BY <2>1, <2>2, <2>3, <2>11
       DEF PollWrapper, PollRouter, LookaheadInv, AnswersCurrent, StoredTrue,
           SleepsUpdated, Up, pollVars
  <2>12. CASE Crash(g)
    BY <2>1, <2>2, <2>3, <2>12
       DEF Crash, LookaheadInv, AnswersCurrent, StoredTrue, SleepsUpdated,
           Up, Asking, TypeOK
  <2> QED
    BY <1>2, <2>4, <2>5, <2>6, <2>7, <2>8, <2>9, <2>10, <2>11, <2>12
       DEF GatewayStep
<1>3. CASE NewBlock
  <2>1. UNCHANGED <<current_slot, current_epoch, slot_in_epoch>>
        /\ UNCHANGED <<operator_of, pollVars, lookahead, last>>
        /\ block_slot' = current_slot
    BY <1>3, SameClock DEF NewBlock
  <2>2. EpochOf(block_slot)' = current_epoch
    BY <2>1 DEF current_epoch, EpochOf
  <2> QED
    BY <2>1, <2>2
       DEF LookaheadInv, AnswersCurrent, StoredTrue, SleepsUpdated, True, Up,
           pollVars
<1>4. CASE Tick
  <2>1. /\ now' = now + 1
        /\ UNCHANGED <<block_slot, operator_of, read_epoch, current_operator,
                       lookahead, last>>
        /\ \A g \in Operators :
             /\ task[g] # "awake" /\ last[g] = lookahead[g]
             /\ SlotAt(now + 1) # current_slot => task[g] \notin Asking
             /\ task'[g] = IF task[g] = "sleep" THEN "awake" ELSE task[g]
    BY <1>4 DEF Tick, l1Vars
  <2>2. /\ current_slot' = SlotAt(now + 1)
        /\ SameSlot \/ NextSlot \/ NextEpoch
    BY <1>1, <2>1, TickClock
  <2>3. AnswersCurrent'
    <3> SUFFICES ASSUME NEW g \in Operators, task'[g] \in Asking
                 PROVE  /\ EpochOf(block_slot)' = current_epoch'
                        /\ task'[g] \in {"ask_current", "ask_next"} =>
                             read_epoch'[g] = current_epoch'
                        /\ task'[g] \in {"boot_next", "ask_next"} =>
                             current_operator'[g] = operator_of'[current_epoch']
      BY DEF AnswersCurrent, Asking
    <3>1. task'[g] = task[g] /\ SameSlot
      BY <1>1, <2>1, <2>2 DEF Asking, NextSlot, NextEpoch
    <3> QED
      BY <2>1, <3>1 DEF LookaheadInv, AnswersCurrent, SameSlot, EpochOf
  <2>4. ASSUME NEW g \in Operators, Up(g)
        PROVE  True(lookahead[g])' /\ True(last[g])'
    <3>1. True(lookahead[g]) /\ last[g] = lookahead[g]
          /\ lookahead'[g] = lookahead[g] /\ last'[g] = last[g]
      BY <2>1, <2>4 DEF LookaheadInv, StoredTrue
    <3>2. CASE SameSlot
      BY <2>1, <3>1, <3>2 DEF SameSlot, True
    <3>3. CASE NextSlot \/ NextEpoch
      <4>1. task[g] = "sleep"
        BY <1>1, <2>1, <2>2, <2>4, <3>3 DEF Up, Asking, NextSlot, NextEpoch
      <4>2. lookahead[g].updated_epoch = current_epoch
            \/ slot_in_epoch <= FirstUpdate
        BY <4>1 DEF LookaheadInv, SleepsUpdated
      <4>3. lookahead[g].updated_epoch \in Nat
        BY <1>1 DEF TypeOK
      <4>4. FirstUpdate + 1 < SlotsPerEpoch - 1
        <5>1. DefaultWindow \in Nat /\ Buffer + 1 < DefaultWindow * SlotTime
              /\ FirstUpdate + 1 < SlotsPerEpoch - DefaultWindow
          BY WindowAssumption
        <5>2. DefaultWindow # 0
          BY <5>1, Constants
        <5> QED
          BY <5>1, <5>2, Constants
      <4> QED
        BY <1>1, <2>1, <3>1, <3>3, <4>2, <4>3, <4>4, Constants
           DEF True, NextSlot, NextEpoch
    <3> QED
      BY <2>2, <3>2, <3>3
  <2>5. StoredTrue'
    <3> SUFFICES ASSUME NEW g \in Operators
                 PROVE  IF Up(g)' THEN True(lookahead[g])' /\ True(last[g])'
                        ELSE /\ lookahead'[g] = NoLookahead
                             /\ last'[g] = NoLookahead
      BY DEF StoredTrue, NoLookahead
    <3>1. Up(g)' <=> Up(g)
      BY <2>1 DEF Up
    <3> QED
      BY <2>1, <2>4, <3>1 DEF LookaheadInv, StoredTrue
  <2>6. SleepsUpdated'
    BY <2>1 DEF SleepsUpdated
  <2> QED
    BY <2>3, <2>5, <2>6 DEF LookaheadInv
<1>5. CASE UNCHANGED vars
  <2>1. UNCHANGED <<current_slot, current_epoch, slot_in_epoch>>
    BY <1>5, SameClock DEF vars
  <2> QED
    BY <1>5, <2>1
       DEF vars, l1Vars, pollVars, LookaheadInv, AnswersCurrent, StoredTrue,
           SleepsUpdated, True, Up
<1> QED
  BY <1>2, <1>3, <1>4, <1>5 DEF Next

LEMMA LookaheadInvariant == Spec => [](TypeOK /\ ClockInv /\ LookaheadInv)
<1>1. Init => LookaheadInv
  BY DEF Init, LookaheadInv, AnswersCurrent, StoredTrue, SleepsUpdated, Up,
         Asking
<1> QED
  BY <1>1, LookaheadTypes, StoredStep, PTL DEF Spec

(* Over polls, missed slots, starts and crashes at any moment, a stored    *)
(* lookahead is that of its stamp, and the stamp is this epoch's, or the   *)
(* last one's in the first slots.                                          *)
THEOREM LookaheadsTrue == Spec => []LookaheadTrue
<1>1. LookaheadInv => LookaheadTrue
  BY DEF LookaheadInv, StoredTrue, True, LookaheadTrue
<1> QED
  BY <1>1, LookaheadInvariant, PTL

-----------------------------------------------------------------------------
(* One operator at a time.  The handle's answers from what is true.        *)
LEMMA CutoffType ==
  ASSUME TypeOK, ClockInv, NEW g \in Operators
  PROVE  /\ CutoffSlot(g) \in Nat /\ TimeOfSlot(CutoffSlot(g)) \in Nat
         /\ handover_window[g] \in Nat
         /\ CutoffSlot(g) = EpochStart(current_epoch) + SlotsPerEpoch
                               - handover_window[g]
         /\ FirstUpdate + 1 < SlotsPerEpoch - handover_window[g]
<1>1. handover_window[g] \in Nat
      /\ FirstUpdate + 1 < SlotsPerEpoch - handover_window[g]
  BY WindowAssumption DEF TypeOK
<1>2. EpochStart(current_epoch) \in Nat
  BY ClockType DEF ClockInv
<1>3. CutoffSlot(g) = EpochStart(current_epoch) + SlotsPerEpoch
                        - handover_window[g]
  BY DEF CutoffSlot
<1>4. CutoffSlot(g) \in Nat
  BY <1>1, <1>2, <1>3, Constants
<1> QED
  BY <1>1, <1>3, <1>4, Constants DEF TimeOfSlot

(* The window's cutoff and the buffer behind it exclude each other.        *)
LEMMA BeforeCutoffTime ==
  ASSUME TypeOK, ClockInv, NEW g \in Operators, BeforeCutoff(g)
  PROVE  now < TimeOfSlot(CutoffSlot(g))
<1> DEFINE c == CutoffSlot(g)
           r == now % SlotTime
<1>1. c \in Nat /\ current_slot \in Nat /\ current_slot < c
  BY CutoffType, ClockType DEF ClockInv, BeforeCutoff
<1>2. now = SlotTime * current_slot + r /\ r \in 0 .. SlotTime - 1
  BY Constants, Division DEF ClockInv, current_slot, SlotAt
<1> HIDE DEF c, r
<1>3. PICK d \in Nat : c = current_slot + 1 + d
  <2>1. c - (current_slot + 1) \in Nat
        /\ c = current_slot + 1 + (c - (current_slot + 1))
    BY <1>1
  <2> QED
    BY <2>1
<1>4. c * SlotTime = SlotTime * current_slot + SlotTime + SlotTime * d
      /\ SlotTime * d \in Nat /\ SlotTime * current_slot \in Nat
  BY <1>1, <1>3, Constants
<1> QED
  BY <1>2, <1>4, Constants DEF TimeOfSlot, c

LEMMA GapBetween ==
  ASSUME TypeOK, ClockInv, NEW g \in Operators, BeforeCutoff(g)
  PROVE  ~AfterBuffer(g)
BY BeforeCutoffTime, CutoffType, Constants DEF ClockInv, AfterBuffer

(* A lookahead of the last epoch is in force before the cutoff only.       *)
LEMMA StaleBeforeCutoff ==
  ASSUME TypeOK, ClockInv, NEW g \in Operators,
         slot_in_epoch <= FirstUpdate + 1
  PROVE  BeforeCutoff(g)
BY CutoffType, ClockType, Constants DEF ClockInv, BeforeCutoff

(* What is in force is the whitelist's, or nobody.                         *)
LEMMA InForceTrue ==
  ASSUME TypeOK, ClockInv, LookaheadInv, NEW g \in Operators
  PROVE  /\ InForce(g).curr \in {operator_of[current_epoch], Zero}
         /\ InForce(g).next \in {operator_of[current_epoch + 1], Zero}
<1>1. current_epoch \in Nat /\ FirstEpoch <= current_epoch
  BY ClockType DEF ClockInv
<1>2. CASE ~Up(g)
  BY <1>2 DEF LookaheadInv, StoredTrue, NoLookahead, InForce
<1>3. CASE Up(g)
  <2>1. True(last[g]) /\ last[g].updated_epoch \in Nat
        /\ last[g].updated_epoch # 0
    BY <1>1, <1>3, Constants DEF LookaheadInv, StoredTrue, True, TypeOK
  <2>2. CASE last[g].updated_epoch = current_epoch
    BY <2>1, <2>2 DEF True, InForce
  <2>3. CASE last[g].updated_epoch = current_epoch - 1
    BY <1>1, <2>1, <2>3 DEF True, InForce
  <2> QED
    BY <2>1, <2>2, <2>3 DEF True
<1> QED
  BY <1>2, <1>3

(* A proposer is the operator of the epoch by the whitelist, and what it   *)
(* takes for the current operator is what is in force.                     *)
LEMMA ProposerScheduled ==
  ASSUME TypeOK, ClockInv, LookaheadInv, NEW g \in Operators, CanPropose(g)
  PROVE  g = operator_of[current_epoch] /\ g = InForce(g).curr
<1>1. g # Zero
  BY ZeroAssumption
<1>2. Up(g)
  BY <1>1 DEF LookaheadInv, StoredTrue, NoLookahead, CanPropose
<1>3. True(last[g]) /\ last[g].updated_epoch \in Nat
      /\ last[g].updated_epoch # 0 /\ current_epoch \in Nat
  BY <1>2, Constants, ClockType
     DEF ClockInv, LookaheadInv, StoredTrue, True, TypeOK
<1> QED
  BY <1>1, <1>3, ClockType DEF ClockInv, True, CanPropose, InForce

(* At most one gateway may propose, whatever each has read of the window   *)
(* and from whatever epoch it has its lookahead.                           *)
THEOREM OneProposes == Spec => []OneProposer
<1>1. TypeOK /\ ClockInv /\ LookaheadInv => OneProposer
  BY ProposerScheduled DEF OneProposer
<1> QED
  BY <1>1, LookaheadInvariant, PTL

(* Another operator's turn by the whitelist: this one is off, or has       *)
(* handed over.                                                            *)
LEMMA OffWhenOthersTurn ==
  ASSUME TypeOK, ClockInv, LookaheadInv, NEW g \in Operators,
         ~CanSequence(g), ~CanPropose(g), OthersTurn(g)
  PROVE  PeersActive(TurnOf(g))
<1>1. CanSequence(g) = FALSE /\ CanPropose(g) = FALSE
  BY DEF CanSequence, CanPropose
<1>2. ShouldClear(g) = FALSE
  BY <1>1 DEF ShouldClear, CanPropose
<1>3. TurnOf(g) = "off"
  BY <1>1, <1>2 DEF TurnOf
<1> QED
  BY <1>3 DEF PeersActive

LEMMA SequencerExcludes ==
  ASSUME TypeOK, ClockInv, LookaheadInv,
         NEW g \in Operators, NEW h \in Operators,
         g # h, SameWindow(g, h), CanSequence(h)
  PROVE  PeersActive(TurnOf(g))
<1>1. /\ InForce(g).curr \in {operator_of[current_epoch], Zero}
      /\ InForce(g).next \in {operator_of[current_epoch + 1], Zero}
      /\ InForce(h).curr \in {operator_of[current_epoch], Zero}
      /\ InForce(h).next \in {operator_of[current_epoch + 1], Zero}
      /\ g # Zero /\ h # Zero
  BY InForceTrue, ZeroAssumption
<1>2. /\ BeforeCutoff(g) <=> BeforeCutoff(h)
      /\ AfterBuffer(g) <=> AfterBuffer(h)
  BY DEF SameWindow, BeforeCutoff, AfterBuffer, CutoffSlot
<1>3. CASE h = operator_of[current_epoch] /\ BeforeCutoff(g)
  <2>1. ~AfterBuffer(g)
    BY <1>3, GapBetween
  <2>2. ~CanSequence(g) /\ ~CanPropose(g)
    BY <1>1, <1>3, <2>1, ProposerScheduled DEF CanSequence
  <2> QED
    BY <1>3, <2>2, OffWhenOthersTurn DEF OthersTurn
<1>4. CASE h = operator_of[current_epoch] /\ h = operator_of[current_epoch + 1]
  <2>1. ~CanSequence(g) /\ ~CanPropose(g)
    BY <1>1, <1>4, ProposerScheduled DEF CanSequence
  <2> QED
    BY <1>4, <2>1, OffWhenOthersTurn DEF OthersTurn
<1>5. CASE h = operator_of[current_epoch + 1] /\ AfterBuffer(g)
  <2>1. ~BeforeCutoff(g)
    BY <1>5, GapBetween
  <2>2. CanSequence(g) = FALSE /\ HandedOver(g)
    BY <1>1, <1>5, <2>1 DEF CanSequence, HandedOver
  <2>3. CASE ~CanPropose(g)
    BY <2>2, <2>3, OffWhenOthersTurn DEF OthersTurn
  <2>4. CASE CanPropose(g)
    <3>1. g = InForce(g).curr
      BY <2>4, ProposerScheduled
    <3>2. Up(g)
      BY <1>1, <3>1 DEF LookaheadInv, StoredTrue, NoLookahead, InForce
    <3>3. True(last[g]) /\ last[g].updated_epoch = current_epoch
      BY <2>1, <3>2, StaleBeforeCutoff DEF LookaheadInv, StoredTrue, True
    <3>4. last[g].next # g
      BY <1>1, <1>5, <3>3 DEF True
    <3>5. CanPropose(g) = TRUE /\ ShouldClear(g) = TRUE
      BY <2>1, <2>4, <3>3, <3>4 DEF CanPropose, ShouldClear
    <3>6. TurnOf(g) = "handed"
      BY <2>2, <3>5 DEF TurnOf
    <3> QED
      BY <3>6 DEF PeersActive
  <2> QED
    BY <2>3, <2>4
<1> QED
  BY <1>1, <1>2, <1>3, <1>4, <1>5 DEF CanSequence

(* Two gateways that read the same window never sequence at once: while    *)
(* one may, the others are off or have handed over.                        *)
THEOREM OneSequences == Spec => []OneSequencer
<1>1. TypeOK /\ ClockInv /\ LookaheadInv => OneSequencer
  BY SequencerExcludes DEF OneSequencer
<1> QED
  BY <1>1, LookaheadInvariant, PTL

(* No turn is left idle by the operator whose turn it is and who knows.    *)
THEOREM TurnsNotIdle == Spec => []TurnNotIdle
<1>1. ASSUME TypeOK, ClockInv, LookaheadInv, NEW g \in Operators,
             Informed(g), preconfs_enabled[g],
             \/ Scheduled(g)
             \/ /\ operator_of[current_epoch] = g
                /\ operator_of[current_epoch + 1] = g
                /\ last[g].updated_epoch = current_epoch
      PROVE  CanSequence(g)
  <2>1. /\ True(last[g]) /\ last[g].updated_epoch \in Nat
        /\ last[g].updated_epoch # 0 /\ current_epoch \in Nat
        /\ last[g].next = operator_of[last[g].updated_epoch + 1]
    BY <1>1, Constants, ClockType
       DEF ClockInv, LookaheadInv, StoredTrue, True, TypeOK, Informed
  <2>2. InForce(g).curr = operator_of[current_epoch]
    BY <2>1 DEF True, InForce
  <2>3. last[g].updated_epoch = current_epoch =>
          InForce(g).next = operator_of[current_epoch + 1]
    BY <2>1 DEF InForce
  <2>4. AfterBuffer(g) => last[g].updated_epoch = current_epoch
    BY <1>1, <2>1, StaleBeforeCutoff, GapBetween DEF True
  <2> QED
    BY <1>1, <2>2, <2>3, <2>4 DEF Scheduled, CanSequence
<1>2. TypeOK /\ ClockInv /\ LookaheadInv => TurnNotIdle
  BY <1>1 DEF TurnNotIdle
<1> QED
  BY <1>2, LookaheadInvariant, PTL

-----------------------------------------------------------------------------
(* Phases.  For a gateway that is informed, the phase of its turn depends  *)
(* on the whitelist, the clock and the wrapper only: not on which epoch it *)
(* has its lookahead from.                                                 *)
Mine(g) == operator_of[current_epoch] = g
NextMine(g) == operator_of[current_epoch + 1] = g

Phase(g) ==
  IF ~preconfs_enabled[g] THEN IF OthersTurn(g) THEN "off" ELSE "disabled"
  ELSE IF Mine(g)
  THEN IF NextMine(g) \/ BeforeCutoff(g) THEN "current"
       ELSE IF AfterBuffer(g) THEN "handed" ELSE "clearing"
  ELSE IF NextMine(g) /\ AfterBuffer(g) THEN "next" ELSE "off"

PhasesTrue ==
  \A g \in Operators :
    /\ BeforeCutoff(g) => ~AfterBuffer(g)
    /\ Informed(g) => TurnOf(g) = Phase(g)

LEMMA PhaseOfTurn == TypeOK /\ ClockInv /\ LookaheadInv => PhasesTrue
<1> SUFFICES ASSUME TypeOK, ClockInv, LookaheadInv, NEW g \in Operators
             PROVE  /\ BeforeCutoff(g) => ~AfterBuffer(g)
                    /\ Informed(g) => TurnOf(g) = Phase(g)
  BY DEF PhasesTrue
<1>1. BeforeCutoff(g) => ~AfterBuffer(g)
  BY GapBetween
<1>2. ASSUME Informed(g) PROVE TurnOf(g) = Phase(g)
  <2> DEFINE stale == last[g].updated_epoch # current_epoch
             on == preconfs_enabled[g]
  <2>1. /\ True(last[g]) /\ last[g].updated_epoch \in Nat
        /\ last[g].updated_epoch # 0 /\ current_epoch \in Nat
        /\ last[g].next = operator_of[last[g].updated_epoch + 1]
        /\ g # Zero
    BY <1>2, Constants, ClockType, ZeroAssumption
       DEF ClockInv, LookaheadInv, StoredTrue, True, TypeOK, Informed
  <2>2. stale => BeforeCutoff(g)
    BY <2>1, StaleBeforeCutoff DEF True
  <2>3. /\ InForce(g).curr = operator_of[current_epoch]
        /\ InForce(g).next = IF stale THEN Zero
                             ELSE operator_of[current_epoch + 1]
    BY <2>1 DEF True, InForce
  <2>4. CanSequence(g) <=>
          /\ on
          /\ \/ Mine(g) /\ NextMine(g) /\ ~stale
             \/ Mine(g) /\ BeforeCutoff(g)
             \/ NextMine(g) /\ AfterBuffer(g)
    BY <1>1, <2>1, <2>2, <2>3 DEF CanSequence, Mine, NextMine
  <2>5. CanPropose(g) <=> on /\ Mine(g)
    BY <2>1 DEF True, CanPropose, Mine
  <2>6. ShouldClear(g) <=>
          on /\ ~stale /\ Mine(g) /\ ~NextMine(g) /\ ~BeforeCutoff(g)
    BY <2>1 DEF True, ShouldClear, Mine, NextMine
  <2>7. HandedOver(g) <=> AfterBuffer(g) /\ ~NextMine(g)
    BY DEF HandedOver, NextMine
  <2> DEFINE seq == CanSequence(g)
             prop == CanPropose(g)
             clear == ShouldClear(g)
  <2>8. seq \in BOOLEAN /\ prop \in BOOLEAN /\ clear \in BOOLEAN
    BY DEF CanSequence, CanPropose, ShouldClear
  <2>9. TurnOf(g) =
          IF seq THEN IF clear THEN "none" ELSE IF prop THEN "current" ELSE "next"
          ELSE IF prop /\ clear THEN IF HandedOver(g) THEN "handed" ELSE "clearing"
          ELSE IF ~prop /\ ~clear
               THEN IF on \/ OthersTurn(g) THEN "off" ELSE "disabled"
          ELSE "none"
    BY <2>8 DEF TurnOf
  <2> HIDE DEF seq, prop, clear, on, stale
  <2> QED
    BY <1>1, <2>2, <2>4, <2>5, <2>6, <2>7, <2>9
       DEF Phase, seq, prop, clear, on
<1> QED
  BY <1>1, <1>2

LEMMA PhaseInvariant == Spec => []PhasesTrue
BY PhaseOfTurn, LookaheadInvariant, PTL

(* What a tick does to the gap between cutoff and buffer.  In an epoch it  *)
(* is never jumped over ...                                                *)
LEMMA GapInEpoch ==
  ASSUME TypeOK, TypeOK', ClockInv, ClockInv', now' = now + 1,
         SameSlot \/ NextSlot,
         NEW g \in Operators, handover_window'[g] = handover_window[g]
  PROVE  /\ ~BeforeCutoff(g) => ~BeforeCutoff(g)'
         /\ AfterBuffer(g) => AfterBuffer(g)'
         /\ BeforeCutoff(g) => ~AfterBuffer(g)'
<1>1. CutoffSlot(g)' = CutoffSlot(g)
  BY DEF CutoffSlot, SameSlot, NextSlot
<1>2. /\ CutoffSlot(g) \in Nat /\ TimeOfSlot(CutoffSlot(g)) \in Nat
      /\ current_slot \in Nat
  BY CutoffType, ClockType DEF ClockInv
<1>3. ~BeforeCutoff(g) => ~BeforeCutoff(g)'
  BY <1>1, <1>2 DEF BeforeCutoff, SameSlot, NextSlot
<1>4. TimeOfSlot(CutoffSlot(g))' = TimeOfSlot(CutoffSlot(g))
  BY <1>1 DEF TimeOfSlot
<1>5. AfterBuffer(g) => AfterBuffer(g)'
  BY <1>2, <1>4, Constants DEF AfterBuffer, ClockInv
<1>6. BeforeCutoff(g) => ~AfterBuffer(g)'
  BY <1>2, <1>4, BeforeCutoffTime, Constants DEF AfterBuffer, ClockInv
<1> QED
  BY <1>3, <1>5, <1>6

(* ... and every epoch ends after it and begins before it.                 *)
LEMMA GapAtEdge ==
  ASSUME TypeOK, TypeOK', ClockInv, ClockInv', now' = now + 1, NextEpoch,
         NEW g \in Operators
  PROVE  /\ ~BeforeCutoff(g) /\ AfterBuffer(g)
         /\ BeforeCutoff(g)' /\ ~AfterBuffer(g)'
<1> DEFINE c == CutoffSlot(g)
           w == handover_window[g]
           r == now % SlotTime
           q == now' % SlotTime
<1>1. /\ c \in Nat /\ w \in Nat
      /\ current_slot \in Nat /\ current_slot + 1 = c + w
  BY CutoffType, ClockType, Constants DEF ClockInv, NextEpoch
<1>2. Buffer + 1 < w * SlotTime
  BY WindowAssumption DEF TypeOK
<1>3. now = SlotTime * current_slot + r /\ r \in 0 .. SlotTime - 1
  BY Constants, Division DEF ClockInv, current_slot, SlotAt
<1>4. now + 1 = SlotTime * (current_slot + 1) + q /\ q \in 0 .. SlotTime - 1
  BY Constants, Division DEF ClockInv, current_slot, SlotAt, NextEpoch
<1>5. ~BeforeCutoff(g)
  <2>1. w # 0
    BY <1>1, <1>2, Constants
  <2> QED
    BY <1>1, <2>1 DEF BeforeCutoff
<1>6. AfterBuffer(g)
  <2> HIDE DEF c, w, r, q
  <2>1. SlotTime * (current_slot + 1) = SlotTime * current_slot + SlotTime
        /\ SlotTime * current_slot \in Nat
    BY <1>1, Constants
  <2>2. now + 1 = SlotTime * (current_slot + 1)
    BY <1>3, <1>4, <2>1, Constants
  <2>3. SlotTime * (c + w) = c * SlotTime + w * SlotTime
        /\ c * SlotTime \in Nat /\ w * SlotTime \in Nat
    BY <1>1, Constants
  <2>4. now > c * SlotTime + Buffer
    BY <1>1, <1>2, <2>2, <2>3, Constants DEF ClockInv
  <2> QED
    BY <2>4 DEF AfterBuffer, TimeOfSlot, c
<1>7. BeforeCutoff(g)'
  <2>1. (slot_in_epoch <= FirstUpdate + 1)'
    BY Constants DEF NextEpoch
  <2> QED
    BY <2>1, StaleBeforeCutoff, PTL
<1>8. ~AfterBuffer(g)'
  BY <1>7, GapBetween, PTL
<1> QED
  BY <1>5, <1>6, <1>7, <1>8

PhaseFollows(g) == Phase(g)' \in FollowingTurns[Phase(g)] \cup {Phase(g)}

(* The successors of every phase, one at a time.                           *)
LEMMA Following ==
  /\ FollowingTurns["off"] = {"next", "handed", "disabled"}
  /\ FollowingTurns["next"] = {"current", "disabled"}
  /\ FollowingTurns["current"] = {"clearing", "disabled"}
  /\ FollowingTurns["clearing"] = {"handed", "disabled"}
  /\ FollowingTurns["handed"] = {"off"}
  /\ FollowingTurns["disabled"] = {"off", "next", "current", "clearing"}
BY DEF FollowingTurns, Turns

(* A step of a gateway moves its phase only where it polls the wrapper.    *)
LEMMA PhaseOfGatewayStep ==
  ASSUME TypeOK, PhasesTrue, NEW f \in Operators, GatewayStep(f),
         NEW g \in Operators, handover_window'[g] = handover_window[g]
  PROVE  PhaseFollows(g)
<1>1. UNCHANGED <<now, operator_of>>
  BY DEF GatewayStep, Start, BootCurrent, BootNext, SkipUpdate, BeginUpdate,
         AskCurrent, AskNext, MaybeRefresh, PollWrapper, PollRouter, Crash,
         l1Vars
<1>2. /\ UNCHANGED <<current_slot, current_epoch>>
      /\ Mine(g)' = Mine(g) /\ NextMine(g)' = NextMine(g)
      /\ BeforeCutoff(g)' = BeforeCutoff(g) /\ AfterBuffer(g)' = AfterBuffer(g)
      /\ OthersTurn(g)' = OthersTurn(g)
  BY <1>1, SameClock
     DEF Mine, NextMine, BeforeCutoff, AfterBuffer, CutoffSlot, OthersTurn,
         HandedOver
<1>3. CASE preconfs_enabled'[g] = preconfs_enabled[g]
  BY <1>2, <1>3 DEF Phase, PhaseFollows
<1>4. CASE preconfs_enabled'[g] # preconfs_enabled[g]
  <2>1. preconfs_enabled[g] \in BOOLEAN /\ preconfs_enabled'[g] \in BOOLEAN
    <3>1. preconfs_enabled' \in [Operators -> BOOLEAN]
      BY DEF TypeOK, GatewayStep, Start, BootCurrent, BootNext, SkipUpdate,
             BeginUpdate, AskCurrent, AskNext, MaybeRefresh, PollWrapper,
             PollRouter, Crash, flagVars
    <3> QED
      BY <3>1 DEF TypeOK
  <2>2. OthersTurn(g) <=>
          \/ AfterBuffer(g) /\ ~NextMine(g)
          \/ ~Mine(g) /\ (BeforeCutoff(g) \/ ~NextMine(g))
    BY DEF OthersTurn, HandedOver, Mine, NextMine
  <2>3. BeforeCutoff(g) => ~AfterBuffer(g)
    BY DEF PhasesTrue
  <2> QED
    BY <1>2, <1>4, <2>1, <2>2, <2>3, Following DEF Phase, PhaseFollows
<1> QED
  BY <1>3, <1>4

LEMMA PhaseOfTick ==
  ASSUME TypeOK, TypeOK', ClockInv, ClockInv', PhasesTrue, PhasesTrue', Tick,
         NEW g \in Operators, handover_window'[g] = handover_window[g]
  PROVE  PhaseFollows(g)
<1>1. /\ now' = now + 1 /\ UNCHANGED <<operator_of, preconfs_enabled>>
      /\ now \in Nat
  BY DEF Tick, l1Vars, ClockInv
<1>2. /\ OthersTurn(g) <=>
           \/ AfterBuffer(g) /\ ~NextMine(g)
           \/ ~Mine(g) /\ (BeforeCutoff(g) \/ ~NextMine(g))
      /\ OthersTurn(g)' <=>
           \/ AfterBuffer(g)' /\ ~NextMine(g)'
           \/ ~Mine(g)' /\ (BeforeCutoff(g)' \/ ~NextMine(g)')
  BY DEF OthersTurn, HandedOver, Mine, NextMine
<1>3. CASE SameSlot \/ NextSlot
  <2>1. Mine(g)' = Mine(g) /\ NextMine(g)' = NextMine(g)
    BY <1>1, <1>3 DEF Mine, NextMine, SameSlot, NextSlot
  <2>2. /\ ~BeforeCutoff(g) => ~BeforeCutoff(g)'
        /\ AfterBuffer(g) => AfterBuffer(g)'
        /\ BeforeCutoff(g) => ~AfterBuffer(g) /\ ~AfterBuffer(g)'
    BY <1>1, <1>3, GapInEpoch DEF PhasesTrue
  <2> QED
    BY <1>1, <1>2, <2>1, <2>2, Following DEF Phase, PhaseFollows
<1>4. CASE NextEpoch
  <2>1. Mine(g)' = NextMine(g)
    BY <1>1, <1>4 DEF Mine, NextMine, NextEpoch
  <2>2. /\ ~BeforeCutoff(g) /\ AfterBuffer(g)
        /\ BeforeCutoff(g)' /\ ~AfterBuffer(g)'
    BY <1>1, <1>4, GapAtEdge
  <2> QED
    BY <1>1, <1>2, <2>1, <2>2, Following DEF Phase, PhaseFollows
<1> QED
  BY <1>1, <1>3, <1>4, TickClock

(* Phases follow each other as the sequencer is told they do: no step of   *)
(* the clock, a poll or a restart skips one, unless the window changed.    *)
THEOREM PhasesFollow == Spec => TurnsFollow
<1> DEFINE Inv == TypeOK /\ ClockInv /\ PhasesTrue
           Follow ==
             \A g \in Operators :
               Informed(g) /\ Informed(g)'
               /\ handover_window'[g] = handover_window[g] =>
                 TurnOf(g)' \in FollowingTurns[TurnOf(g)] \cup {TurnOf(g)}
<1>1. Spec => []Inv
  BY LookaheadTypes, PhaseInvariant, PTL
<1>2. ASSUME Inv, Inv', [Next]_vars, NEW g \in Operators,
             handover_window'[g] = handover_window[g]
      PROVE  PhaseFollows(g)
  <2>1. CASE \E f \in Operators : GatewayStep(f)
    BY <1>2, <2>1, PhaseOfGatewayStep
  <2>2. CASE NewBlock \/ UNCHANGED vars
    <3>1. UNCHANGED <<now, operator_of, preconfs_enabled, handover_window>>
      BY <2>2 DEF NewBlock, vars, l1Vars, flagVars
    <3>2. /\ UNCHANGED <<current_slot, current_epoch>>
          /\ Mine(g)' = Mine(g) /\ NextMine(g)' = NextMine(g)
          /\ BeforeCutoff(g)' = BeforeCutoff(g)
          /\ AfterBuffer(g)' = AfterBuffer(g)
          /\ OthersTurn(g)' = OthersTurn(g)
      BY <3>1, SameClock
         DEF Mine, NextMine, BeforeCutoff, AfterBuffer, CutoffSlot,
             OthersTurn, HandedOver
    <3> QED
      BY <3>1, <3>2 DEF Phase, PhaseFollows
  <2>3. CASE Tick
    BY <1>2, <2>3, PhaseOfTick
  <2> QED
    BY <1>2, <2>1, <2>2, <2>3 DEF Next
<1>3. Inv /\ Inv' /\ [Next]_vars => [Follow]_vars
  BY <1>2 DEF PhasesTrue, PhaseFollows
<1>4. Spec => [][Follow]_vars
  BY <1>1, <1>3, PTL DEF Spec
<1> QED
  BY <1>4 DEF TurnsFollow

=============================================================================
