SPECIFICATION Spec
CONSTANTS
  Operators = {A, B}
  Zero = Zero
  SlotTime = 2
  SlotsPerEpoch = 7
  FirstUpdate = 2
  Buffer = 1
  DefaultWindow = 2
  Windows = {2, 3}
  MaxMissed = 2
  FirstEpoch = 1
  MaxTime = 20
INVARIANTS TypeOK LookaheadTrue OneSequencer OneProposer TurnNotIdle
PROPERTIES TurnsFollow
SYMMETRY Symmetry
