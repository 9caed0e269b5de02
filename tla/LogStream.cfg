\* Two logs opened one after the other, more lines than fit, clients that leave.
SPECIFICATION FairSpec
CONSTANTS
  LogMax = 1
  MaxSockets = 2
  MaxLines = 2
INVARIANTS OwnLines NoGap TextBounded NoOrphan
PROPERTY TailEnds
CHECK_DEADLOCK FALSE
