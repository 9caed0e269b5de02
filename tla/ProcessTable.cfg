\* Three passes, two of them at a time, a pid reused, a cut of one process per measure.
SPECIFICATION Spec
CONSTANTS
  Pids = {1, 2}
  Mortal = {2}
  Threads = {t1, t2}
  Sizes = {1}
  TopMem = 1
  TopCpu = 1
  MaxTime = 3
  MaxPasses = 3
SYMMETRY Symmetry
INVARIANTS OwnDelta NoSampleRefused OneSamplePerPid
PROPERTY BusiestListed
CHECK_DEADLOCK FALSE
