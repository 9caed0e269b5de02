\* As deployed: one key per decorated collector.
SPECIFICATION FairSpec
CONSTANTS
  Keys = {k1}
  Callers = {c1, c2, c3}
  Locks = {l1, l2}
  NoKey = NoKey
  NoLock = NoLock
  NoCaller = NoCaller
  Seconds = 2
  RetryAfter = 1
  MaxSize = 1
  MaxTime = 2
INVARIANTS SingleFlight NoRerunAfterFailure RaisedWhileWaiting ServedFresh
PROPERTIES ImplementsPromise EveryCallEnds
