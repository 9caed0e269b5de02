\* Ages through three nested caches.
SPECIFICATION FairSpec
CONSTANTS
  Seconds = 3
  RetryAfter = 1
  Slow = 2
  Certs = 3
  MaxTime = 1000
VIEW View
INVARIANTS BlipForgotten AgeBounded
PROPERTY OverviewAnswered
