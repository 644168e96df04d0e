CONSTANTS
  t1 = t1
  t2 = t2
  bugly = bugly
  other = other
  segv = segv
  abrt = abrt
  Threads <- MCThreads
  Handlers <- MCHandlers
  Claimers <- MCClaimers
  Signals <- MCSignals
  SIGABRT = abrt
  Crashes <- MCCrashes
  MaxLost = 1
SPECIFICATION Spec
INVARIANTS DumpBlamesItsThread ContinueMeansAllowed
PROPERTIES ImplementsCapture FaultEndsProcess ChildEnds
CHECK_DEADLOCK FALSE
