CONSTANTS
  t1 = t1
  t2 = t2
  t3 = t3
  Tids <- MCTids
  crash_thread = t2
  Late <- MCLate
  StackLen = 5000
  IpLen = 250
  BuildIdLen = 20
  FileLen = 2000
  DynamicLen = 120
  Unmapped <- MCUnmapped
  NumModules = 1
  Identified = {1}
  MaxDsos = 2
  Spelling <- MCSpelling
  PageSize = 16
  BufSize = 1016
  MaxFaults = 1
SPECIFICATION Spec
INVARIANTS ListedAreStopped ThreadsReleased  CrashIsBlamed
PROPERTIES WriterReturns
CHECK_DEADLOCK FALSE
