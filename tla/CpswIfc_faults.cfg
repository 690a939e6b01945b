SPECIFICATION FairSpec
CONSTANTS
  N = 2
  MaxRx = 2
  OpenFaults <- AllOpenFaults
  ResumeFaults <- AllResumeFaults
  EthtoolFaults <- EthtoolFaultsButFill
  Links = TRUE
INVARIANTS
  UsageCounted
  Served
  PoolOutlivesPages
PROPERTIES
  RtnlReleased
CHECK_DEADLOCK FALSE
