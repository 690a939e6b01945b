SPECIFICATION FairSpec
CONSTANTS
  eth0 = eth0
  eth1 = eth1
  Ndevs <- OneDev
  NONE = NONE
  TxNum = 2
  RxNum = 2
  Smp = TRUE
  HasTimeout = FALSE
INVARIANTS
  PoolBalanced
  NoLostWakeup
PROPERTIES
  QueueRestarts
