SPECIFICATION FairSpec
CONSTANTS
  eth0 = eth0
  eth1 = eth1
  Ndevs <- TwoDevs
  NONE = NONE
  TxNum = 3
  RxNum = 2
  Smp = FALSE
  HasTimeout = TRUE
INVARIANTS
  RingKept
PROPERTIES
  QueueRestarts
