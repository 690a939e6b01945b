SPECIFICATION Spec
CONSTANTS
  eth0 = eth0
  eth1 = eth1
  Ndevs <- TwoDevs
  NONE = NONE
  TxNum = 2
  RxNum = 2
  Smp = TRUE
  HasTimeout = FALSE
INVARIANTS
  RingKept
