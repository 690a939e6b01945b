SPECIFICATION NapiFairSpec
CONSTANTS
  MaxCh = 2
  MaxWork = 2
  Budget = 2
  EINVAL = 1
INVARIANTS NothingMasked LineBalanced PolledChannelsLive
PROPERTIES NoInterruptWhenStopped Polled
