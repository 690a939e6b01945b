SPECIFICATION FairSpec
CONSTANTS
  d1 = d1
  d2 = d2
  d3 = d3
  Descs <- TwoDescs
  DescNum = 2
  NULL = NULL
  TeardownTimesOut = FALSE
PROPERTIES
  ImplementsFifo
  Reclaimed
  StopTerminates
