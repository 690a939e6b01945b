SPECIFICATION Spec
CONSTANTS
  d1 = d1
  d2 = d2
  d3 = d3
  Descs <- ThreeDescs
  DescNum = 3
  NULL = NULL
  TeardownTimesOut = TRUE
SYMMETRY Symmetry
INVARIANTS
  TypeOK
  ListIsQueue
  Accounting
  HwInQueue
  NoLostDescriptor
  CleanedNotSent
PROPERTIES
  HdpNotOverwritten
