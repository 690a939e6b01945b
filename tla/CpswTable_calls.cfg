SPECIFICATION TableSpec
CONSTANTS
  Ports = {0, 1}
  HOST = 0
  Vids = {0, 1}
  Stations = {"s"}
  Groups = {"bcast", "g"}
  BCAST = "bcast"
  Entries = 2
  Masks <- MCMasks
  MaxLearn = 1
INVARIANTS KeysUnique UntagAgrees LeftForGood
PROPERTIES ImplementsMap
