SPECIFICATION Spec
CONSTANTS
  Ports = {0, 1, 2}
  HOST = 0
  Vids = {0, 1, 2, 10}
  Stations = {"m1", "m2", "m3"}
  Groups = {"bcast", "stp", "g"}
  STPA = "stp"
  BCAST = "bcast"
  Entries = 10
  PortVlan <- MCPortVlan
  FirstMac <- MCFirstMac
  MaxOps = 6
INVARIANTS InterfacesServed NothingLeft FloodsAsAsked PortsApart
CHECK_DEADLOCK FALSE
