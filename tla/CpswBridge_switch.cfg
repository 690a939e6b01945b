SPECIFICATION Spec
CONSTANTS
  Ports = {0, 1, 2}
  HOST = 0
  Vids = {0, 1, 2}
  Stations = {"m1", "m2", "s"}
  Groups = {"bcast", "stp", "g"}
  BCAST = "bcast"
  STPA = "stp"
  Entries = 9
  PortVlan <- MCPortVlan
  Mac <- MCMac
  BrVids = {1}
  Bridges = {br0, br1}
  None = None
  Untagged = {TRUE}
  OwnAddr = {1}
  GroupPorts = {0, 1}
  MaxOps = 3
INVARIANTS Membership ModeEntries BridgeFollows
SYMMETRY MCBridges
CHECK_DEADLOCK FALSE
