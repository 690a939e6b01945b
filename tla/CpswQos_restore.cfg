SPECIFICATION Spec
CONSTANTS
  Speeds = {100, 1000}
  Slopes = {40000, 99000, 400000}
  Prios = {1, 3}
  Cookies = {"c1", "c2"}
  Rates = {500, 2000, 300000}
  MaxOps = 5
INVARIANTS LeavesRoom QosKept
CHECK_DEADLOCK FALSE
