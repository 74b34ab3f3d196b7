SPECIFICATION Spec
CONSTANTS
  XApps = {x1}
  Nodes = {n1, n2}
  MaxStarts = 2
  MaxFaults = 1
SYMMETRY NodeXAppSymmetry
INVARIANTS TypeOK FailuresForeseen TablesAgree IdsAreOwn NodesAnnounced NobodyWaits
CHECK_DEADLOCK FALSE
