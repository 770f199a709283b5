CONSTANTS
  Order = {o1, o2}
  Route = {r1, r2}
  Courier = {c1}
  None = None
SYMMETRY Symmetry
SPECIFICATION Spec
PROPERTIES
  LastResolvedCompletes
CHECK_DEADLOCK FALSE
