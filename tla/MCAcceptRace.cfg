CONSTANTS
  Order = {o1}
  Route = {r1, r2}
  Courier = {c1}
  None = None
SYMMETRY Symmetry
SPECIFICATION Spec
INVARIANTS
  AcceptedReturnHasFailure
CHECK_DEADLOCK FALSE
