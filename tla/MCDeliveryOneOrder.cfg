CONSTANTS
  Order = {o1}
  Route = {r1, r2}
  Courier = {c1, c2}
  None = None
SYMMETRY Symmetry
SPECIFICATION Spec
INVARIANTS
  OnePromise
  FailureHasObligations
  OneObligation
PROPERTIES
  OnlyAcceptanceFrees
  DecisionIsFinal
  KeepsCase
CHECK_DEADLOCK FALSE
