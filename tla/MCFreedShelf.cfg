CONSTANTS
  Order = {o1, o2}
  Route = {r1, r2}
  Courier = {c1}
  Cell = {s1, s2}
  Storage = Storage
  None = None
SPECIFICATION Spec
PROPERTIES
  FreedShelfIsEmpty
CHECK_DEADLOCK FALSE
