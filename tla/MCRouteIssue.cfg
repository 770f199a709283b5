CONSTANTS
  Order = {o1, o2}
  Route = {r1, r2}
  Courier = {c1, c2}
  Cell = {s1}
  Storage = Storage
  None = None
SYMMETRY Symmetry
SPECIFICATION Spec
CONSTRAINT OneCancellation
INVARIANTS
  SessionFitsRoute
  IssuedIsNotEdited
PROPERTIES
  NoInheritedMark
  ShippedAsChecked
  ShelfIsKept
  KeepsSheets
CHECK_DEADLOCK FALSE
