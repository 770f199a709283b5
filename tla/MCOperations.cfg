CONSTANTS
  Token = {t1, t2, t3, t4}
  Family = {a1, a2}
  Req = {w1, w2}
  Nobody = Nobody
  Person = {p1, p2}
  Boss = p1
  Number = {a1, a2}
  MaxSecret = 3
  Run = {r1, r2}
  Planner = {w1, w2}
  NoPlanner = NoPlanner
  MaxRecoveries = 1
  MaxLabel = 1
  MaxDeliveries = 2
  MaxClaims = 2
  Bouquet = {b1}
  Florist = {f1, f2}
  Chief = f1
  Shift = {a1, a2}
  NoOne = NoOne
  MaxOpen = 1
  Editor = {a1, a2}
  Ttl = 3
  MaxLag = 2
  MaxId = 3
  MaxTime = 5
  Window = 4
  EventTtl = 4
  Batch = 2
  MaxTx = 1
  MaxGap = 1
  Skew = 1
SYMMETRY OperationsSymmetry
VIEW OperationsView
SPECIFICATION OperationsSpec
INVARIANTS
  OneLiveLeaf
  ReplayIsLive
  LockedOutHasNoSession
  AnAdminIsLeft
  SessionIsCurrent
  DraftsIffApplied
  SentWasPrinted
  LateCommitsArrive
  NothingAfterTheEnd
PROPERTIES
  AssembledOnDuty
  IssuedIsNoWork
  LeaseIsExclusive
CHECK_DEADLOCK FALSE
