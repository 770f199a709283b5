CONSTANTS
  Order = {o1}
  Address = {a1, a2}
  Geocoder = {w1, w2}
  Unknown = Unknown
  MaxGen = 2
  MaxTries = 2
  Document = {1, 2}
  Overlap = 0
  LastMoment = 1
  MaxEdition = 2
  Sheet = {a1, a2}
  MaxSeq = 5
  MaxLate = 1
  Attempt = {d1}
  NoAttempt = NoAttempt
  Sum = 1
  PerOrder = 1
  MaxKm = 1
  LastDay = 2
  MaxCancels = 2
  MaxPayments = 1
  MaxRestated = 2
  MaxByHand = 1
  File = {a1, a2}
  Phone = {n1}
  Copy = {1, 2}
  Payee = {p1, p2}
  NoPayee = NoPayee
  Form = {w1, w2}
  ByHand = {b1}
SYMMETRY ExchangeSymmetry
VIEW ExchangeView
SPECIFICATION ExchangeSpec
INVARIANTS
  ExchangeTypeOK
  PointIsForQuery
  AnswerClosesJob
  NextDeltaAsks
  CompositionIsAwaited
  OutcomeIsShown
  CancelledOrderIsZero
  PostedAsApproved
PROPERTIES
  ManualPointStays
CHECK_DEADLOCK FALSE
