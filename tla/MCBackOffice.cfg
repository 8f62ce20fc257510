SPECIFICATION BackOfficeSpec
CONSTANTS
  p1 = p1
  u1 = u1
  c1 = c1
  d1 = d1
  l1 = l1
  l2 = l2
  l3 = l3
  s1 = s1
  s2 = s2
  o1 = o1
  i1 = i1
  e1 = e1
  e2 = e2
  k1 = k1
  k2 = k2
  n1 = n1
  n2 = n2
  v1 = v1
  w1 = w1
  x1 = x1
  q1 = q1
  r1 = r1
  r2 = r2
  None = None
  Ids <- MCIds
  Scopes <- MCScopes
  Unversioned = {}
  Requests = {r1, r2}
  CallsOf <- MCCallsOf
  Policies = {p1}
  CoverageRules = {u1}
  Claims = {c1}
  DamageReports = {d1}
  LiabilityRecords = {l1, l2, l3}
  Settlements = {s1, s2}
  Payouts = {o1}
  Invoices = {i1}
  Consumptions = {e1, e2}
  Customers = {k1, k2}
  Numbers = {n1, n2}
  Orders = {v1}
  Users = {w1}
  Cancellations = {x1}
  Quotes = {q1}
  Prices = {0, 1, 2}
  Amounts = {1, 2}
  Shares = {50, 60}
  Overrides = {FALSE, TRUE}
CHECK_DEADLOCK FALSE
SYMMETRY Symmetry
INVARIANTS
  ClaimsInv
  OnlyUnseenExceed
  CommerceInv
  NumbersDistinct
  CompensationTold
PROPERTIES
  NoLostUpdate
  DecidedStaysDecided
  EndedStaysEnded
