SPECIFICATION OperationsSpec
CONSTANTS
  cat1 = cat1
  cat2 = cat2
  mod1 = mod1
  unit1 = unit1
  ship1 = ship1
  perm1 = perm1
  perm2 = perm2
  esc1 = esc1
  restr1 = restr1
  axle1 = axle1
  chk1 = chk1
  chk2 = chk2
  cert1 = cert1
  p1 = p1
  p2 = p2
  m1 = m1
  m2 = m2
  k1 = k1
  k2 = k2
  e1 = e1
  e2 = e2
  u1 = u1
  g1 = g1
  t1 = t1
  t2 = t2
  c1 = c1
  c2 = c2
  n1 = n1
  n2 = n2
  a1 = a1
  a2 = a2
  a3 = a3
  i1 = i1
  i2 = i2
  w1 = w1
  w2 = w2
  x1 = x1
  x2 = x2
  d1 = d1
  d2 = d2
  l1 = l1
  l2 = l2
  v1 = v1
  v2 = v2
  h1 = h1
  h2 = h2
  s1 = s1
  s2 = s2
  o1 = o1
  o2 = o2
  f1 = f1
  f2 = f2
  f3 = f3
  r1 = r1
  r2 = r2
  None = None
  Ids <- MCIds
  Scopes <- MCScopes
  Unversioned = {k1, k2, e1, e2}
  Requests = {r1, r2}
  CallsOf <- MCCallsOf
  Categories = {cat1, cat2}
  Models = {mod1}
  Units = {unit1}
  Shipments = {ship1}
  Conditions <- MCConditions
  Permits = {perm1, perm2}
  Escorts = {esc1}
  Restrictions = {restr1}
  AxleProfiles = {axle1}
  Checks = {chk1, chk2}
  Certifications = {cert1}
  Partners = {p1, p2}
  Names = {m1, m2}
  ApiKeys = {k1, k2}
  InboundEvents = {e1, e2}
  Tags = {g1}
  Subscriptions = {u1}
  Templates = {t1, t2}
  TemplateCodes = {c1, c2}
  Notifications = {n1, n2}
  Attempts = {a1, a2, a3}
  Keys = {i1, i2}
  EventKeys = {i1}
  MaxAttempts = 3
  Accounts = {w1, w2}
  Emails = {x1, x2}
  Drivers = {d1, d2}
  Licences = {l1, l2}
  Vehicles = {v1, v2}
  Plates = {h1, h2}
  Warehouses = {s1, s2}
  Codes = {o1, o2}
  RefreshTokens = {f1, f2, f3}
CHECK_DEADLOCK FALSE
SYMMETRY Symmetry
INVARIANTS
  ComplianceInv
  AvailabilityAgrees
  GateImpliesVerdicts
  PartnersInv
  ReceivedOnce
  NotificationsInv
  DeliveredOnce
  AccessInv
PROPERTIES
  DecidedStaysDecided
  KeysStayRevoked
