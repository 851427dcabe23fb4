SPECIFICATION FairSpec
CONSTANTS
  a = a
  b = b
  n1 = n1
  n2 = n2
  n3 = n3
  r1 = r1
  r2 = r2
  None = None
  Payments = {a, n1}
  Renewals = {n1}
  Mismatched = {}
  OddCaptures = {}
  Requests = {r1}
  Kinds = {"confirm", "webhook", "renewals"}
  MaxInFlight = 1
  MaxCrashes = 1
  MaxFailures = 0
  Month = 2
  Grace = 1
  Lead = 1
  MaxTime = 4
PROPERTY PaidRenewalExtends
CHECK_DEADLOCK FALSE
