SPECIFICATION Spec
CONSTANTS
  a = a
  b = b
  n1 = n1
  n2 = n2
  n3 = n3
  r1 = r1
  r2 = r2
  None = None
  Payments = {a, b, n1, n2}
  Renewals = {n1, n2}
  Mismatched = {b}
  OddCaptures = {b}
  Requests = {r1}
  Kinds = {"poll", "capture", "webhook", "confirm", "paypal", "renewals"}
  MaxInFlight = 1
  MaxCrashes = 0
  MaxFailures = 1
  Month = 2
  Grace = 1
  Lead = 1
  MaxTime = 6
INVARIANTS NeverChargedTwice OneRenewalPerPeriod
PROPERTIES SettledIsNotRedecided ImplementsEntitlement
CHECK_DEADLOCK FALSE
