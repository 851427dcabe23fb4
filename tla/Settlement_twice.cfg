SPECIFICATION Spec
CONSTANTS
  a = a
  b = b
  n1 = n1
  n2 = n2
  n3 = n3
  r1 = r1
  r2 = r2
  None = None
  Payments = {a, b}
  Renewals = {}
  Mismatched = {}
  OddCaptures = {}
  Requests = {r1}
  Kinds = {"poll", "confirm"}
  MaxInFlight = 1
  MaxCrashes = 1
  MaxFailures = 0
  Month = 2
  Grace = 1
  Lead = 1
  MaxTime = 1
PROPERTY ExtendsOnce
CHECK_DEADLOCK FALSE
