SPECIFICATION Spec
CONSTANTS
  a = a
  b = b
  n1 = n1
  n2 = n2
  n3 = n3
  r1 = r1
  r2 = r2
  None = None
  Payments = {a, n1}
  Renewals = {n1}
  Mismatched = {n1}
  OddCaptures = {n1}
  Requests = {r1, r2}
  Kinds = {"webhook", "confirm", "paypal", "renewals"}
  MaxInFlight = 2
  MaxCrashes = 1
  MaxFailures = 0
  Month = 2
  Grace = 1
  Lead = 1
  MaxTime = 4
SYMMETRY HandlerSymmetry
INVARIANTS PaidMeansMoney AccessIsPaidFor WonOnlyAfterActivation
CHECK_DEADLOCK FALSE
