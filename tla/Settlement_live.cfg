SPECIFICATION EventsSpec
CONSTANTS
  a = a
  b = b
  r1 = r1
  r2 = r2
  None = None
  Payments = {a}
  Renewals = {}
  Mismatched = {}
  OddCaptures = {}
  Requests = {r1, r2}
  Kinds = {"poll", "capture", "webhook", "paypal", "confirm"}
  MaxInFlight = 2
  MaxCrashes = 1
  MaxFailures = 2
  Month = 2
  Grace = 1
  Lead = 1
  MaxTime = 1
PROPERTY CapturedIsHonoured
CHECK_DEADLOCK FALSE
