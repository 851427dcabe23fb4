SPECIFICATION OfficeSpec
CONSTANTS
  p1 = p1 p2 = p2 k1 = k1 a1 = a1 a2 = a2 g1 = g1 g2 = g2 v1 = v1 e1 = e1 e2 = e2 e3 = e3
  m1 = m1 n1 = n1 n2 = n2 f1 = f1 f2 = f2 b1 = b1 b2 = b2 b3 = b3 x1 = x1 x2 = x2
  Payments = {p1, p2}
  Subtotal <- UnevenSubtotals
  Clerks = {x1, x2}
  MaxErrands = 3
  NoPayment = NoPayment
  NoClerk = NoClerk
  Uses = {x1, x2}
  Recorders = {x1, x2}
  Passes = {x1, x2}
  Allowance = 0
  MaxWindow = 2
  MaxStage = 1
  MaxRecords = 2
  MaxRounds = 2
  NoUse = NoUse
  Contacts = {k1}
  Workers = {x1, x2}
  MaxReplies = 2
  MaxCalls = 4
  MaxTurns = 2
  NoContact = NoContact
  AgentTasks = {a1, a2}
  Providers = {g1, g2}
  Primary = g1
  Chain <- OneFallback
  Strict = {a1}
  Threshold = 2
  Attempts = 2
  Schedules = {x1, x2}
  Callers = {x1, x2}
  MaxBoots = 1
  Recipients = {v1}
  Anyone = Anyone
  Senders = {x1, x2}
  DailyLimit = 1
  MaxOutbox = 3
  MaxReceipts = 1
  MaxTemplates = 1
  Sales = {e1, e2, e3}
  Nameless = {e2}
  MaxResent = 2
  Intakes = {x1, x2}
  MailOf <- Addresses
  PhoneOf <- Numbers
  NoValue = NoValue
  NoSale = NoSale
  Projects = {f1, f2}
  Orders = {b1, b2, b3}
  Handlers = {x1, x2}
  ProjectOf <- OrderedFor
  Seats = 1
  NoOrder = NoOrder
SYMMETRY Alike
INVARIANTS BooksSafe Collected TenantChatSafe GatewaySafe JobsMatchSchedules
   IntakeSafe FoundingSafe
CHECK_DEADLOCK FALSE
