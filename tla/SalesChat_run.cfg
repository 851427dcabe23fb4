SPECIFICATION SalesSpec
CONSTANTS
  l1 = l1 m1 = m1 m2 = m2 h1 = h1 h2 = h2 c1 = c1 o1 = o1 o2 = o2 n1 = n1 n2 = n2
  None = None
  Leads = {l1}
  Messages = {m1, m2}
  SenderOf <- OneLead
  TextOf <- AskThenStop
  Handlers = {h1, h2}
  Jobs = {"message", "approve", "reject", "stage", "link", "followups"}
  OwnerStages = {"paid", "offer_sent"}
  OwnerModes = {"auto"}
  Approved = TRUE
  MaxFollowups = 1
  MaxDeliveries = 2
  MaxDrafts = 2
  MaxInvoices = 1
  MaxRequests = 4
  MaxRestarts = 1
  Companies = {c1}
  Desks = {h1, h2}
  Intents = {"OPT_OUT", "INTERESTED"}
  OwnerChoices = {"NEW"}
  MaxStarts = 4
  NoCompany = NoCompany
  Phones = {o1, o2}
  Emails = {m1}
  Names = {n1, n2}
  Blank = Blank
  MaxRows = 3
SYMMETRY HandlerSymmetry
INVARIANTS OptOutHonoured DecidedOnce AnsweredOnce FollowupsBounded LeadsSafe MergeSafe
PROPERTIES PaidStaysPaid
CHECK_DEADLOCK FALSE
