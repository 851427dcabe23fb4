SPECIFICATION Spec
CONSTANTS
  p1 = p1 p2 = p2 s1 = s1 l1 = l1 l2 = l2 c1 = c1 c2 = c2 n1 = n1 n2 = n2
  e1 = e1 e2 = e2 h1 = h1 h2 = h2
  None = None
  Projects = {p1}
  Stores = {s1}
  Lookups = {l1}
  Callbacks = {c1, c2}
  Nonces = {n1}
  Events = {e1}
  Handlers = {h1}
  MaxTokens = 3
  MaxRestarts = 0
SYMMETRY Alike
INVARIANTS AlwaysCleared
CHECK_DEADLOCK FALSE
