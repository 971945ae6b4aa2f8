\* Adjustments are sent again, codes are redeemed at once and admins are disabled.
SPECIFICATION Spec
CONSTANTS
  root = root  ann = ann  ben = ben  c1 = c1  c2 = c2  a1 = a1  a2 = a2
  Users = {root, ann, ben}
  Codes = {c1, c2}
  Worth = 2
  Keys = {a1, a2}
  Deltas <- UpAndDown
  Handlers = {h1, h2, h3}
  None = None
  Scenarios <- AllScenarios
CHECK_DEADLOCK FALSE
SYMMETRY Alike
INVARIANTS LedgerExplains RetryAnsweredAlike
PROPERTIES MovedByEnabled
