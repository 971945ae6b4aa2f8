\* Logins whose polls are repeated, lost and late, and whose users are disabled.
SPECIFICATION Spec
CONSTANTS
  ann = ann  ben = ben  c1 = c1  c2 = c2
  Users = {ann, ben}
  Codes = {d1, d2}
  Tokens = {k1, k2}
  Clients = {c1, c2}
  Handlers = {h1, h2}
  Life = 3
  None = None
  Scenarios <- AllScenarios
CHECK_DEADLOCK FALSE
SYMMETRY Alike
INVARIANTS OneTokenPerCode
PROPERTIES TokensGated ApprovalNotMissed
