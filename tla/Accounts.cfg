\* Admins, tabs of browsers and starting replicas.
SPECIFICATION Spec
CONSTANTS
  root = root  ann = ann
  Names = {root, ann}
  Root = root
  Sessions = {s1, s2}
  Cookies = {x1, x2, x3}
  Handlers = {h1, h2, h3}
  None = None
  Scenarios <- AllScenarios
CHECK_DEADLOCK FALSE
SYMMETRY Alike
INVARIANTS AdminsAgree
PROPERTIES ChangedByAdmin CookiesKept
