\* Calls of a user's tokens, or anonymous requests, across window boundaries.
SPECIFICATION Spec
CONSTANTS
  t1 = t1  t2 = t2  user = user  p1 = p1  p2 = p2  all = all
  Budgets = {t1, t2, user, p1, p2, all}
  Expiring = {p1, p2}
  Limit <- Limits
  Length <- Lengths
  Paths <- AllPaths
  Callers = {c1, c2}
  MaxTime = 4
  MaxRequests = 5
CHECK_DEADLOCK FALSE
CONSTRAINT Searched
SYMMETRY Alike
INVARIANTS WithinBudget RefusedWhenSpent
PROPERTIES ForgottenWhenOver
