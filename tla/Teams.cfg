\* Users join, leave and fund teams while accounts change and calls debit wallets.
SPECIFICATION Spec
CONSTANTS
  ann = ann  ben = ben  cyd = cyd  red = red  blue = blue
  Users = {ann, ben, cyd}
  Teams = {red, blue}
  Invites = {i1}
  Tokens = {k1}
  Keys = {f1, f2}
  Handlers = {h1, h2}
  DefaultSeats = 3
  Seats = {2}
  Credits = {1, 2}
  WalletId <- IdsOf
  None = None
  Scenarios <- AllScenarios
CHECK_DEADLOCK FALSE
SYMMETRY Alike
INVARIANTS Membership TransfersSound
PROPERTIES JoinsAsAllowed
