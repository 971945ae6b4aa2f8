\* Two members of a team spend its wallet while tokens are revoked, members
\* removed, users disabled and tools and rates changed.
SPECIFICATION Spec
CONSTANTS
    u1 = u1  u2 = u2  w1 = w1  w2 = w2  t1 = t1  t2 = t2  k1 = k1  k2 = k2
    echo = echo  basic = basic  gold = gold  c1 = c1  c2 = c2  r1 = r1  r2 = r2  none = none
    Users = {u1, u2}
    Wallets = {w1}
    Tokens = {t1, t2}
    Keys = {k1}
    Tools = {echo}
    Roles = {basic, gold}
    Callers = {c1, c2}
    Replicas = {r1}
    TokenUser <- TeamUser
    TokenWallet <- TeamWallet
    WalletUser <- TeamOwner
    NoUser = none
    Requests <- FreshKeys
    Grant <- OneCredit
    InitTools <- EchoTool
    InitRole <- DefaultRole2
    InitRate <- TwoRates
    Prices = {2}
    Rates = {5000}
    Adjustments = {1}
    BatchSize = 100
    KeysFresh = TRUE
    MaxAdmin = 2
    MaxFaults = 0
INVARIANTS NoFreeExecution
PROPERTIES ReservedAtCommit
