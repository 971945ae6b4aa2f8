\* Two calls of one user compete for one wallet that covers one of them,
\* against recovery, one id a batch, and an account write; the store meets a
\* key again; a failed caller leaves its call pending.
SPECIFICATION FairSpec
CONSTANTS
    u1 = u1  u2 = u2  w1 = w1  w2 = w2  t1 = t1  t2 = t2  k1 = k1  k2 = k2
    echo = echo  basic = basic  gold = gold  c1 = c1  c2 = c2  r1 = r1  r2 = r2  none = none
    Users = {u1}
    Wallets = {w1}
    Tokens = {t1, t2}
    Keys = {k1}
    Tools = {echo}
    Roles = {basic}
    Callers = {c1, c2}
    Replicas = {r1}
    TokenUser <- PersonalUser
    TokenWallet <- PersonalWallet
    WalletUser <- PersonalOwner
    NoUser = none
    Requests <- FreshKeys
    Grant <- OneCredit
    InitTools <- EchoTool
    InitRole <- DefaultRole1
    InitRate <- DefaultRate
    Prices = {2}
    Rates = {5000}
    Adjustments = {1}
    BatchSize = 1
    KeysFresh = FALSE
    MaxAdmin = 1
    MaxFaults = 1
INVARIANTS LedgerChain CallsAccounted
PROPERTIES RefinesAccount CallsSettle
