----------------------------- MODULE MCMetering -----------------------------
(* Small instances of Metering for TLC. *)
EXTENDS Metering, TLC

CONSTANTS u1, u2, w1, w2, t1, t2, k1, k2, echo, basic, gold, c1, c2, r1, r2, none

\* Two personal tokens of one user on one wallet.
PersonalUser == (t1 :> u1) @@ (t2 :> u1)
PersonalWallet == (t1 :> w1) @@ (t2 :> w1)
PersonalOwner == w1 :> u1

\* Tokens of two members on the wallet of their team.
TeamUser == (t1 :> u1) @@ (t2 :> u2)
TeamWallet == (t1 :> w1) @@ (t2 :> w1)
TeamOwner == w1 :> none

\* Gateway callers draw a fresh key for each call; the store also accepts a
\* key that is used again.
FreshKeys == {[call |-> <<t1, k1>>, tool |-> echo], [call |-> <<t2, k1>>, tool |-> echo]}

OneCredit == w1 :> 1
EchoTool == echo :> [enabled |-> TRUE, cost |-> 1, roles |-> {}]
DefaultRole1 == u1 :> basic
DefaultRole2 == (u1 :> basic) @@ (u2 :> basic)
DefaultRate == basic :> 10000
TwoRates == (basic :> 10000) @@ (gold :> 5000)
=============================================================================
