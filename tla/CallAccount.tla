---------------------------- MODULE CallAccount ----------------------------
(***************************************************************************)
(* What the metering of calls promises, without transactions, locks or     *)
(* processes: a wallet has an available amount; a call is refused, or its  *)
(* price is held once and then either charged or released once.            *)
(***************************************************************************)
EXTENDS Integers

CONSTANTS Wallets, Calls, WalletOf, Initial

VARIABLES
    available,  \* what a wallet can still spend
    phase,      \* where a call stands
    amount      \* the price held for a call

accountVars == <<available, phase, amount>>

AccountInit ==
    /\ available = Initial
    /\ phase = [c \in Calls |-> "new"]
    /\ amount = [c \in Calls |-> 0]

Refuse(c) ==
    /\ phase[c] = "new"
    /\ phase' = [phase EXCEPT ![c] = "refused"]
    /\ UNCHANGED <<available, amount>>

Hold(c, n) ==
    /\ phase[c] = "new"
    /\ phase' = [phase EXCEPT ![c] = "held"]
    /\ amount' = [amount EXCEPT ![c] = n]
    /\ available' = [available EXCEPT ![WalletOf[c]] = @ - n]

Charge(c) ==
    /\ phase[c] = "held"
    /\ phase' = [phase EXCEPT ![c] = "charged"]
    /\ UNCHANGED <<available, amount>>

Release(c) ==
    /\ phase[c] = "held"
    /\ phase' = [phase EXCEPT ![c] = "released"]
    /\ available' = [available EXCEPT ![WalletOf[c]] = @ + amount[c]]
    /\ UNCHANGED amount

(* Credits arrive or are withdrawn, never below zero. *)
Adjust(w) ==
    /\ available'[w] >= 0
    /\ available' = [available EXCEPT ![w] = available'[w]]
    /\ UNCHANGED <<phase, amount>>

AccountNext ==
    \/ \E c \in Calls : \E n \in 0..available[WalletOf[c]] : Hold(c, n)
    \/ \E c \in Calls : Refuse(c) \/ Charge(c) \/ Release(c)
    \/ \E w \in Wallets : Adjust(w)

AccountSpec == AccountInit /\ [][AccountNext]_accountVars
=============================================================================
