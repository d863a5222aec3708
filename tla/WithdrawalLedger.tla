-------------------------- MODULE WithdrawalLedger --------------------------
(***************************************************************************)
(* What withdrawals promise to the owner of a wallet, without workers,     *)
(* providers or retries: an amount is reserved out of the balance once,    *)
(* only if the balance covers it; it is then paid or returned; a payment   *)
(* may still be returned later; and what was returned is never paid or     *)
(* returned again.                                                         *)
(***************************************************************************)
EXTENDS Naturals

CONSTANTS Wallets, Withdrawals, Amounts, WalletOf

VARIABLES
    balance,   \* what the owner of each wallet may spend
    holding,   \* where the money of each withdrawal is
    amount,    \* the amount of each withdrawal, fixed when it is reserved
    deposited  \* everything that was ever credited to each wallet

vars == <<balance, holding, amount, deposited>>

Init ==
    /\ balance = [w \in Wallets |-> 0]
    /\ holding \in [Withdrawals -> {"none", "reserved"}]
    /\ amount \in [Withdrawals -> Nat]
    /\ deposited \in [Wallets -> Nat]

Deposit(w, a) ==
    /\ balance' = [balance EXCEPT ![w] = @ + a]
    /\ deposited' = [deposited EXCEPT ![w] = @ + a]
    /\ UNCHANGED <<holding, amount>>

Reserve(d, a) ==
    /\ holding[d] = "none"
    /\ a <= balance[WalletOf[d]]
    /\ balance' = [balance EXCEPT ![WalletOf[d]] = @ - a]
    /\ holding' = [holding EXCEPT ![d] = "reserved"]
    /\ amount' = [amount EXCEPT ![d] = a]
    /\ UNCHANGED deposited

Pay(d) ==
    /\ holding[d] = "reserved"
    /\ holding' = [holding EXCEPT ![d] = "paid"]
    /\ UNCHANGED <<balance, amount, deposited>>

Return(d) ==
    /\ holding[d] \in {"reserved", "paid"}
    /\ balance' = [balance EXCEPT ![WalletOf[d]] = @ + amount[d]]
    /\ holding' = [holding EXCEPT ![d] = "returned"]
    /\ UNCHANGED <<amount, deposited>>

Next ==
    \/ \E w \in Wallets, a \in Amounts : Deposit(w, a)
    \/ \E d \in Withdrawals, a \in Amounts : Reserve(d, a)
    \/ \E d \in Withdrawals : Pay(d) \/ Return(d)

Spec == Init /\ [][Next]_vars
=============================================================================
