---------------------------- MODULE MCWithdrawal ----------------------------
(* Instances of Withdrawal for TLC. *)
EXTENDS Withdrawal, TLC

CONSTANTS w1, d1, d2, p1, p2

AllFlutterwave == [d \in Withdrawals |-> "FLUTTERWAVE"]
\* d2 is a row an earlier version reserved for Paystack.
OneLegacy == [d \in Withdrawals |-> IF d = d2 THEN "PAYSTACK" ELSE "FLUTTERWAVE"]
OneWallet == [d \in Withdrawals |-> w1]

WorkerSymmetry == Permutations(Workers)
=============================================================================
