------------------------------ MODULE PaidPlan -------------------------------
(***************************************************************************)
(* What the sale of a plan promises to the seeker, without payments,       *)
(* notices or locks: one plan is in force at a time; it came into force by *)
(* a charge of its own page that was taken, which is named ever after; it  *)
(* ends by its period alone; and what has ended, or was dropped before it  *)
(* was paid for, stays so.                                                 *)
(***************************************************************************)
CONSTANTS Purchases, Charges, PurchaseOf, NoCharge

VARIABLES
    subscription,  \* the state of each purchase
    taken,         \* charges the provider took
    over,          \* purchases whose period has ended
    paidBy         \* the charge that brought a purchase into force

vars == <<subscription, taken, over, paidBy>>

Init ==
    /\ subscription = [p \in Purchases |-> "none"]
    /\ taken = {}
    /\ over = {}
    /\ paidBy = [p \in Purchases |-> NoCharge]

Becomes(p, from, to) ==
    subscription[p] = from /\ subscription' = [subscription EXCEPT ![p] = to]

Choose(p) == Becomes(p, "none", "PENDING") /\ UNCHANGED <<taken, over, paidBy>>

Drop(p) ==
    /\ \E end \in {"FAILED", "CANCELLED"} : Becomes(p, "PENDING", end)
    /\ UNCHANGED <<taken, over, paidBy>>

\* A page takes one charge.
Take(c) ==
    /\ \A d \in taken : PurchaseOf[d] # PurchaseOf[c]
    /\ taken' = taken \cup {c}
    /\ UNCHANGED <<subscription, over, paidBy>>

Activate(p, c) ==
    /\ c \in taken /\ PurchaseOf[c] = p
    /\ \A q \in Purchases : subscription[q] # "ACTIVE"
    /\ Becomes(p, "PENDING", "ACTIVE")
    /\ paidBy' = [paidBy EXCEPT ![p] = c]
    /\ UNCHANGED <<taken, over>>

PeriodEnds(p) ==
    /\ subscription[p] = "ACTIVE"
    /\ over' = over \cup {p}
    /\ UNCHANGED <<subscription, taken, paidBy>>

Expire(p) ==
    /\ p \in over
    /\ Becomes(p, "ACTIVE", "EXPIRED")
    /\ UNCHANGED <<taken, over, paidBy>>

Next ==
    \/ \E p \in Purchases : Choose(p) \/ Drop(p) \/ PeriodEnds(p) \/ Expire(p)
    \/ \E c \in Charges : Take(c)
    \/ \E p \in Purchases, c \in Charges : Activate(p, c)

Spec == Init /\ [][Next]_vars
=============================================================================
