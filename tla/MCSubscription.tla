--------------------------- MODULE MCSubscription ---------------------------
(* Instances of Subscription for TLC. *)
EXTENDS Subscription, TLC

CONSTANTS p1, p2, c1, c2, c3, w1, w2

\* Two charges on one checkout page, and one on another.
Pages == [c \in Charges |-> IF c = c3 THEN p2 ELSE p1]

\* The workers, and the two charges of one page, are interchangeable.
Symmetry == {f @@ g : f \in Permutations(Workers), g \in Permutations({c1, c2})}

\* Bound: a behaviour with a restart is followed only while at most one charge was tried.
RestartsAreEarly ==
    crashes = 0 \/ Cardinality({c \in Charges : charge[c] # "none"}) <= 1

\* Bound: the second page is asked for once, and its charge, once its link is stored, succeeds
\* or is not tried, with a notice that is not acknowledged as PENDING.
SecondPageIsPlain ==
    /\ checkouts[p2] <= 1
    /\ charge[c3] = "none" \/ (charge[c3] = "successful" /\ checkoutUrl[p2])
    /\ event[c3] # "pending"

\* Bound: pending charges, and notices of them, are followed while no other was tried.
PendingIsAlone ==
    \A c, d \in Charges :
        c # d /\ (charge[c] = "pending" \/ \E w \in Workers : worker[w].charge = c /\ worker[w].notice = "pending")
            => charge[d] = "none"
=============================================================================
