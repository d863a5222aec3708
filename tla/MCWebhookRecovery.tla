------------------------- MODULE MCWebhookRecovery -------------------------
(* Instances of WebhookRecovery for TLC. *)
EXTENDS WebhookRecovery, TLC

CONSTANTS x, y, e1, e2, e3, w1, w2, v1

\* e1 and e2 are two transactions on one checkout, e3 is the only one of another.
Checkouts == [e \in Events |-> IF e = e3 THEN y ELSE x]

Symmetry == Permutations(Recoverers)
=============================================================================
