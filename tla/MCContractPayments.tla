------------------------- MODULE MCContractPayments --------------------------
(***************************************************************************)
(* Instances of ContractEscrow and WebhookRecovery for TLC.  A behaviour   *)
(* is about one of them, the scene, which its initial state chooses.       *)
(***************************************************************************)
EXTENDS ContractEscrow, WebhookRecovery, TLC

CONSTANTS j1, x, y, e1

VARIABLE scene

allVars == <<scene, vars, webhookVars>>

InitAll ==
    /\ scene \in {"contract", "webhook"}
    /\ Init /\ WebhookInit
    /\ scene = "webhook" => \A j \in Jobs : kind[j] = "MONTHLY"

NextInScene ==
    \/ scene = "contract" /\ Next /\ UNCHANGED <<scene, webhookVars>>
    \/ scene = "webhook" /\ WebhookNext /\ UNCHANGED <<scene, vars>>

SpecInScene == InitAll /\ [][NextInScene]_allVars

SameJob == [a \in Applications |-> j1]
\* A checkout for each event.
Checkouts == [e \in Events |-> IF e = e1 THEN x ELSE y]

\* Bound: one application has payments, and a second one while nothing was done with any other.
PaymentsAreAlone ==
    \A a, b \in Applications : a # b =>
        /\ payment[a][1] # "none" => payment[b][1] = "none"
        /\ payment[a][2] # "none" =>
              /\ contract[b] = "none"
              /\ application[b] = "APPLIED"
              /\ \A p \in Workers : worker[p].app # b

Symmetry == Permutations(Workers) \cup Permutations(Applications) \cup Permutations(Recoverers)
=============================================================================
