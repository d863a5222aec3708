----------------------------- MODULE MCLiveness ------------------------------
(***************************************************************************)
(* Instances of Withdrawal, WebhookRecovery and Subscription, each under   *)
(* its own fairness, for TLC.  A behaviour is about one of them, the       *)
(* scene, which its initial state chooses.                                 *)
(***************************************************************************)
EXTENDS Naturals

CONSTANTS
    Wallets, Withdrawals, Amounts, LegacyAmount, ScriptBatch, MaxCredited, NoWithdrawal,
    Payments, Events, PaystackEvents, MAX_WEBHOOK_ATTEMPTS, Pages, NoEvent,
    p1, p2, c1, c3, Purchases, Charges, PurchaseOf, MaxCrashes, NoPurchase, NoCharge,
    d1, r1, Requests, Readers

VARIABLES
    scene,
    wallet, withdrawal, processingAt, attempt, associated, ledger, transfer,
    withdrawalWorker, credited, requests,
    webhookPayment, paidBy, transaction, row, webhookWorker,
    payment, subscription, checkoutUrl, manualReview, transactionId, periodOver, charge,
    checkouts, pages, event, purchaseWorker, crashes

W == INSTANCE Withdrawal WITH
        worker <- withdrawalWorker, Workers <- Requests,
        WalletOf <- [d \in Withdrawals |-> CHOOSE w \in Wallets : TRUE],
        ProviderOf <- [d \in Withdrawals |-> "FLUTTERWAVE"]
H == INSTANCE WebhookRecovery WITH
        funding <- webhookPayment, handler <- webhookWorker, Recoverers <- Requests,
        PaymentOf <- [e \in Events |-> CHOOSE p \in Payments : TRUE]
S == INSTANCE Subscription WITH
        worker <- purchaseWorker, Workers <- Readers

withdrawals == <<wallet, withdrawal, processingAt, attempt, associated, ledger, transfer,
                 withdrawalWorker, credited, requests>>
webhooks == <<webhookPayment, paidBy, transaction, row, webhookWorker>>
purchases == <<payment, subscription, checkoutUrl, manualReview, transactionId, periodOver,
               charge, checkouts, pages, event, purchaseWorker, crashes>>
all == <<scene, withdrawals, webhooks, purchases>>

InitAll ==
    /\ scene \in {"withdrawal", "script", "webhook", "purchase"}
    /\ W!Init /\ H!WebhookInit /\ S!Init

\* One withdrawal with every worker, or all of them with one.
OneWithdrawal ==
    /\ \A w \in Wallets : credited'[w] <= 1
    /\ \A d \in Withdrawals \ {d1} : withdrawal'[d] = withdrawal[d]
OneWorker == \A p \in Requests \ {r1} : withdrawalWorker'[p] = withdrawalWorker[p]
\* The charge on the second page succeeds at once or is not tried.
SecondPageIsPlain == charge'[c3] \in {"none", "successful"}

NextInScene ==
    \/ scene = "withdrawal" /\ W!Next /\ OneWithdrawal /\ UNCHANGED <<scene, webhooks, purchases>>
    \/ scene = "script" /\ W!Next /\ OneWorker /\ UNCHANGED <<scene, webhooks, purchases>>
    \/ scene = "webhook" /\ H!WebhookNext /\ UNCHANGED <<scene, withdrawals, purchases>>
    \/ scene = "purchase" /\ S!Next /\ SecondPageIsPlain /\ UNCHANGED <<scene, withdrawals, webhooks>>

FairnessInScene ==
    \/ scene \in {"withdrawal", "script"} /\ W!Fairness
    \/ scene = "webhook" /\ H!WebhookFairness
    \/ scene = "purchase" /\ S!Fairness

FairSpecInScene == InitAll /\ [][NextInScene]_all /\ FairnessInScene

\* The purchases have a checkout page each.
OnePage == [c \in Charges |-> IF c = c3 THEN p2 ELSE p1]

-----------------------------------------------------------------------------
(* Properties of the instances *)

\* Once the attempt has its transfer id and the provider settled the transfer, the outcome
\* reaches the withdrawal, although lookups may be stale and workers may die (the
\* reconcile-withdrawals script, applyOutcome).
SettledTransferIsApplied == W!SettledTransferIsApplied

\* Every stored event is processed, or given up for review with its attempts used up or
\* refused for good (the recovery job, processContractWebhookEvent).
EveryEventIsDecided == H!EveryEventIsDecided

\* Money that the provider has taken for a subscription is decided upon, also when another
\* subscription was active, or the checkout was cancelled, at the time, unless its notice was
\* acknowledged as PENDING (verifySubscriptionPayment).
SuccessIsDecided == S!SuccessIsDecided

=============================================================================
