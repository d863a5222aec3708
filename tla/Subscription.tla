---------------------------- MODULE Subscription ----------------------------
(***************************************************************************)
(* A seeker's subscription purchases: the checkout, its cancellation, the  *)
(* verification of the payment by the seeker's page and by the provider's  *)
(* notices, the activation and the expiry.                                 *)
(*                                                                         *)
(* Source: seekerSubscription.service.js, subscriptionLifecycle.service.js *)
(* and recordSubscriptionWebhookEvent of flutterwaveWebhook.service.js.    *)
(*                                                                         *)
(* Transactions are READ COMMITTED.  Each statement that reads, or claims  *)
(* a row with a conditional updateMany, is a step of its own.  A claimed   *)
(* row is locked until the transaction ends, and what was claimed becomes  *)
(* visible when it commits: the worker's pc says which row it has locked.  *)
(*                                                                         *)
(* A purchase is one idempotency key, with the Payment and the             *)
(* Subscription that one transaction creates for it.  All are of one       *)
(* seeker: those of two seekers share no row.                              *)
(***************************************************************************)
EXTENDS Integers, FiniteSets

CONSTANTS
    Purchases,     \* a seeker's purchases, named by their idempotency keys
    Charges,       \* provider transactions
    PurchaseOf,    \* the checkout page on which each charge is tried
    Workers,       \* requests and notices being handled
    MaxCrashes,    \* bound: how many of them a restart ends early
    NoPurchase,
    NoCharge

ASSUME SubscriptionAssumption ==
    /\ PurchaseOf \in [Charges -> Purchases]
    /\ MaxCrashes \in Nat
    /\ NoPurchase \notin Purchases
    /\ NoCharge \notin Charges

VARIABLES
    payment,        \* Payment.status of each purchase
    subscription,   \* Subscription.status of each purchase
    checkoutUrl,    \* whether the payment's metadata holds the link to the checkout page
    manualReview,   \* metadata.manualReviewRequired
    transactionId,  \* Payment.transactionId
    periodOver,     \* whether the subscription's endDate has passed
    charge,         \* what the provider holds of each charge
    checkouts,      \* how often the payment was claimed to ask for a checkout page, up to 2
    pages,          \* purchases whose checkout page the provider has, told of or not
    event,          \* the ProviderWebhookEvent of each charge's final status
    worker,         \* control state of each worker
    crashes

rows == <<payment, subscription, checkoutUrl, manualReview, transactionId, periodOver>>
provider == <<charge, checkouts, pages>>
vars == <<rows, provider, event, worker, crashes>>

-----------------------------------------------------------------------------
(* State *)

PaymentStatuses == {"none", "PENDING", "PROCESSING", "SUCCESSFUL", "FAILED", "CANCELLED"}
SubscriptionStatuses == {"none", "PENDING", "ACTIVE", "EXPIRED", "FAILED", "CANCELLED"}
\* "pending" stands for processing, queued and incomplete too.
ChargeStates == {"none", "pending", "failed", "successful", "mismatched"}

\* An event with processedAt is "processed", or "pending" when the provider was answered that
\* the payment is PENDING.
EventStates == {"absent", "stored", "processed", "pending"}

CheckoutSteps == {"look", "intent", "claim", "call", "link", "abandon", "abandonSubscription"}
CancelSteps == {"cancelSubscription", "cancelPayment"}
VerifySteps == {"read", "ask", "recheck", "review", "activate", "recordPaid",
                "judge", "failPayment", "failSubscription", "report",
                "acknowledge", "acknowledgePending"}

Idle == [pc |-> "idle", purchase |-> NoPurchase, charge |-> NoCharge,
         notice |-> "none", throws |-> FALSE]

TypeOK ==
    /\ payment \in [Purchases -> PaymentStatuses]
    /\ subscription \in [Purchases -> SubscriptionStatuses]
    /\ checkoutUrl \in [Purchases -> BOOLEAN]
    /\ manualReview \in [Purchases -> BOOLEAN]
    /\ transactionId \in [Purchases -> Charges \cup {NoCharge}]
    /\ periodOver \in [Purchases -> BOOLEAN]
    /\ charge \in [Charges -> ChargeStates]
    /\ checkouts \in [Purchases -> 0 .. 2]
    /\ pages \subseteq Purchases
    /\ event \in [Charges -> EventStates]
    /\ worker \in [Workers -> [pc : {"idle"} \cup CheckoutSteps \cup CancelSteps \cup VerifySteps,
                               purchase : Purchases \cup {NoPurchase},
                               charge : Charges \cup {NoCharge},
                               notice : {"none", "pending", "final"},  \* of which status
                               throws : BOOLEAN]]    \* the details did not match: answer 422
    /\ crashes \in 0 .. MaxCrashes

Init ==
    /\ payment = [p \in Purchases |-> "none"]
    /\ subscription = [p \in Purchases |-> "none"]
    /\ checkoutUrl = [p \in Purchases |-> FALSE]
    /\ manualReview = [p \in Purchases |-> FALSE]
    /\ transactionId = [p \in Purchases |-> NoCharge]
    /\ periodOver = [p \in Purchases |-> FALSE]
    /\ charge = [c \in Charges |-> "none"]
    /\ checkouts = [p \in Purchases |-> 0]
    /\ pages = {}
    /\ event = [c \in Charges |-> "absent"]
    /\ worker = [w \in Workers |-> Idle]
    /\ crashes = 0

-----------------------------------------------------------------------------
(* Helpers *)

At(w, step) == worker[w].pc = step
GoTo(w, step) == worker' = [worker EXCEPT ![w].pc = step]
Begin(w, step, p) == worker' = [worker EXCEPT ![w] = [Idle EXCEPT !.pc = step, !.purchase = p]]
End(w) == worker' = [worker EXCEPT ![w] = Idle]

\* A verification returns, with pending: true or not: a notice is marked processed next.
Return(w) == IF worker[w].notice = "final" THEN GoTo(w, "acknowledge") ELSE End(w)
ReturnPending(w) ==
    IF worker[w].notice = "final" THEN GoTo(w, "acknowledgePending") ELSE End(w)

SubscriptionLocked(p) ==
    \E v \in Workers : worker[v].purchase = p /\ worker[v].pc \in {"recordPaid", "cancelPayment"}
PaymentLocked(p) ==
    \E v \in Workers :
        worker[v].purchase = p /\ worker[v].pc \in {"failSubscription", "abandonSubscription"}

\* getCurrentActiveSubscription
Current(p) == subscription[p] = "ACTIVE" /\ ~periodOver[p]

\* expireBatchInTransaction, which reconcileExpiredSubscriptionsForUser runs first of all.
Lapsed == [p \in Purchases |->
              IF subscription[p] = "ACTIVE" /\ periodOver[p] THEN "EXPIRED" ELSE subscription[p]]

-----------------------------------------------------------------------------
(* initializeSeekerSubscriptionCheckout *)

BeginCheckout(w, p) ==
    /\ At(w, "idle")
    /\ subscription' = Lapsed
    /\ Begin(w, "look", p)
    /\ UNCHANGED <<payment, checkoutUrl, manualReview, transactionId, periodOver, provider, event, crashes>>

LookForActive(w) ==
    /\ At(w, "look")
    /\ IF \E p \in Purchases : Current(p) THEN End(w) ELSE GoTo(w, "intent")
    /\ UNCHANGED <<rows, provider, event, crashes>>

\* The key's purchase is created once.  One found with its link, or not PENDING, is returned.
CreateIntent(w) ==
    LET p == worker[w].purchase IN
    /\ At(w, "intent")
    /\ \/ /\ payment[p] = "none"
          /\ IF \E q \in Purchases : Current(q)
             THEN End(w) /\ UNCHANGED <<payment, subscription>>
             ELSE /\ payment' = [payment EXCEPT ![p] = "PENDING"]
                  /\ subscription' = [subscription EXCEPT ![p] = "PENDING"]
                  /\ GoTo(w, "claim")
       \/ /\ payment[p] # "none"
          /\ IF payment[p] = "PENDING" /\ ~checkoutUrl[p] THEN GoTo(w, "claim") ELSE End(w)
          /\ UNCHANGED <<payment, subscription>>
    /\ UNCHANGED <<checkoutUrl, manualReview, transactionId, periodOver, provider, event, crashes>>

ClaimCheckout(w) ==
    LET p == worker[w].purchase IN
    /\ At(w, "claim")
    /\ ~PaymentLocked(p)
    /\ IF payment[p] = "PENDING"
       THEN /\ payment' = [payment EXCEPT ![p] = "PROCESSING"]
            /\ checkouts' = [checkouts EXCEPT ![p] = IF @ = 0 THEN 1 ELSE 2]
            /\ GoTo(w, "call")
       ELSE End(w) /\ UNCHANGED <<payment, checkouts>>
    /\ UNCHANGED <<subscription, checkoutUrl, manualReview, transactionId, periodOver, charge,
                   pages, event, crashes>>

\* initializeFlutterwavePayment: a link, a refusal, or an unknown outcome, which leaves the
\* payment PROCESSING and may leave a page at the provider.
CallForCheckout(w) ==
    LET paged == pages \cup {worker[w].purchase} IN
    /\ At(w, "call")
    /\ \/ GoTo(w, "link") /\ pages' = paged
       \/ GoTo(w, "abandon") /\ UNCHANGED pages
       \/ End(w) /\ pages' \in {pages, paged}
    /\ UNCHANGED <<rows, charge, checkouts, event, crashes>>

\* The update is unconditional, and its metadata is that of the payment as it was read.
StoreLink(w) ==
    LET p == worker[w].purchase IN
    /\ At(w, "link")
    /\ ~PaymentLocked(p)
    /\ payment' = [payment EXCEPT ![p] = "PENDING"]
    /\ checkoutUrl' = [checkoutUrl EXCEPT ![p] = TRUE]
    /\ manualReview' = [manualReview EXCEPT ![p] = FALSE]
    /\ End(w)
    /\ UNCHANGED <<subscription, transactionId, periodOver, provider, event, crashes>>

AbandonPayment(w) ==
    LET p == worker[w].purchase IN
    /\ At(w, "abandon")
    /\ ~PaymentLocked(p)
    /\ IF payment[p] = "PROCESSING" THEN GoTo(w, "abandonSubscription") ELSE End(w)
    /\ UNCHANGED <<rows, provider, event, crashes>>

AbandonSubscription(w) ==
    LET p == worker[w].purchase IN
    /\ At(w, "abandonSubscription")
    /\ ~SubscriptionLocked(p)
    /\ payment' = [payment EXCEPT ![p] = "FAILED"]
    /\ subscription' = [subscription EXCEPT ![p] = IF @ = "PENDING" THEN "FAILED" ELSE @]
    /\ End(w)
    /\ UNCHANGED <<checkoutUrl, manualReview, transactionId, periodOver, provider, event, crashes>>

-----------------------------------------------------------------------------
(* cancelSeekerSubscriptionPayment *)

BeginCancellation(w, p) ==
    /\ At(w, "idle")
    /\ payment[p] = "PENDING"
    /\ subscription[p] = "PENDING"
    /\ Begin(w, "cancelSubscription", p)
    /\ UNCHANGED <<rows, provider, event, crashes>>

CancelSubscription(w) ==
    LET p == worker[w].purchase IN
    /\ At(w, "cancelSubscription")
    /\ ~SubscriptionLocked(p)
    /\ IF subscription[p] = "PENDING" THEN GoTo(w, "cancelPayment") ELSE End(w)
    /\ UNCHANGED <<rows, provider, event, crashes>>

\* Mutant: the payment is updated whatever its status.
CancelsAnyPayment(p) == TRUE
MayCancelPayment(p) == payment[p] = "PENDING"

CancelPayment(w) ==
    LET p == worker[w].purchase IN
    /\ At(w, "cancelPayment")
    /\ ~PaymentLocked(p)
    /\ IF MayCancelPayment(p)
       THEN /\ payment' = [payment EXCEPT ![p] = "CANCELLED"]
            /\ subscription' = [subscription EXCEPT ![p] = "CANCELLED"]
       ELSE UNCHANGED <<payment, subscription>>
    /\ End(w)
    /\ UNCHANGED <<checkoutUrl, manualReview, transactionId, periodOver, provider, event, crashes>>

-----------------------------------------------------------------------------
(* verifySeekerSubscriptionPayment *)

BelongsTo(c, p) == transactionId[p] \in {NoCharge, c}

\* verifySubscriptionPayment, for the page to which the provider sent the seeker back.
BeginVerification(w, c) ==
    LET p == PurchaseOf[c] IN
    /\ At(w, "idle")
    /\ charge[c] # "none"
    /\ subscription' = Lapsed
    /\ worker' = [worker EXCEPT ![w] = [Idle EXCEPT !.pc = "read", !.purchase = p, !.charge = c]]
    /\ UNCHANGED <<payment, checkoutUrl, manualReview, transactionId, periodOver, provider, event, crashes>>

\* Mutant: processedAt is set as the event is stored.
StoredAsProcessed == "processed"
StoredAs == "stored"

\* handleSeekerSubscriptionWebhook and recordSubscriptionWebhookEvent: an event that is stored
\* and not processed is handled again, even while another worker handles it.
DeliverNotice(w, c) ==
    LET p == PurchaseOf[c] IN
    /\ At(w, "idle")
    /\ charge[c] \notin {"none", "pending"}
    /\ BelongsTo(c, p)
    /\ event[c] \in {"absent", "stored"}
    /\ event' = [event EXCEPT ![c] = StoredAs]
    /\ subscription' = Lapsed
    /\ worker' = [worker EXCEPT ![w] = [Idle EXCEPT !.pc = "read", !.purchase = p, !.charge = c,
                                                    !.notice = "final"]]
    /\ UNCHANGED <<payment, checkoutUrl, manualReview, transactionId, periodOver, provider, crashes>>

\* A notice of an earlier status, in time or late.  Its status and id make it an event of
\* its own, which is not kept here.
DeliverPendingNotice(w, c) ==
    LET p == PurchaseOf[c] IN
    /\ At(w, "idle")
    /\ charge[c] # "none"
    /\ BelongsTo(c, p)
    /\ subscription' = Lapsed
    /\ worker' = [worker EXCEPT ![w] = [Idle EXCEPT !.pc = "read", !.purchase = p, !.charge = c,
                                                    !.notice = "pending"]]
    /\ UNCHANGED <<payment, checkoutUrl, manualReview, transactionId, periodOver, provider, event, crashes>>

\* Mutant: the flag recordCancelledPaymentForReview is not passed.
NeverReviews(w) == FALSE
Reviews(w) == worker[w].notice # "none"

\* Settled already; a checkout under way; or to be verified.  Anything else is answered 409.
ReadPayment(w) ==
    LET p == worker[w].purchase
        statuses == <<payment[p], subscription[p]>> IN
    /\ At(w, "read")
    /\ IF ~BelongsTo(worker[w].charge, p) THEN End(w)
       ELSE IF payment[p] = "SUCCESSFUL" \/ statuses = <<"FAILED", "FAILED">> THEN Return(w)
       ELSE IF payment[p] = "PROCESSING" THEN ReturnPending(w)
       ELSE IF \/ statuses = <<"PENDING", "PENDING">>
               \/ Reviews(w) /\ statuses = <<"CANCELLED", "CANCELLED">> THEN GoTo(w, "ask")
       ELSE End(w)
    /\ UNCHANGED <<rows, provider, event, crashes>>

Accepts(answer) == answer = "successful"

\* verifyFlutterwaveTransaction, which may answer pending of a charge that no longer is.
ProviderAnswers(w) ==
    /\ At(w, "ask")
    /\ \E answer \in {charge[worker[w].charge], "pending"} :
         IF answer = "pending" THEN ReturnPending(w)
         ELSE IF Accepts(answer) THEN GoTo(w, "recheck")
         ELSE worker' = [worker EXCEPT ![w].pc = "judge", ![w].throws = (answer = "mismatched")]
    /\ UNCHANGED <<rows, provider, event, crashes>>

\* Its failure is answered 503.
ProviderFails(w) ==
    /\ At(w, "ask")
    /\ End(w)
    /\ UNCHANGED <<rows, provider, event, crashes>>

\* The first statements of the activating transaction.
Recheck(w) ==
    LET p == worker[w].purchase IN
    /\ At(w, "recheck")
    /\ IF payment[p] = "SUCCESSFUL" THEN Return(w)
       ELSE IF Reviews(w) /\ payment[p] = "CANCELLED" /\ subscription[p] = "CANCELLED"
            THEN GoTo(w, "review")
       ELSE IF payment[p] = "PENDING" /\ \A q \in Purchases \ {p} : ~Current(q) THEN GoTo(w, "activate")
       ELSE End(w)
    /\ UNCHANGED <<rows, provider, event, crashes>>

Recorded(w) == worker[w].charge

\* Paid after its cancellation: recorded for manual review, and not activated.
RecordForReview(w) ==
    LET p == worker[w].purchase IN
    /\ At(w, "review")
    /\ ~PaymentLocked(p)
    /\ IF payment[p] = "CANCELLED"
       THEN /\ payment' = [payment EXCEPT ![p] = "SUCCESSFUL"]
            /\ manualReview' = [manualReview EXCEPT ![p] = TRUE]
            /\ transactionId' = [transactionId EXCEPT ![p] = Recorded(w)]
            /\ Return(w)
       ELSE End(w) /\ UNCHANGED <<payment, manualReview, transactionId>>
    /\ UNCHANGED <<subscription, checkoutUrl, periodOver, provider, event, crashes>>

\* The partial unique index: one ACTIVE subscription of a user, its period over or not.
ViolatesUniqueIndex(p) == \E q \in Purchases \ {p} : subscription[q] = "ACTIVE"

\* Mutant: the subscription is activated whatever its status.
ActivatesAny(p) == TRUE
MayActivate(p) == subscription[p] = "PENDING"

\* Waits for the row, and for another activation that may violate the index.
Activate(w) ==
    LET p == worker[w].purchase IN
    /\ At(w, "activate")
    /\ ~SubscriptionLocked(p)
    /\ \A v \in Workers : ~At(v, "recordPaid")
    /\ IF MayActivate(p) THEN IF ViolatesUniqueIndex(p) THEN End(w) ELSE GoTo(w, "recordPaid")
       ELSE IF payment[p] = "SUCCESSFUL" /\ subscription[p] = "ACTIVE" THEN Return(w)
       ELSE End(w)
    /\ UNCHANGED <<rows, provider, event, crashes>>

\* The update is unconditional; the transaction commits.
RecordPaid(w) ==
    LET p == worker[w].purchase IN
    /\ At(w, "recordPaid")
    /\ ~PaymentLocked(p)
    /\ payment' = [payment EXCEPT ![p] = "SUCCESSFUL"]
    /\ subscription' = [subscription EXCEPT ![p] = "ACTIVE"]
    /\ transactionId' = [transactionId EXCEPT ![p] = Recorded(w)]
    /\ Return(w)
    /\ UNCHANGED <<checkoutUrl, manualReview, periodOver, provider, event, crashes>>

\* markVerificationFailure returns: details that do not match are answered 422; a charge that
\* failed is reported, after another look at the payment if that was not updated.
ReportFailed(w) == IF worker[w].throws THEN End(w) ELSE Return(w)
LookAgain(w) == IF worker[w].throws THEN End(w) ELSE GoTo(w, "report")

JudgeFailure(w) ==
    LET p == worker[w].purchase IN
    /\ At(w, "judge")
    /\ IF payment[p] = "PENDING" /\ subscription[p] = "PENDING" THEN GoTo(w, "failPayment")
       ELSE LookAgain(w)
    /\ UNCHANGED <<rows, provider, event, crashes>>

FailPayment(w) ==
    LET p == worker[w].purchase IN
    /\ At(w, "failPayment")
    /\ ~PaymentLocked(p)
    /\ IF payment[p] = "PENDING" THEN GoTo(w, "failSubscription") ELSE LookAgain(w)
    /\ UNCHANGED <<rows, provider, event, crashes>>

\* A subscription that is no longer PENDING takes the payment's failure back with it.
FailSubscription(w) ==
    LET p == worker[w].purchase IN
    /\ At(w, "failSubscription")
    /\ ~SubscriptionLocked(p)
    /\ IF subscription[p] = "PENDING"
       THEN /\ payment' = [payment EXCEPT ![p] = "FAILED"]
            /\ subscription' = [subscription EXCEPT ![p] = "FAILED"]
            /\ transactionId' = [transactionId EXCEPT ![p] = Recorded(w)]
            /\ ReportFailed(w)
       ELSE End(w) /\ UNCHANGED <<payment, subscription, transactionId>>
    /\ UNCHANGED <<checkoutUrl, manualReview, periodOver, provider, event, crashes>>

ReportFailure(w) ==
    LET p == worker[w].purchase IN
    /\ At(w, "report")
    /\ IF <<payment[p], subscription[p]>> \in {<<"SUCCESSFUL", "ACTIVE">>, <<"FAILED", "FAILED">>}
       THEN Return(w)
       ELSE ReturnPending(w)
    /\ UNCHANGED <<rows, provider, event, crashes>>

AcknowledgeNotice(w) ==
    /\ At(w, "acknowledge") \/ At(w, "acknowledgePending")
    /\ event' = [event EXCEPT ![worker[w].charge] =
                    IF At(w, "acknowledge") THEN "processed" ELSE "pending"]
    /\ End(w)
    /\ UNCHANGED <<rows, provider, crashes>>

-----------------------------------------------------------------------------
(* The database, the seeker, time and restarts *)

\* Two transactions wait for each other's row of one purchase: one is rolled back.
DeadlockAborts(w) ==
    LET p == worker[w].purchase IN
    /\ w \in Workers
    /\ \/ worker[w].pc \in {"recordPaid", "cancelPayment"} /\ PaymentLocked(p)
       \/ worker[w].pc \in {"failSubscription", "abandonSubscription"} /\ SubscriptionLocked(p)
    /\ End(w)
    /\ UNCHANGED <<rows, provider, event, crashes>>

\* On a page that the provider has: after a charge that failed the seeker may try another.
SeekerPays(c) ==
    /\ PurchaseOf[c] \in pages
    /\ charge[c] \in {"none", "pending"}
    /\ \A d \in Charges \ {c} : PurchaseOf[d] = PurchaseOf[c] => charge[d] \in {"none", "failed"}
    /\ \E s \in ChargeStates \ {"none", charge[c]} : charge' = [charge EXCEPT ![c] = s]
    /\ UNCHANGED <<rows, checkouts, pages, event, worker, crashes>>

PeriodEnds(p) ==
    /\ Current(p)
    /\ periodOver' = [periodOver EXCEPT ![p] = TRUE]
    /\ UNCHANGED <<payment, subscription, checkoutUrl, manualReview, transactionId, provider,
                   event, worker, crashes>>

\* expireSubscriptions, which the script expire-subscriptions.js runs; nothing schedules it.
ExpireSubscriptions ==
    /\ \E p \in Purchases : subscription[p] = "ACTIVE" /\ periodOver[p]
    /\ subscription' = Lapsed
    /\ UNCHANGED <<payment, checkoutUrl, manualReview, transactionId, periodOver, provider,
                   event, worker, crashes>>

\* What was not committed is rolled back.
Crash(w) ==
    /\ ~At(w, "idle")
    /\ crashes < MaxCrashes
    /\ crashes' = crashes + 1
    /\ End(w)
    /\ UNCHANGED <<rows, provider, event>>

-----------------------------------------------------------------------------
(* The specification *)

CheckoutStep(w) ==
    \/ LookForActive(w)
    \/ CreateIntent(w)
    \/ ClaimCheckout(w)
    \/ CallForCheckout(w)
    \/ StoreLink(w)
    \/ AbandonPayment(w)
    \/ AbandonSubscription(w)

CancelStep(w) == CancelSubscription(w) \/ CancelPayment(w)

VerifyStep(w) ==
    \/ ReadPayment(w)
    \/ ProviderAnswers(w)
    \/ ProviderFails(w)
    \/ Recheck(w)
    \/ RecordForReview(w)
    \/ Activate(w)
    \/ RecordPaid(w)
    \/ JudgeFailure(w)
    \/ FailPayment(w)
    \/ FailSubscription(w)
    \/ ReportFailure(w)
    \/ AcknowledgeNotice(w)

Step(w) == CheckoutStep(w) \/ CancelStep(w) \/ VerifyStep(w) \/ DeadlockAborts(w)

Deliver(c) == \E w \in Workers : DeliverNotice(w, c)
Answered(c) ==
    \E w \in Workers : worker[w].charge = c /\ worker[w].notice = "final" /\ ProviderAnswers(w)

Next ==
    \/ \E w \in Workers : Step(w) \/ Crash(w)
    \/ \E w \in Workers, p \in Purchases : BeginCheckout(w, p) \/ BeginCancellation(w, p)
    \/ \E w \in Workers, c \in Charges : BeginVerification(w, c) \/ DeliverPendingNotice(w, c)
    \/ \E c \in Charges : Deliver(c) \/ SeekerPays(c)
    \/ \E p \in Purchases : PeriodEnds(p)
    \/ ExpireSubscriptions

Spec == Init /\ [][Next]_vars

\* Requests end, and the database ends a deadlock; the provider sends a notice again until it
\* is acknowledged, and answers now and then; periods end.  No fairness for the expiry script:
\* each verification expires first.
Fairness ==
    /\ \A w \in Workers : WF_vars(Step(w))
    /\ \A c \in Charges : SF_vars(Deliver(c)) /\ SF_vars(Answered(c))
    /\ \A p \in Purchases : WF_vars(PeriodEnds(p))

FairSpec == Spec /\ Fairness

-----------------------------------------------------------------------------
(* Properties *)

\* What a purchase's two rows may say together.
Agree(p) ==
    CASE payment[p] \in {"PENDING", "PROCESSING"} -> subscription[p] = "PENDING"
      [] payment[p] = "SUCCESSFUL" -> IF manualReview[p] THEN subscription[p] = "CANCELLED"
                                      ELSE subscription[p] \in {"ACTIVE", "EXPIRED"}
      [] OTHER -> subscription[p] = payment[p]

\* However the cancellation, the failure, the activation and the checkout of a purchase
\* interleave, its payment and its subscription tell the same story, and a payment without
\* its subscription is flagged for review.  Unconditional updates make this depend on the
\* checkout page having been asked for once: the claim does not see a link stored since.
RowsAgree == \A p \in Purchases : checkouts[p] <= 1 => Agree(p)

\* Two purchases paid at the same time do not both become active: the look for an active
\* subscription does not see what is not committed, the unique index does.
OneActiveSubscription ==
    \A p, q \in Purchases : subscription[p] = "ACTIVE" /\ subscription[q] = "ACTIVE" => p = q

\* A subscription that was ever active was paid for by the charge its payment names.
ActiveIsPaid ==
    \A p \in Purchases :
        subscription[p] \in {"ACTIVE", "EXPIRED"} =>
            transactionId[p] # NoCharge /\ charge[transactionId[p]] = "successful"

\* A notice of a successful charge that was acknowledged otherwise than as PENDING left the
\* payment decided: paid, or failed because of another charge of the same checkout.
AcknowledgedIsDecided ==
    \A c \in Charges :
        LET p == PurchaseOf[c] IN
        /\ charge[c] = "successful"
        /\ event[c] = "processed"
        /\ checkouts[p] <= 1
        => \/ payment[p] = "SUCCESSFUL"
           \/ payment[p] = "FAILED" /\ transactionId[p] # c

\* A late verification or cancellation never revives a subscription that has ended, and an
\* active one ends only by its period.
EndedStaysEnded ==
    [][\A p \in Purchases :
          /\ subscription[p] \in {"EXPIRED", "FAILED", "CANCELLED"} => subscription'[p] = subscription[p]
          /\ subscription[p] = "ACTIVE" =>
                \/ subscription'[p] = "ACTIVE"
                \/ subscription'[p] = "EXPIRED" /\ periodOver[p]]_vars

\* To the seeker all of this is PaidPlan.
Taken == {c \in Charges : charge[c] = "successful"}
PaidBy(p) == IF subscription[p] \in {"ACTIVE", "EXPIRED"} THEN transactionId[p] ELSE NoCharge

Plan == INSTANCE PaidPlan WITH
            taken <- Taken,
            over <- {p \in Purchases : periodOver[p]},
            paidBy <- [p \in Purchases |-> PaidBy(p)]

\* The detailed sale implements the promise, whatever pages, notices, restarts and transactions
\* that roll back lie in between: one plan in force, paid for by the charge its payment names.
ImplementsPlan == Plan!Spec

\* Money that the provider has taken is decided upon, also when another subscription was
\* active, or the checkout was cancelled, at the time; unless the notice of it met a payment
\* still PROCESSING, or a lookup still pending, and was acknowledged as PENDING.
SuccessIsDecided ==
    \A c \in Charges :
        charge[c] = "successful" ~>
            \/ payment[PurchaseOf[c]] \in {"SUCCESSFUL", "FAILED"}
            \/ event[c] = "pending"
            \/ checkouts[PurchaseOf[c]] > 1

\* "ambiguous Flutterwave initialization remains recoverable": no payment is left PROCESSING,
\* with nobody at work on its checkout, when the notice that its page was paid has been
\* acknowledged.  It does not hold: see the run that refutes it.
AmbiguousCheckoutIsRecoverable ==
    \A c \in Charges :
        LET p == PurchaseOf[c] IN
        charge[c] = "successful" /\ event[c] \in {"processed", "pending"} /\ payment[p] = "PROCESSING" =>
            \E w \in Workers : worker[w].purchase = p /\ worker[w].pc \in CheckoutSteps
=============================================================================
