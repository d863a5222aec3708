--------------------------- MODULE WebhookRecovery ---------------------------
(***************************************************************************)
(* Stored webhook events of contract payments.  A delivery stores its      *)
(* event; whoever claims the event, the request that delivered it or the   *)
(* recovery job, verifies the payment with the provider, records the       *)
(* answer and marks the event processed, or releases it for a later        *)
(* attempt.  A claim is a lease with a token: after fifteen minutes it     *)
(* may be taken over, and what the former holder still writes is fenced    *)
(* off by the token.                                                       *)
(*                                                                         *)
(* Source: contractPayment.service.js, lines 430-479 and 542-1051.         *)
(*                                                                         *)
(* An event tells of one transaction of the provider.  The customer may    *)
(* try several transactions on the checkout of one payment.  Time is       *)
(* abstract: a running lease may expire, and a scheduled attempt may       *)
(* become due, at any moment; the recovery job's clock is that of the      *)
(* start of its batch, so both orders occur.                               *)
(***************************************************************************)
EXTENDS Integers, FiniteSets

CONSTANTS
    Payments,        \* funding attempts of one contract's escrow
    Events,          \* webhook events, each of one transaction
    PaymentOf,       \* the payment each event's transaction belongs to
    PaystackEvents,  \* charge.success events; the others are Flutterwave's
    MAX_WEBHOOK_ATTEMPTS,
    Recoverers,      \* requests and recovery jobs that process events
    Pages,           \* verifications that an employer asks for, without an event
    NoEvent

ASSUME WebhookAssumption ==
    /\ PaymentOf \in [Events -> Payments]
    /\ PaystackEvents \subseteq Events
    /\ MAX_WEBHOOK_ATTEMPTS \in Nat \ {0}
    /\ NoEvent \notin Events
    /\ Recoverers \cap Pages = {}

Handlers == Recoverers \cup Pages

VARIABLES
    funding,      \* Payment.status of each attempt
    paidBy,       \* Payment.transactionId: the event whose transaction paid
    transaction,  \* what the provider holds for each event's transaction
    row,          \* the ProviderWebhookEvent of each event
    handler       \* control state of each handler

webhookVars == <<funding, paidBy, transaction, row, handler>>

-----------------------------------------------------------------------------
(* State *)

LiveStatuses == {"PENDING", "PROCESSING"}
FundingStatuses == {"none", "SUCCESSFUL", "FAILED"} \cup LiveStatuses

\* A transaction settles once; a customer who tries again starts another.
TransactionStates == {"none", "PENDING", "FAILED", "PAID"}

\* claimToken is fresh for each claim, and so is the attempt's number; 0 is none.
Rows == [state : {"absent", "open", "processed"},
         attempts : 0 .. MAX_WEBHOOK_ATTEMPTS,
         lease : {"none", "running", "expired"},      \* processingStartedAt
         next : {"none", "later", "due"},             \* nextAttemptAt
         token : 0 .. MAX_WEBHOOK_ATTEMPTS,
         error : {"none", "retryable", "definitive"}] \* lastError

Absent == [state |-> "absent", attempts |-> 0, lease |-> "none", next |-> "none",
           token |-> 0, error |-> "none"]

Answers == {"SUCCESSFUL", "FAILED", "PROCESSING", "retryable", "definitive"}

NoTask == [pc |-> "idle", event |-> NoEvent, token |-> 0, answer |-> "none"]

WebhookTypeOK ==
    /\ funding \in [Payments -> FundingStatuses]
    /\ paidBy \in [Payments -> Events \cup {NoEvent}]
    /\ transaction \in [Events -> TransactionStates]
    /\ row \in [Events -> Rows]
    /\ handler \in [Handlers -> [pc : {"idle", "read", "ask", "record", "mark", "release"},
                                 event : Events \cup {NoEvent},
                                 token : 0 .. MAX_WEBHOOK_ATTEMPTS,
                                 answer : Answers \cup {"none"}]]

WebhookInit ==
    /\ funding = [p \in Payments |-> "none"]
    /\ paidBy = [p \in Payments |-> NoEvent]
    /\ transaction = [e \in Events |-> "none"]
    /\ row = [e \in Events |-> Absent]
    /\ handler = [w \in Handlers |-> NoTask]

-----------------------------------------------------------------------------
(* Helpers *)

Funded == \E p \in Payments : funding[p] = "SUCCESSFUL"

Doing(w, step) == handler[w].pc = step
EndHandling(w) == handler' = [handler EXCEPT ![w] = NoTask]
GoTo(w, step, answer) == handler' = [handler EXCEPT ![w].pc = step, ![w].answer = answer]

\* The former holder of a claim does not find its token in the row.
HoldsClaim(w) ==
    LET r == row[handler[w].event] IN r.state = "open" /\ r.token = handler[w].token

\* After an employer's own verification there is no event to mark or to release.
Report(w, step, answer) ==
    IF w \in Pages THEN EndHandling(w) ELSE GoTo(w, step, answer)

-----------------------------------------------------------------------------
(* Payments and transactions *)

\* A first attempt, or another after a failure, under the Contract's row lock.
InitializePayment(p) ==
    /\ funding[p] \in {"none", "FAILED"}
    /\ \A q \in Payments : funding[q] \in {"none", "FAILED"}
    /\ funding' = [funding EXCEPT ![p] = "PENDING"]
    /\ UNCHANGED <<paidBy, transaction, row, handler>>

CustomerPays(e) ==
    /\ funding[PaymentOf[e]] # "none"
    /\ \/ transaction[e] = "none" /\ transaction' = [transaction EXCEPT ![e] = "PENDING"]
       \/ /\ transaction[e] = "PENDING"
          /\ \E s \in {"FAILED", "PAID"} : transaction' = [transaction EXCEPT ![e] = s]
    /\ UNCHANGED <<funding, paidBy, row, handler>>

-----------------------------------------------------------------------------
(* Events *)

\* The handlers store a delivery's event and ignore the repetitions.  Paystack's tells of
\* a success; Flutterwave's is stored whatever it tells.
StoreEvent(e) ==
    /\ row[e].state = "absent"
    /\ transaction[e] # "none"
    /\ e \in PaystackEvents => transaction[e] = "PAID"
    /\ row' = [row EXCEPT ![e] = [Absent EXCEPT !.state = "open", !.next = "due"]]
    /\ UNCHANGED <<funding, paidBy, transaction, handler>>

AttemptsLeft(e) == row[e].attempts < MAX_WEBHOOK_ATTEMPTS

\* Mutant: a lease never expires.
ReleasedAndDue(e) == row[e].lease = "none" /\ row[e].next = "due"
\* Due, or abandoned by a holder whose lease has expired.
Available(e) == (row[e].lease = "none" /\ row[e].next = "due") \/ row[e].lease = "expired"

\* crypto.randomUUID().
FreshToken(e) == row[e].attempts + 1

claimContractWebhookEvent(w, e) ==
    /\ Doing(w, "idle")
    /\ w \in Recoverers
    /\ row[e].state = "open"
    /\ AttemptsLeft(e)
    /\ Available(e)
    /\ row' = [row EXCEPT ![e].attempts = @ + 1, ![e].lease = "running", ![e].next = "none",
                          ![e].token = FreshToken(e)]
    /\ handler' = [handler EXCEPT ![w] =
                     [NoTask EXCEPT !.pc = "read", !.event = e, !.token = FreshToken(e)]]
    /\ UNCHANGED <<funding, paidBy, transaction>>

\* verifyContractPayment for the employer's page.
BeginVerification(w, e) ==
    /\ Doing(w, "idle")
    /\ w \in Pages
    /\ transaction[e] # "none"
    /\ handler' = [handler EXCEPT ![w] = [NoTask EXCEPT !.pc = "read", !.event = e]]
    /\ UNCHANGED <<funding, paidBy, transaction, row>>

\* The payment as it is before the provider is asked: a success is not asked for again.
ReadPayment(w) ==
    LET e == handler[w].event
        p == PaymentOf[e] IN
    /\ Doing(w, "read")
    /\ IF funding[p] # "SUCCESSFUL" THEN GoTo(w, "ask", "none")
       ELSE IF paidBy[p] = e THEN Report(w, "mark", "none")
       ELSE Report(w, "release", "definitive")
    /\ UNCHANGED <<funding, paidBy, transaction, row>>

AnswerAbout(t) ==
    CASE t = "PAID" -> "SUCCESSFUL"
      [] t = "FAILED" -> "FAILED"
      [] OTHER -> "PROCESSING"

\* The provider answers, does not answer, or answers what does not fit the payment, which
\* counts as PROCESSING on the employer's page.
AskProvider(w) ==
    /\ Doing(w, "ask")
    /\ \/ GoTo(w, "record", AnswerAbout(transaction[handler[w].event]))
       \/ w \in Pages /\ GoTo(w, "record", "PROCESSING")
       \/ \E error \in {"retryable", "definitive"} : Report(w, "release", error)
    /\ UNCHANGED <<funding, paidBy, transaction, row>>

\* assertWebhookClaim, inside the recording transactions.
ClaimIsCurrent(w) == w \in Pages \/ HoldsClaim(w)

\* A payment that settled since it was read.  A Contract Job is refused as finalized, a
\* freelance project accepts the same transaction again.
RecordOnSettled(w, e, p) ==
    /\ UNCHANGED <<funding, paidBy>>
    /\ \/ paidBy[p] = e /\ Report(w, "mark", "none")
       \/ Report(w, "release", "definitive")

\* The funding transaction of verifyContractPayment.
RecordSuccess(w) ==
    LET e == handler[w].event
        p == PaymentOf[e] IN
    /\ Doing(w, "record")
    /\ handler[w].answer = "SUCCESSFUL"
    /\ IF ~ClaimIsCurrent(w) THEN Report(w, "release", "retryable") /\ UNCHANGED <<funding, paidBy>>
       ELSE IF Funded THEN RecordOnSettled(w, e, p)
       ELSE /\ funding' = [funding EXCEPT ![p] = "SUCCESSFUL"]
            /\ paidBy' = [paidBy EXCEPT ![p] = e]
            /\ Report(w, "mark", "none")
    /\ UNCHANGED <<transaction, row>>

\* Mutant: whatever the payment became counts as reconciled.
AlwaysReconciled(answer, p) == TRUE
\* A failure is recorded for good; a PROCESSING answer leaves the event to be retried, if
\* the payment itself is not settled.
Reconciled(answer, p) == answer = "FAILED" \/ funding[p] \notin LiveStatuses

\* transitionPaymentStatus and what verifyContractPayment makes of its result.
RecordOther(w) ==
    LET e == handler[w].event
        p == PaymentOf[e]
        answer == handler[w].answer IN
    /\ Doing(w, "record")
    /\ answer \in {"FAILED", "PROCESSING"}
    /\ IF ~ClaimIsCurrent(w) THEN Report(w, "release", "retryable") /\ UNCHANGED funding
       ELSE /\ IF funding[p] \in LiveStatuses /\ ~Funded
               THEN funding' = [funding EXCEPT ![p] = answer]
               ELSE UNCHANGED funding
            /\ IF funding[p] = "SUCCESSFUL" /\ paidBy[p] # e THEN Report(w, "release", "definitive")
               ELSE IF Reconciled(answer, p) THEN Report(w, "mark", "none")
               ELSE Report(w, "release", "retryable")
    /\ UNCHANGED <<paidBy, transaction, row>>

markContractWebhookProcessed(w) ==
    /\ Doing(w, "mark")
    /\ IF HoldsClaim(w)
       THEN row' = [row EXCEPT ![handler[w].event] =
                       [@ EXCEPT !.state = "processed", !.lease = "none", !.token = 0,
                                 !.next = "none", !.error = "none"]]
       ELSE UNCHANGED row
    /\ EndHandling(w)
    /\ UNCHANGED <<funding, paidBy, transaction>>

\* Mutant: the release does not look at the token.
AnybodyReleases(w) == TRUE
MayRelease(w) == HoldsClaim(w)

\* Mutant: the attempt that is running is counted twice.
RetriesOneLess(e, error) == error = "retryable" /\ row[e].attempts + 1 < MAX_WEBHOOK_ATTEMPTS
ShouldRetry(e, error) == error = "retryable" /\ row[e].attempts < MAX_WEBHOOK_ATTEMPTS

releaseContractWebhookClaim(w) ==
    LET e == handler[w].event
        error == handler[w].answer IN
    /\ Doing(w, "release")
    /\ IF MayRelease(w)
       THEN row' = [row EXCEPT ![e] =
                       [@ EXCEPT !.state = "open", !.lease = "none", !.token = 0, !.error = error,
                                 !.next = IF ShouldRetry(e, error) THEN "later" ELSE "none"]]
       ELSE UNCHANGED row
    /\ EndHandling(w)
    /\ UNCHANGED <<funding, paidBy, transaction>>

-----------------------------------------------------------------------------
(* Time, crashes, and the specification *)

\* WEBHOOK_LEASE_MS have passed since the claim.
LeaseExpires(e) ==
    /\ row[e].lease = "running"
    /\ row' = [row EXCEPT ![e].lease = "expired"]
    /\ UNCHANGED <<funding, paidBy, transaction, handler>>

\* WEBHOOK_RETRY_DELAYS_MS have passed since the release.
AttemptBecomesDue(e) ==
    /\ row[e].next = "later"
    /\ row' = [row EXCEPT ![e].next = "due"]
    /\ UNCHANGED <<funding, paidBy, transaction, handler>>

\* The process dies.
HandlerDies(w) ==
    /\ ~Doing(w, "idle")
    /\ EndHandling(w)
    /\ UNCHANGED <<funding, paidBy, transaction, row>>

ContinueHandling(w) ==
    \/ ReadPayment(w)
    \/ AskProvider(w)
    \/ RecordSuccess(w)
    \/ RecordOther(w)
    \/ markContractWebhookProcessed(w)
    \/ releaseContractWebhookClaim(w)

Claim(e) == \E w \in Recoverers : claimContractWebhookEvent(w, e)

WebhookNext ==
    \/ \E p \in Payments : InitializePayment(p)
    \/ \E e \in Events : CustomerPays(e) \/ StoreEvent(e) \/ LeaseExpires(e) \/ AttemptBecomesDue(e)
    \/ \E e \in Events : Claim(e) \/ \E w \in Pages : BeginVerification(w, e)
    \/ \E w \in Handlers : ContinueHandling(w) \/ HandlerDies(w)

WebhookSpec == WebhookInit /\ [][WebhookNext]_webhookVars

\* The recovery job runs every five minutes, clocks advance, and what a process has begun
\* it continues unless it dies.
WebhookFairness ==
    /\ \A w \in Recoverers : WF_webhookVars(ContinueHandling(w))
    /\ \A e \in Events :
         /\ WF_webhookVars(Claim(e))
         /\ WF_webhookVars(LeaseExpires(e))
         /\ WF_webhookVars(AttemptBecomesDue(e))

FairWebhookSpec == WebhookSpec /\ WebhookFairness

-----------------------------------------------------------------------------
(* Properties *)

\* A processed event is settled for good: no former holder of its claim, however late,
\* opens it again or marks it twice.
ProcessedIsFinal ==
    [][\A e \in Events : row[e].state = "processed" => row'[e] = row[e]]_webhookVars

\* The employer's money is not forgotten: a paid transaction whose event was acknowledged
\* has funded the escrow, or found it funded.  For Flutterwave this takes a payment with
\* one transaction; see PendingStaysRetryable.
AcknowledgedIsFunded ==
    \A e \in Events :
        /\ row[e].state = "processed"
        /\ transaction[e] = "PAID"
        /\ e \in PaystackEvents \/ \A f \in Events : PaymentOf[f] = PaymentOf[e] => f = e
        => Funded

\* An open event nobody works on will be tried again, unless its attempts are used up or
\* the last one found that no further attempt can succeed.
RetriedOrGivenUp ==
    \A e \in Events :
        row[e].state = "open" /\ row[e].lease = "none" /\ row[e].next = "none"
            => ~AttemptsLeft(e) \/ row[e].error = "definitive"

\* Claims are fenced: of the handlers that process an event, at most one may still change
\* the event and, through it, the payment.
OneHolder ==
    \A v, w \in Recoverers :
        /\ ~Doing(v, "idle") /\ ~Doing(w, "idle") /\ v # w
        /\ handler[v].event = handler[w].event
        => ~HoldsClaim(v) \/ ~HoldsClaim(w)

\* However often processes die, every stored event is acknowledged or left for manual
\* review, with its attempts used up or refused for good.
Decided(e) ==
    \/ row[e].state = "processed"
    \/ ~AttemptsLeft(e)
    \/ row[e].error = "definitive" /\ row[e].next = "none"

EveryEventIsDecided == \A e \in Events : row[e].state = "open" ~> Decided(e)

\* "A pending provider result stays retryable and is not acknowledged as processed."  It
\* does not hold: see the run that refutes it.
PendingStaysRetryable ==
    \A e \in Events : row[e].state = "processed" => transaction[e] # "PENDING"
=============================================================================
