------------------------ MODULE Subscription_proofs ------------------------
(***************************************************************************)
(* Theorems about Subscription, for any purchases, charges, workers and    *)
(* number of restarts.  First, what a step does: a worker begins, goes on  *)
(* or ends, and only eight actions write payments.  Then three layers of   *)
(* invariants: the row locks and what a holder may rely on; the one ACTIVE *)
(* subscription and what has paid for it; and the two rows of a purchase   *)
(* whose checkout was claimed once.                                        *)
(***************************************************************************)
EXTENDS Subscription, TLAPS

-----------------------------------------------------------------------------
(* What a worker remembers *)

Steps == {"idle"} \cup CheckoutSteps \cup CancelSteps \cup VerifySteps

WorkerType == [pc : Steps, purchase : Purchases \cup {NoPurchase},
               charge : Charges \cup {NoCharge}, notice : {"none", "pending", "final"},
               throws : BOOLEAN]

Paying == {"recheck", "review", "activate", "recordPaid"}
Failing == {"judge", "failPayment", "failSubscription", "report"}
AcknowledgeSteps == {"acknowledge", "acknowledgePending"}

\* What the provider holds of a charge that may still change.
Unsettled == {"none", "pending"}

\* A worker that verifies has a charge of its purchase, and knows the provider's answer.
Shape(w) ==
    /\ ~At(w, "idle") => worker[w].purchase \in Purchases
    /\ worker[w].pc \in VerifySteps =>
          /\ worker[w].charge \in Charges
          /\ PurchaseOf[worker[w].charge] = worker[w].purchase
          /\ charge[worker[w].charge] # "none"
          /\ worker[w].notice = "final" => charge[worker[w].charge] \notin Unsettled
    /\ worker[w].pc \in Paying => charge[worker[w].charge] = "successful"
    /\ worker[w].pc \in Failing => charge[worker[w].charge] \notin Unsettled \cup {"successful"}
    /\ worker[w].pc \in AcknowledgeSteps => worker[w].notice = "final"

Types == TypeOK /\ \A w \in Workers : Shape(w)

OthersStay(w) ==
    /\ worker' \in [Workers -> WorkerType]
    /\ \A v \in Workers \ {w} : worker'[v] = worker[v]

Done(w) == worker'[w] = Idle /\ OthersStay(w)

Goes(w, step) ==
    /\ worker'[w].pc = step
    /\ worker'[w].purchase = worker[w].purchase
    /\ worker'[w].charge = worker[w].charge
    /\ worker'[w].notice = worker[w].notice
    /\ OthersStay(w)

Begins(w, step) ==
    /\ At(w, "idle")
    /\ worker'[w].pc = step
    /\ worker'[w].purchase \in Purchases
    /\ OthersStay(w)

LEMMA EndIsDone ==
    ASSUME TypeOK, NEW w \in Workers, End(w)
    PROVE  Done(w)
  <1>1. worker \in [Workers -> WorkerType]
    BY DEF TypeOK, WorkerType, Steps
  <1> QED
    BY <1>1 DEF End, Done, OthersStay, WorkerType, Idle, Steps

LEMMA GoToGoes ==
    ASSUME TypeOK, NEW w \in Workers, NEW step \in Steps, GoTo(w, step)
    PROVE  Goes(w, step) /\ worker'[w].throws = worker[w].throws
  <1>1. worker \in [Workers -> WorkerType]
    BY DEF TypeOK, WorkerType, Steps
  <1>2. worker' = [worker EXCEPT ![w] = [worker[w] EXCEPT !.pc = step]]
    BY <1>1 DEF GoTo
  <1>3. worker[w] \in WorkerType
    BY <1>1
  <1>4. [worker[w] EXCEPT !.pc = step] \in WorkerType
    BY <1>3 DEF WorkerType
  <1> QED
    BY <1>1, <1>2, <1>3, <1>4 DEF Goes, OthersStay, WorkerType

LEMMA ReturnReturns ==
    ASSUME TypeOK, NEW w \in Workers, Return(w)
    PROVE  Done(w) \/ (worker[w].notice = "final" /\ Goes(w, "acknowledge"))
  BY EndIsDone, GoToGoes DEF Return, Steps, VerifySteps

LEMMA ReturnPendingReturns ==
    ASSUME TypeOK, NEW w \in Workers, ReturnPending(w)
    PROVE  Done(w) \/ (worker[w].notice = "final" /\ Goes(w, "acknowledgePending"))
  BY EndIsDone, GoToGoes DEF ReturnPending, Steps, VerifySteps

LEMMA ReportReports ==
    ASSUME TypeOK, NEW w \in Workers
    PROVE  /\ ReportFailed(w) => Done(w) \/ (worker[w].notice = "final" /\ Goes(w, "acknowledge"))
           /\ LookAgain(w) => Done(w) \/ Goes(w, "report")
  BY EndIsDone, GoToGoes, ReturnReturns DEF ReportFailed, LookAgain, Steps, VerifySteps

LEMMA BeginBegins ==
    ASSUME TypeOK, NEW w \in Workers, NEW step \in Steps, NEW p \in Purchases,
           At(w, "idle"), Begin(w, step, p)
    PROVE  Begins(w, step)
  <1>1. worker \in [Workers -> WorkerType]
    BY DEF TypeOK, WorkerType, Steps
  <1> DEFINE r == [Idle EXCEPT !.pc = step, !.purchase = p]
  <1>2. r \in WorkerType /\ r.pc = step /\ r.purchase = p
    BY DEF Idle, WorkerType
  <1>3. worker' = [worker EXCEPT ![w] = r]
    BY DEF Begin
  <1> HIDE DEF r
  <1> QED
    BY <1>1, <1>2, <1>3 DEF Begins, OthersStay

-----------------------------------------------------------------------------
(* What a step does *)

\* The steps that write no row, with the condition under which the worker goes on.
Quiet(w) ==
    \/ LookForActive(w) \/ CallForCheckout(w) \/ AbandonPayment(w) \/ CancelSubscription(w)
    \/ ReadPayment(w) \/ ProviderAnswers(w) \/ ProviderFails(w) \/ Recheck(w) \/ Activate(w)
    \/ JudgeFailure(w) \/ FailPayment(w) \/ ReportFailure(w) \/ AcknowledgeNotice(w)
    \/ DeadlockAborts(w) \/ Crash(w)

\* The provider makes a page, of which the worker may not be told.
PageEdge(w, p) ==
    /\ At(w, "call")
    /\ pages' = pages \cup {p}
    /\ Done(w) \/ Goes(w, "link")

CheckoutEdge(w, p) ==
    \/ At(w, "look") /\ Goes(w, "intent")
    \/ At(w, "call") /\ Goes(w, "link")
    \/ At(w, "call") /\ Goes(w, "abandon")
    \/ /\ At(w, "abandon") /\ Goes(w, "abandonSubscription")
       /\ ~PaymentLocked(p) /\ payment[p] = "PROCESSING"

CancelEdge(w, p) ==
    /\ At(w, "cancelSubscription") /\ Goes(w, "cancelPayment")
    /\ ~SubscriptionLocked(p) /\ subscription[p] = "PENDING"

VerifyEdge(w, p) ==
    \/ At(w, "read") /\ Goes(w, "ask") /\ payment[p] \in {"PENDING", "CANCELLED"}
    \/ At(w, "ask") /\ Goes(w, "recheck") /\ charge[worker[w].charge] = "successful"
    \/ /\ At(w, "ask") /\ Goes(w, "judge")
       /\ charge[worker[w].charge] \notin {"pending", "successful"}
    \/ At(w, "recheck") /\ Goes(w, "review")
    \/ At(w, "recheck") /\ Goes(w, "activate")
    \/ /\ At(w, "activate") /\ Goes(w, "recordPaid")
       /\ ~SubscriptionLocked(p) /\ subscription[p] = "PENDING"
       /\ \A v \in Workers : ~At(v, "recordPaid")
       /\ \A q \in Purchases \ {p} : subscription[q] # "ACTIVE"
    \/ At(w, "judge") /\ Goes(w, "failPayment")
    \/ /\ At(w, "failPayment") /\ Goes(w, "failSubscription")
       /\ ~PaymentLocked(p) /\ payment[p] = "PENDING"
    \/ worker[w].pc \in {"judge", "failPayment"} /\ Goes(w, "report")

\* A notice goes to be acknowledged though its payment is not decided.
PendingEdge(w) ==
    /\ worker[w].pc \in {"read", "ask", "report"}
    /\ worker[w].notice = "final"
    /\ Goes(w, "acknowledgePending")

\* A notice goes to be acknowledged without a write: what the worker saw of the payment.
ReturnEdge(w, p) ==
    /\ worker[w].notice = "final"
    /\ Goes(w, "acknowledge")
    /\ \/ /\ At(w, "read")
          /\ BelongsTo(worker[w].charge, p)
          /\ payment[p] \in {"SUCCESSFUL", "FAILED"}
       \/ worker[w].pc \in {"recheck", "activate"} /\ payment[p] = "SUCCESSFUL"
       \/ At(w, "report")

LEMMA QuietMoves ==
    ASSUME Types, NEW w \in Workers, Quiet(w)
    PROVE  /\ UNCHANGED <<rows, charge, checkouts>>
           /\ UNCHANGED pages \/ PageEdge(w, worker[w].purchase)
           /\ ~At(w, "idle")
           /\ \/ Done(w) \/ CheckoutEdge(w, worker[w].purchase) \/ CancelEdge(w, worker[w].purchase)
              \/ VerifyEdge(w, worker[w].purchase) \/ ReturnEdge(w, worker[w].purchase)
              \/ PendingEdge(w)
  <1> DEFINE p == worker[w].purchase
  <1>1. TypeOK
    BY DEF Types
  <1>2. CASE LookForActive(w) \/ CallForCheckout(w) \/ AbandonPayment(w)
    BY <1>1, <1>2, EndIsDone, GoToGoes
    DEF LookForActive, CallForCheckout, AbandonPayment, CheckoutEdge, PageEdge, At, Steps,
        CheckoutSteps, provider
  <1>3. CASE CancelSubscription(w)
    BY <1>1, <1>3, EndIsDone, GoToGoes DEF CancelSubscription, CancelEdge, At, Steps, CancelSteps, provider
  <1>4. CASE ReadPayment(w)
    <2>1. \/ Done(w)
          \/ At(w, "read") /\ Goes(w, "ask") /\ payment[p] \in {"PENDING", "CANCELLED"}
          \/ BelongsTo(worker[w].charge, p) /\ payment[p] \in {"SUCCESSFUL", "FAILED"} /\ Return(w)
          \/ ReturnPending(w)
      BY <1>1, <1>4, EndIsDone, GoToGoes DEF ReadPayment, At, Steps, VerifySteps
    <2> QED
      BY <1>1, <1>4, <2>1, ReturnReturns, ReturnPendingReturns
      DEF ReadPayment, At, VerifyEdge, ReturnEdge, PendingEdge, provider
  <1>5. CASE ProviderAnswers(w)
    <2>1. PICK answer \in {charge[worker[w].charge], "pending"} :
              IF answer = "pending" THEN ReturnPending(w)
              ELSE IF Accepts(answer) THEN GoTo(w, "recheck")
              ELSE worker' = [worker EXCEPT ![w].pc = "judge", ![w].throws = (answer = "mismatched")]
      BY <1>5 DEF ProviderAnswers
    <2>2. At(w, "ask") /\ UNCHANGED <<rows, provider>>
      BY <1>5 DEF ProviderAnswers
    <2>3. CASE answer = "pending"
      BY <1>1, <2>1, <2>2, <2>3, ReturnPendingReturns DEF At, PendingEdge, provider
    <2>4. CASE answer # "pending" /\ answer = "successful"
      <3>1. Goes(w, "recheck") /\ charge[worker[w].charge] = "successful"
        BY <1>1, <2>1, <2>4, GoToGoes DEF Accepts, Steps, VerifySteps
      <3> QED
        BY <2>2, <3>1 DEF At, VerifyEdge, provider
    <2>5. CASE answer # "pending" /\ answer # "successful"
      <3>1. worker \in [Workers -> WorkerType]
        BY <1>1 DEF TypeOK, WorkerType, Steps
      <3> DEFINE t == (answer = "mismatched")
                 r == [worker[w] EXCEPT !.pc = "judge", !.throws = t]
      <3>2. t \in BOOLEAN
        OBVIOUS
      <3>3. worker' = [worker EXCEPT ![w] = r]
        BY <2>1, <2>5, <3>1 DEF Accepts
      <3> HIDE DEF t
      <3>4. /\ r \in WorkerType
            /\ r.pc = "judge" /\ r.purchase = worker[w].purchase
            /\ r.charge = worker[w].charge /\ r.notice = worker[w].notice
        BY <3>1, <3>2 DEF WorkerType, Steps, VerifySteps
      <3> HIDE DEF r
      <3>5. Goes(w, "judge")
        BY <3>1, <3>3, <3>4 DEF Goes, OthersStay
      <3>6. charge[worker[w].charge] \notin {"pending", "successful"}
        BY <2>1, <2>5
      <3> QED
        BY <2>2, <3>5, <3>6 DEF At, VerifyEdge, provider
    <2> QED
      BY <2>3, <2>4, <2>5
  <1>6. CASE Recheck(w)
    BY <1>1, <1>6, EndIsDone, GoToGoes, ReturnReturns
    DEF Recheck, At, VerifyEdge, ReturnEdge, Steps, VerifySteps, provider
  <1>7. CASE Activate(w)
    <2>1. \/ Done(w)
          \/ payment[p] = "SUCCESSFUL" /\ Return(w)
          \/ GoTo(w, "recordPaid") /\ subscription[p] = "PENDING"
             /\ \A q \in Purchases \ {p} : subscription[q] # "ACTIVE"
      BY <1>1, <1>7, EndIsDone DEF Activate, MayActivate, ViolatesUniqueIndex
    <2> QED
      BY <1>1, <1>7, <2>1, GoToGoes, ReturnReturns
      DEF Activate, At, VerifyEdge, ReturnEdge, Steps, VerifySteps, provider
  <1>8. CASE JudgeFailure(w) \/ FailPayment(w)
    BY <1>1, <1>8, GoToGoes, ReportReports
    DEF JudgeFailure, FailPayment, At, VerifyEdge, Steps, VerifySteps, provider
  <1>9. CASE ReportFailure(w)
    BY <1>1, <1>9, ReturnReturns, ReturnPendingReturns
    DEF ReportFailure, At, ReturnEdge, PendingEdge, provider
  <1>10. CASE ProviderFails(w) \/ AcknowledgeNotice(w) \/ DeadlockAborts(w) \/ Crash(w)
    BY <1>1, <1>10, EndIsDone
    DEF ProviderFails, AcknowledgeNotice, DeadlockAborts, Crash, At, provider
  <1> QED
    BY <1>2, <1>3, <1>4, <1>5, <1>6, <1>7, <1>8, <1>9, <1>10 DEF Quiet

\* The eight steps that write a payment, its subscription or its checkout.
Writes(w) ==
    \/ CreateIntent(w) \/ ClaimCheckout(w) \/ StoreLink(w) \/ AbandonSubscription(w)
    \/ CancelPayment(w) \/ RecordForReview(w) \/ RecordPaid(w) \/ FailSubscription(w)

LEMMA WritesMove ==
    ASSUME Types, NEW w \in Workers, Writes(w)
    PROVE  /\ ~At(w, "idle")
           /\ \/ Done(w)
              \/ CreateIntent(w) /\ Goes(w, "claim")
              \/ ClaimCheckout(w) /\ Goes(w, "call") /\ payment[worker[w].purchase] = "PENDING"
              \/ /\ RecordForReview(w) \/ RecordPaid(w) \/ FailSubscription(w)
                 /\ worker[w].notice = "final"
                 /\ Goes(w, "acknowledge")
  <1>1. TypeOK
    BY DEF Types
  <1>2. CASE CreateIntent(w)
    BY <1>1, <1>2, EndIsDone, GoToGoes DEF CreateIntent, At, Steps, CheckoutSteps
  <1>3. CASE ClaimCheckout(w)
    BY <1>1, <1>3, EndIsDone, GoToGoes DEF ClaimCheckout, At, Steps, CheckoutSteps
  <1>4. CASE StoreLink(w) \/ AbandonSubscription(w) \/ CancelPayment(w)
    BY <1>1, <1>4, EndIsDone DEF StoreLink, AbandonSubscription, CancelPayment, At
  <1>5. CASE RecordForReview(w)
    BY <1>1, <1>5, EndIsDone, ReturnReturns DEF RecordForReview, At
  <1>6. CASE RecordPaid(w)
    BY <1>1, <1>6, ReturnReturns DEF RecordPaid, At
  <1>7. CASE FailSubscription(w)
    BY <1>1, <1>7, EndIsDone, ReportReports DEF FailSubscription, At
  <1> QED
    BY <1>2, <1>3, <1>4, <1>5, <1>6, <1>7 DEF Writes

\* The first statement of a request or a notice, which expires what has lapsed.
Opens(w) ==
    \/ \E p \in Purchases : BeginCheckout(w, p)
    \/ \E c \in Charges :
          BeginVerification(w, c) \/ DeliverNotice(w, c) \/ DeliverPendingNotice(w, c)

LEMMA OpensBegins ==
    ASSUME Types, NEW w \in Workers, Opens(w)
    PROVE  /\ UNCHANGED <<payment, checkoutUrl, manualReview, transactionId, periodOver, provider>>
           /\ subscription' = Lapsed
           /\ \/ Begins(w, "look")
              \/ /\ Begins(w, "read")
                 /\ worker'[w].charge \in Charges
                 /\ worker'[w].purchase = PurchaseOf[worker'[w].charge]
                 /\ charge[worker'[w].charge] # "none"
                 /\ worker'[w].notice = "final" => charge[worker'[w].charge] \notin Unsettled
  <1>1. TypeOK /\ worker \in [Workers -> WorkerType]
    BY DEF Types, TypeOK, WorkerType, Steps
  <1>2. CASE \E p \in Purchases : BeginCheckout(w, p)
    BY <1>1, <1>2, BeginBegins DEF BeginCheckout, Steps, CheckoutSteps
  <1>3. ASSUME NEW c \in Charges,
               BeginVerification(w, c) \/ DeliverNotice(w, c) \/ DeliverPendingNotice(w, c)
        PROVE  /\ Begins(w, "read")
               /\ worker'[w].charge = c
               /\ worker'[w].purchase = PurchaseOf[c]
               /\ charge[c] # "none"
               /\ worker'[w].notice = "final" => charge[c] \notin Unsettled
    <2> DEFINE r == [Idle EXCEPT !.pc = "read", !.purchase = PurchaseOf[c], !.charge = c]
               n(s) == [Idle EXCEPT !.pc = "read", !.purchase = PurchaseOf[c], !.charge = c,
                                    !.notice = s]
    <2>1. PurchaseOf[c] \in Purchases
      BY SubscriptionAssumption
    <2>2. \A x \in {r, n("pending"), n("final")} :
              /\ x \in WorkerType /\ x.pc = "read"
              /\ x.purchase = PurchaseOf[c] /\ x.charge = c
      BY <2>1 DEF Idle, WorkerType, Steps, VerifySteps
    <2>3. r.notice = "none" /\ n("pending").notice = "pending"
      BY DEF Idle
    <2>4. PICK x \in {r, n("pending"), n("final")} :
              /\ worker' = [worker EXCEPT ![w] = x]
              /\ x \in {r, n("pending")} \/ DeliverNotice(w, c)
      BY <1>3 DEF BeginVerification, DeliverNotice, DeliverPendingNotice
    <2>5. At(w, "idle") /\ charge[c] # "none"
      BY <1>3 DEF BeginVerification, DeliverNotice, DeliverPendingNotice
    <2>6. x.notice = "final" => charge[c] \notin Unsettled
      BY <2>3, <2>4 DEF DeliverNotice, Unsettled
    <2>7. x \in WorkerType /\ x.pc = "read" /\ x.purchase = PurchaseOf[c] /\ x.charge = c
      BY <2>2, <2>4
    <2> HIDE DEF r, n
    <2> QED
      BY <1>1, <2>1, <2>4, <2>5, <2>6, <2>7 DEF Begins, OthersStay
  <1> QED
    BY <1>2, <1>3 DEF Opens, BeginCheckout, BeginVerification, DeliverNotice, DeliverPendingNotice

LEMMA CancellationBegins ==
    ASSUME Types, NEW w \in Workers, NEW p \in Purchases, BeginCancellation(w, p)
    PROVE  Begins(w, "cancelSubscription") /\ UNCHANGED <<rows, provider>>
  BY BeginBegins DEF BeginCancellation, Types, Steps, CancelSteps

\* Every step is one of these.
LEMMA NextCases ==
    ASSUME Next
    PROVE  \/ \E w \in Workers : Quiet(w) \/ Writes(w) \/ Opens(w)
           \/ \E w \in Workers, p \in Purchases : BeginCancellation(w, p)
           \/ \E c \in Charges : SeekerPays(c)
           \/ \E p \in Purchases : PeriodEnds(p)
           \/ ExpireSubscriptions
  BY DEF Next, Step, CheckoutStep, CancelStep, VerifyStep, Deliver, Quiet, Writes, Opens

-----------------------------------------------------------------------------
(* Types *)

\* A charge that was tried is not forgotten, and keeps its final status.
ChargesStay ==
    \A c \in Charges : /\ charge[c] # "none" => charge'[c] # "none"
                       /\ charge[c] \notin Unsettled => charge'[c] = charge[c]

LEMMA ChargesStayInEachStep ==
    ASSUME Types, Next
    PROVE  ChargesStay
  <1>1. ASSUME NEW w \in Workers, Quiet(w) \/ Writes(w) \/ Opens(w)
        PROVE  UNCHANGED charge
    BY <1>1, QuietMoves, OpensBegins
    DEF provider, Writes, CreateIntent, ClaimCheckout, StoreLink, AbandonSubscription,
        CancelPayment, RecordForReview, RecordPaid, FailSubscription
  <1>2. ASSUME NEW c \in Charges, SeekerPays(c)
        PROVE  ChargesStay
    BY <1>2 DEF SeekerPays, ChargesStay, Unsettled, Types, TypeOK
  <1> QED
    BY <1>1, <1>2, NextCases
    DEF ChargesStay, BeginCancellation, PeriodEnds, ExpireSubscriptions, provider

LEMMA ShapeOfOthers ==
    ASSUME Types, ChargesStay, NEW w \in Workers, OthersStay(w), Shape(w)'
    PROVE  \A v \in Workers : Shape(v)'
  BY DEF Types, ChargesStay, OthersStay, Shape, At, Paying, Failing, VerifySteps, Unsettled,
         AcknowledgeSteps

LEMMA ShapeStays ==
    ASSUME Types, ChargesStay, UNCHANGED worker
    PROVE  \A v \in Workers : Shape(v)'
  BY DEF Types, ChargesStay, Shape, At, Paying, Failing, VerifySteps, Unsettled,
         AcknowledgeSteps

LEMMA ShapeWhenDone ==
    ASSUME NEW w \in Workers, Done(w)
    PROVE  Shape(w)'
  BY DEF Done, Shape, At, Idle, VerifySteps, Paying, Failing, AcknowledgeSteps

LEMMA ShapesOfLapsed ==
    ASSUME TypeOK
    PROVE  /\ Lapsed \in [Purchases -> SubscriptionStatuses]
           /\ \A p \in Purchases :
                  \/ Lapsed[p] = subscription[p]
                  \/ subscription[p] = "ACTIVE" /\ periodOver[p] /\ Lapsed[p] = "EXPIRED"
  BY DEF TypeOK, Lapsed, SubscriptionStatuses

LEMMA WorkersShape ==
    ASSUME Types, Next
    PROVE  \A v \in Workers : Shape(v)'
  <1>1. ChargesStay
    BY ChargesStayInEachStep
  <1>2. ASSUME NEW w \in Workers, Quiet(w)
        PROVE  OthersStay(w) /\ Shape(w)'
    <2>1. UNCHANGED charge
      BY <1>2, QuietMoves
    <2>2. CASE Done(w)
      BY <2>2, ShapeWhenDone DEF Done
    <2>3. CASE ~Done(w)
      BY <1>2, <2>1, <2>3, QuietMoves
      DEF Types, Shape, At, Goes, CheckoutEdge, CancelEdge, VerifyEdge, ReturnEdge, PendingEdge,
          VerifySteps, Paying, Failing, AcknowledgeSteps, Unsettled
    <2> QED
      BY <2>2, <2>3
  <1>3. ASSUME NEW w \in Workers, Writes(w)
        PROVE  OthersStay(w) /\ Shape(w)'
    <2>1. UNCHANGED charge
      BY <1>3 DEF provider, Writes, CreateIntent, ClaimCheckout, StoreLink, AbandonSubscription,
                  CancelPayment, RecordForReview, RecordPaid, FailSubscription
    <2>2. CASE Done(w)
      BY <2>2, ShapeWhenDone DEF Done
    <2>3. CASE ~Done(w)
      BY <1>3, <2>1, <2>3, WritesMove
      DEF Types, Shape, At, Goes, RecordForReview, RecordPaid, FailSubscription,
          VerifySteps, Paying, Failing, AcknowledgeSteps, Unsettled
    <2> QED
      BY <2>2, <2>3
  <1>4. ASSUME NEW w \in Workers, Opens(w)
        PROVE  OthersStay(w) /\ Shape(w)'
    BY <1>4, OpensBegins DEF Types, Shape, At, Begins, provider, VerifySteps, Paying, Failing,
        AcknowledgeSteps
  <1>5. ASSUME NEW w \in Workers, NEW p \in Purchases, BeginCancellation(w, p)
        PROVE  OthersStay(w) /\ Shape(w)'
    BY <1>5, CancellationBegins DEF Shape, At, Begins, VerifySteps, Paying, Failing, AcknowledgeSteps
  <1> QED
    BY <1>1, <1>2, <1>3, <1>4, <1>5, ShapeOfOthers, ShapeStays, NextCases
    DEF SeekerPays, PeriodEnds, ExpireSubscriptions

LEMMA TypesOfAWrite ==
    ASSUME Types, NEW w \in Workers, Writes(w)
    PROVE  TypeOK'
  <1>1. worker' \in [Workers -> WorkerType]
    BY WritesMove DEF Done, Goes, OthersStay
  <1>2. Recorded(w) \in Charges \cup {NoCharge}
    BY DEF Recorded, Types, TypeOK
  <1>3. /\ payment \in [Purchases -> PaymentStatuses]
        /\ subscription \in [Purchases -> SubscriptionStatuses]
        /\ checkoutUrl \in [Purchases -> BOOLEAN]
        /\ manualReview \in [Purchases -> BOOLEAN]
        /\ transactionId \in [Purchases -> Charges \cup {NoCharge}]
        /\ checkouts \in [Purchases -> 0 .. 2]
    BY DEF Types, TypeOK
  <1>4. UNCHANGED <<periodOver, charge, pages, event, crashes>>
    BY DEF Writes, CreateIntent, ClaimCheckout, StoreLink, AbandonSubscription, CancelPayment,
           RecordForReview, RecordPaid, FailSubscription, provider
  <1>5. /\ payment' \in [Purchases -> PaymentStatuses]
        /\ subscription' \in [Purchases -> SubscriptionStatuses]
        /\ checkoutUrl' \in [Purchases -> BOOLEAN]
        /\ manualReview' \in [Purchases -> BOOLEAN]
        /\ transactionId' \in [Purchases -> Charges \cup {NoCharge}]
        /\ checkouts' \in [Purchases -> 0 .. 2]
    <2>1. CASE CreateIntent(w)
      BY <1>2, <1>3, <2>1 DEF CreateIntent, PaymentStatuses, SubscriptionStatuses, provider
    <2>2. CASE ClaimCheckout(w)
      BY <1>2, <1>3, <2>2 DEF ClaimCheckout, PaymentStatuses, SubscriptionStatuses, provider
    <2>3. CASE StoreLink(w)
      BY <1>2, <1>3, <2>3 DEF StoreLink, PaymentStatuses, SubscriptionStatuses, provider
    <2>4. CASE AbandonSubscription(w)
      BY <1>2, <1>3, <2>4 DEF AbandonSubscription, PaymentStatuses, SubscriptionStatuses, provider
    <2>5. CASE CancelPayment(w)
      BY <1>2, <1>3, <2>5 DEF CancelPayment, PaymentStatuses, SubscriptionStatuses, provider
    <2>6. CASE RecordForReview(w)
      BY <1>2, <1>3, <2>6 DEF RecordForReview, PaymentStatuses, SubscriptionStatuses, provider
    <2>7. CASE RecordPaid(w)
      BY <1>2, <1>3, <2>7 DEF RecordPaid, PaymentStatuses, SubscriptionStatuses, provider
    <2>8. CASE FailSubscription(w)
      BY <1>2, <1>3, <2>8 DEF FailSubscription, PaymentStatuses, SubscriptionStatuses, provider
    <2> QED
      BY <2>1, <2>2, <2>3, <2>4, <2>5, <2>6, <2>7, <2>8 DEF Writes
  <1> QED
    BY <1>1, <1>4, <1>5 DEF Types, TypeOK, WorkerType, Steps

LEMMA TypesOfEachStep ==
    ASSUME Types, Next
    PROVE  Types'
  <1>1. TypeOK
    BY DEF Types
  <1>2. ASSUME NEW w \in Workers, Quiet(w)
        PROVE  TypeOK'
    <2>1. UNCHANGED <<rows, charge, checkouts>> /\ worker' \in [Workers -> WorkerType]
      BY <1>2, QuietMoves
      DEF Done, Goes, OthersStay, CheckoutEdge, CancelEdge, VerifyEdge, ReturnEdge, PendingEdge
    <2>2. event' \in [Charges -> EventStates] /\ crashes' \in 0 .. MaxCrashes
      BY <1>1, <1>2, SubscriptionAssumption
      DEF TypeOK, Quiet, LookForActive, CallForCheckout, AbandonPayment, CancelSubscription,
          ReadPayment, ProviderAnswers, ProviderFails, Recheck, Activate, JudgeFailure,
          FailPayment, ReportFailure, AcknowledgeNotice, DeadlockAborts, Crash, EventStates
    <2>3. pages' \subseteq Purchases
      BY <1>1, <1>2, QuietMoves DEF PageEdge, Types, Shape, TypeOK
    <2> QED
      BY <1>1, <2>1, <2>2, <2>3 DEF TypeOK, rows, WorkerType, Steps
  <1>3. ASSUME NEW w \in Workers, Opens(w)
        PROVE  TypeOK'
    <2>1. worker' \in [Workers -> WorkerType]
      BY <1>3, OpensBegins DEF Begins, OthersStay
    <2>2. event' \in [Charges -> EventStates] /\ UNCHANGED crashes
      BY <1>1, <1>3
      DEF TypeOK, Opens, BeginCheckout, BeginVerification, DeliverNotice, DeliverPendingNotice,
          StoredAs, EventStates
    <2> QED
      BY <1>1, <1>3, <2>1, <2>2, OpensBegins, ShapesOfLapsed DEF TypeOK, provider, WorkerType, Steps
  <1>4. ASSUME NEW w \in Workers, NEW p \in Purchases, BeginCancellation(w, p)
        PROVE  TypeOK'
    BY <1>1, <1>4, CancellationBegins
    DEF Begins, OthersStay, BeginCancellation, TypeOK, rows, provider, WorkerType, Steps
  <1>5. ASSUME NEW c \in Charges, SeekerPays(c)
        PROVE  TypeOK'
    BY <1>1, <1>5 DEF SeekerPays, TypeOK, rows, ChargeStates
  <1>6. ASSUME NEW p \in Purchases, PeriodEnds(p)
        PROVE  TypeOK'
    BY <1>1, <1>6 DEF PeriodEnds, TypeOK, provider
  <1>7. ASSUME ExpireSubscriptions
        PROVE  TypeOK'
    BY <1>1, <1>7, ShapesOfLapsed DEF ExpireSubscriptions, TypeOK, provider
  <1> QED
    BY <1>2, <1>3, <1>4, <1>5, <1>6, <1>7, TypesOfAWrite, WorkersShape, NextCases DEF Types

LEMMA TypesInvariant == Spec => []Types
  <1>1. Init => Types
    BY SubscriptionAssumption
    DEF Init, Types, TypeOK, Shape, At, Idle, PaymentStatuses, SubscriptionStatuses, ChargeStates,
        VerifySteps, Paying, Failing, AcknowledgeSteps, EventStates
  <1>2. Types /\ [Next]_vars => Types'
    <2>1. ASSUME Types, UNCHANGED vars
          PROVE  Types'
      BY <2>1 DEF vars, rows, provider, Types, TypeOK, Shape, At
    <2> QED
      BY <2>1, TypesOfEachStep
  <1> QED
    BY <1>1, <1>2, PTL DEF Spec

\* Every variable keeps its type, whatever the purchases, charges and workers.
THEOREM TypeOKHolds == Spec => []TypeOK
  BY TypesInvariant, PTL DEF Types

-----------------------------------------------------------------------------
(* The row locks *)

SubscriptionSteps == {"recordPaid", "cancelPayment"}
PaymentSteps == {"failSubscription", "abandonSubscription"}
CallSteps == {"call", "link", "abandon", "abandonSubscription"}

\* What the holder of a row saw as it claimed the row still holds.
Holds(w) ==
    LET p == worker[w].purchase IN
    /\ worker[w].pc \in SubscriptionSteps => subscription[p] = "PENDING"
    /\ At(w, "failSubscription") => payment[p] = "PENDING"
    /\ At(w, "abandonSubscription") => payment[p] = "PROCESSING"
    /\ At(w, "recordPaid") => \A q \in Purchases : subscription[q] # "ACTIVE"
    /\ worker[w].pc \in CallSteps => payment[p] # "none"

\* A row has one holder, and one activation of the seeker is about to commit.
Excludes(v, w) ==
    /\ ~(At(v, "recordPaid") /\ At(w, "recordPaid"))
    /\ worker[v].purchase = worker[w].purchase =>
          /\ ~(worker[v].pc \in SubscriptionSteps /\ worker[w].pc \in SubscriptionSteps)
          /\ ~(worker[v].pc \in PaymentSteps /\ worker[w].pc \in PaymentSteps)

RowFacts(p) ==
    /\ payment[p] = "none" <=> subscription[p] = "none"
    /\ payment[p] = "CANCELLED" => subscription[p] = "CANCELLED"
    /\ manualReview[p] => subscription[p] = "CANCELLED"

Locks ==
    /\ \A w \in Workers : Holds(w)
    /\ \A v, w \in Workers : v # w => Excludes(v, w)
    /\ \A p \in Purchases : RowFacts(p)

LockSteps == SubscriptionSteps \cup PaymentSteps

LEMMA ExclusionWithoutClaim ==
    ASSUME NEW w \in Workers, OthersStay(w), worker'[w].pc \notin LockSteps,
           \A u, v \in Workers : u # v => Excludes(u, v)
    PROVE  \A u, v \in Workers : u # v => Excludes(u, v)'
  BY DEF OthersStay, Excludes, At, LockSteps, SubscriptionSteps, PaymentSteps

LEMMA QuietKeepsLocks ==
    ASSUME Types, Locks, NEW w \in Workers, Quiet(w)
    PROVE  Locks'
  <1> DEFINE p == worker[w].purchase
  <1>1. UNCHANGED <<payment, subscription, manualReview>>
    BY QuietMoves DEF rows
  <1>2. OthersStay(w)
    BY QuietMoves DEF Done, Goes, CheckoutEdge, CancelEdge, VerifyEdge, ReturnEdge, PendingEdge
  <1>3. \A q \in Purchases : RowFacts(q)'
    BY <1>1 DEF Locks, RowFacts
  <1>4. \A v \in Workers \ {w} : Holds(v)'
    BY <1>1, <1>2 DEF Locks, Holds, At, OthersStay
  <1>5. CASE worker'[w].pc \notin LockSteps
    <2>1. Holds(w)'
      BY <1>1, <1>5, QuietMoves
      DEF Locks, Holds, At, Done, Goes, Idle, CheckoutEdge, CancelEdge, VerifyEdge, ReturnEdge, PendingEdge,
          LockSteps, SubscriptionSteps, PaymentSteps, CallSteps
    <2> QED
      BY <1>2, <1>3, <1>4, <1>5, <2>1, ExclusionWithoutClaim DEF Locks
  <1>6. CASE At(w, "abandon") /\ Goes(w, "abandonSubscription")
    <2>1. ~PaymentLocked(p) /\ payment[p] = "PROCESSING"
      BY <1>6, QuietMoves
      DEF At, Done, Goes, Idle, CheckoutEdge, CancelEdge, VerifyEdge, ReturnEdge, PendingEdge
    <2>2. Holds(w)'
      BY <1>1, <1>6, <2>1 DEF Holds, At, Goes, SubscriptionSteps, CallSteps
    <2>3. \A u, v \in Workers : u # v => Excludes(u, v)'
      BY <1>2, <1>6, <2>1
      DEF Locks, Excludes, PaymentLocked, At, Goes, OthersStay, SubscriptionSteps, PaymentSteps
    <2> QED
      BY <1>2, <1>3, <1>4, <2>2, <2>3 DEF Locks
  <1>7. CASE At(w, "cancelSubscription") /\ Goes(w, "cancelPayment")
    <2>1. ~SubscriptionLocked(p) /\ subscription[p] = "PENDING"
      BY <1>7, QuietMoves
      DEF At, Done, Goes, Idle, CheckoutEdge, CancelEdge, VerifyEdge, ReturnEdge, PendingEdge
    <2>2. Holds(w)'
      BY <1>1, <1>7, <2>1 DEF Holds, At, Goes, SubscriptionSteps, CallSteps
    <2>3. \A u, v \in Workers : u # v => Excludes(u, v)'
      BY <1>2, <1>7, <2>1
      DEF Locks, Excludes, SubscriptionLocked, At, Goes, OthersStay, SubscriptionSteps, PaymentSteps
    <2> QED
      BY <1>2, <1>3, <1>4, <2>2, <2>3 DEF Locks
  <1>8. CASE At(w, "activate") /\ Goes(w, "recordPaid")
    <2>1. /\ ~SubscriptionLocked(p) /\ subscription[p] = "PENDING"
          /\ \A v \in Workers : ~At(v, "recordPaid")
          /\ \A q \in Purchases \ {p} : subscription[q] # "ACTIVE"
      BY <1>8, QuietMoves
      DEF At, Done, Goes, Idle, CheckoutEdge, CancelEdge, VerifyEdge, ReturnEdge, PendingEdge
    <2>2. Holds(w)'
      BY <1>1, <1>8, <2>1 DEF Holds, At, Goes, SubscriptionSteps, CallSteps
    <2>3. \A u, v \in Workers : u # v => Excludes(u, v)'
      BY <1>2, <1>8, <2>1
      DEF Locks, Excludes, SubscriptionLocked, At, Goes, OthersStay, SubscriptionSteps, PaymentSteps
    <2> QED
      BY <1>2, <1>3, <1>4, <2>2, <2>3 DEF Locks
  <1>9. CASE At(w, "failPayment") /\ Goes(w, "failSubscription")
    <2>1. ~PaymentLocked(p) /\ payment[p] = "PENDING"
      BY <1>9, QuietMoves
      DEF At, Done, Goes, Idle, CheckoutEdge, CancelEdge, VerifyEdge, ReturnEdge, PendingEdge
    <2>2. Holds(w)'
      BY <1>1, <1>9, <2>1 DEF Holds, At, Goes, SubscriptionSteps, CallSteps
    <2>3. \A u, v \in Workers : u # v => Excludes(u, v)'
      BY <1>2, <1>9, <2>1
      DEF Locks, Excludes, PaymentLocked, At, Goes, OthersStay, SubscriptionSteps, PaymentSteps
    <2> QED
      BY <1>2, <1>3, <1>4, <2>2, <2>3 DEF Locks
  <1> QED
    BY <1>5, <1>6, <1>7, <1>8, <1>9, QuietMoves
    DEF At, Done, Goes, Idle, CheckoutEdge, CancelEdge, VerifyEdge, ReturnEdge, PendingEdge,
        LockSteps, SubscriptionSteps, PaymentSteps

LEMMA WritesKeepLocks ==
    ASSUME Types, Locks, NEW w \in Workers, Writes(w)
    PROVE  Locks'
  <1>1. /\ payment \in [Purchases -> PaymentStatuses]
        /\ subscription \in [Purchases -> SubscriptionStatuses]
        /\ manualReview \in [Purchases -> BOOLEAN]
    BY DEF Types, TypeOK
  <1>2. PICK p \in Purchases : p = worker[w].purchase
    BY WritesMove DEF Types, Shape
  <1>3. OthersStay(w) /\ worker'[w].purchase \in {p, NoPurchase}
    BY <1>2, WritesMove DEF Done, Goes, Idle
  <1>4. /\ worker'[w].pc \notin LockSteps
        /\ worker'[w].pc \in CallSteps => ClaimCheckout(w) /\ worker'[w].purchase = p /\ payment[p] = "PENDING"
    BY <1>2, WritesMove DEF Done, Goes, Idle, LockSteps, SubscriptionSteps, PaymentSteps, CallSteps
  <1>5. \A u, v \in Workers : u # v => Excludes(u, v)'
    BY <1>3, <1>4, ExclusionWithoutClaim DEF Locks
  <1>6. \A v \in Workers \ {w} : worker'[v] = worker[v]
    BY <1>3 DEF OthersStay
  <1>7. \A v \in Workers : Holds(v)
    BY DEF Locks
  <1>8. \A v \in Workers \ {w} : Excludes(v, w) /\ (~At(v, "idle") => worker[v].purchase \in Purchases)
    BY DEF Locks, Types, Shape
  <1>9. RowFacts(p)
    BY <1>2 DEF Locks
  <1>10. /\ \A q \in Purchases \ {p} : UNCHANGED <<payment[q], subscription[q], manualReview[q]>>
         /\ RowFacts(p)'
         /\ \A v \in Workers \ {w} : Holds(v)'
    <2>1. CASE CreateIntent(w)
      <3>1. \A q \in Purchases \ {p} : UNCHANGED <<payment[q], subscription[q], manualReview[q]>>
        BY <1>1, <1>2, <2>1 DEF CreateIntent
      <3>2. RowFacts(p)'
        BY <1>1, <1>2, <1>7, <1>9, <2>1
        DEF CreateIntent, RowFacts, Holds, At, SubscriptionSteps, CallSteps
      <3>3. \A v \in Workers \ {w} : Holds(v)'
        BY <1>1, <1>2, <1>6, <1>7, <1>8, <1>9, <2>1
        DEF CreateIntent, Holds, Excludes, RowFacts, At, PaymentLocked, SubscriptionLocked,
            SubscriptionSteps, PaymentSteps, CallSteps
      <3> QED
        BY <3>1, <3>2, <3>3
    <2>2. CASE ClaimCheckout(w)
      <3>1. \A q \in Purchases \ {p} : UNCHANGED <<payment[q], subscription[q], manualReview[q]>>
        BY <1>1, <1>2, <2>2 DEF ClaimCheckout
      <3>2. RowFacts(p)'
        BY <1>1, <1>2, <1>7, <1>9, <2>2
        DEF ClaimCheckout, RowFacts, Holds, At, SubscriptionSteps, CallSteps
      <3>3. \A v \in Workers \ {w} : Holds(v)'
        BY <1>1, <1>2, <1>6, <1>7, <1>8, <1>9, <2>2
        DEF ClaimCheckout, Holds, Excludes, RowFacts, At, PaymentLocked, SubscriptionLocked,
            SubscriptionSteps, PaymentSteps, CallSteps
      <3> QED
        BY <3>1, <3>2, <3>3
    <2>3. CASE StoreLink(w)
      <3>1. \A q \in Purchases \ {p} : UNCHANGED <<payment[q], subscription[q], manualReview[q]>>
        BY <1>1, <1>2, <2>3 DEF StoreLink
      <3>2. RowFacts(p)'
        BY <1>1, <1>2, <1>7, <1>9, <2>3
        DEF StoreLink, RowFacts, Holds, At, SubscriptionSteps, CallSteps
      <3>3. \A v \in Workers \ {w} : Holds(v)'
        BY <1>1, <1>2, <1>6, <1>7, <1>8, <1>9, <2>3
        DEF StoreLink, Holds, Excludes, RowFacts, At, PaymentLocked, SubscriptionLocked,
            SubscriptionSteps, PaymentSteps, CallSteps
      <3> QED
        BY <3>1, <3>2, <3>3
    <2>4. CASE AbandonSubscription(w)
      <3>1. \A q \in Purchases \ {p} : UNCHANGED <<payment[q], subscription[q], manualReview[q]>>
        BY <1>1, <1>2, <2>4 DEF AbandonSubscription
      <3>2. RowFacts(p)'
        BY <1>1, <1>2, <1>7, <1>9, <2>4
        DEF AbandonSubscription, RowFacts, Holds, At, SubscriptionSteps, CallSteps
      <3>3. \A v \in Workers \ {w} : Holds(v)'
        BY <1>1, <1>2, <1>6, <1>7, <1>8, <1>9, <2>4
        DEF AbandonSubscription, Holds, Excludes, RowFacts, At, PaymentLocked, SubscriptionLocked,
            SubscriptionSteps, PaymentSteps, CallSteps
      <3> QED
        BY <3>1, <3>2, <3>3
    <2>5. CASE CancelPayment(w)
      <3>1. \A q \in Purchases \ {p} : UNCHANGED <<payment[q], subscription[q], manualReview[q]>>
        BY <1>1, <1>2, <2>5 DEF CancelPayment
      <3>2. RowFacts(p)'
        BY <1>1, <1>2, <1>7, <1>9, <2>5
        DEF CancelPayment, RowFacts, Holds, At, SubscriptionSteps, CallSteps, MayCancelPayment
      <3>3. \A v \in Workers \ {w} : Holds(v)'
        BY <1>1, <1>2, <1>6, <1>7, <1>8, <1>9, <2>5
        DEF CancelPayment, Holds, Excludes, RowFacts, At, PaymentLocked, SubscriptionLocked,
            SubscriptionSteps, PaymentSteps, CallSteps
      <3> QED
        BY <3>1, <3>2, <3>3
    <2>6. CASE RecordForReview(w)
      <3>1. \A q \in Purchases \ {p} : UNCHANGED <<payment[q], subscription[q], manualReview[q]>>
        BY <1>1, <1>2, <2>6 DEF RecordForReview
      <3>2. RowFacts(p)'
        BY <1>1, <1>2, <1>7, <1>9, <2>6
        DEF RecordForReview, RowFacts, Holds, At, SubscriptionSteps, CallSteps
      <3>3. \A v \in Workers \ {w} : Holds(v)'
        BY <1>1, <1>2, <1>6, <1>7, <1>8, <1>9, <2>6
        DEF RecordForReview, Holds, Excludes, RowFacts, At, PaymentLocked, SubscriptionLocked,
            SubscriptionSteps, PaymentSteps, CallSteps
      <3> QED
        BY <3>1, <3>2, <3>3
    <2>7. CASE RecordPaid(w)
      <3>1. \A q \in Purchases \ {p} : UNCHANGED <<payment[q], subscription[q], manualReview[q]>>
        BY <1>1, <1>2, <2>7 DEF RecordPaid
      <3>2. RowFacts(p)'
        BY <1>1, <1>2, <1>7, <1>9, <2>7
        DEF RecordPaid, RowFacts, Holds, At, SubscriptionSteps, CallSteps
      <3>3. \A v \in Workers \ {w} : Holds(v)'
        BY <1>1, <1>2, <1>6, <1>7, <1>8, <1>9, <2>7
        DEF RecordPaid, Holds, Excludes, RowFacts, At, PaymentLocked, SubscriptionLocked,
            SubscriptionSteps, PaymentSteps, CallSteps
      <3> QED
        BY <3>1, <3>2, <3>3
    <2>8. CASE FailSubscription(w)
      <3>1. \A q \in Purchases \ {p} : UNCHANGED <<payment[q], subscription[q], manualReview[q]>>
        BY <1>1, <1>2, <2>8 DEF FailSubscription
      <3>2. RowFacts(p)'
        BY <1>1, <1>2, <1>7, <1>9, <2>8
        DEF FailSubscription, RowFacts, Holds, At, SubscriptionSteps, CallSteps
      <3>3. \A v \in Workers \ {w} : Holds(v)'
        BY <1>1, <1>2, <1>6, <1>7, <1>8, <1>9, <2>8
        DEF FailSubscription, Holds, Excludes, RowFacts, At, PaymentLocked, SubscriptionLocked,
            SubscriptionSteps, PaymentSteps, CallSteps
      <3> QED
        BY <3>1, <3>2, <3>3
    <2> QED
      BY <2>1, <2>2, <2>3, <2>4, <2>5, <2>6, <2>7, <2>8 DEF Writes
  <1>11. \A q \in Purchases : RowFacts(q)'
    BY <1>10 DEF Locks, RowFacts
  <1>12. Holds(w)'
    <2>1. ClaimCheckout(w) /\ payment[p] = "PENDING" => payment'[p] = "PROCESSING"
      BY <1>1, <1>2 DEF ClaimCheckout
    <2> QED
      BY <1>4, <2>1 DEF Holds, At, LockSteps, SubscriptionSteps, PaymentSteps
  <1> QED
    BY <1>5, <1>10, <1>11, <1>12 DEF Locks

\* What expires was ACTIVE: nobody holds its row, and its payment was made.
LEMMA LapseKeepsLocks ==
    ASSUME Types, Locks, subscription' = Lapsed, UNCHANGED <<payment, manualReview>>
    PROVE  /\ \A w \in Workers : UNCHANGED worker[w] => Holds(w)'
           /\ \A p \in Purchases : RowFacts(p)'
  <1>1. \A p \in Purchases : \/ subscription'[p] = subscription[p]
                             \/ subscription[p] = "ACTIVE" /\ subscription'[p] = "EXPIRED"
    BY ShapesOfLapsed DEF Types
  <1>2. ASSUME NEW w \in Workers, UNCHANGED worker[w]
        PROVE  Holds(w)'
    <2>1. Holds(w) /\ (~At(w, "idle") => worker[w].purchase \in Purchases)
      BY DEF Locks, Types, Shape
    <2> QED
      BY <1>1, <1>2, <2>1 DEF Holds, At, SubscriptionSteps, CallSteps
  <1> QED
    BY <1>1, <1>2 DEF Locks, RowFacts

LEMMA LocksOfEachStep ==
    ASSUME Types, Locks, Next
    PROVE  Locks'
  <1>1. ASSUME NEW w \in Workers, Opens(w)
        PROVE  Locks'
    <2>1. OthersStay(w) /\ worker'[w].pc \in {"look", "read"}
      BY <1>1, OpensBegins DEF Begins
    <2>2. Holds(w)'
      BY <2>1 DEF Holds, At, SubscriptionSteps, CallSteps
    <2>3. \A v \in Workers \ {w} : UNCHANGED worker[v]
      BY <2>1 DEF OthersStay
    <2>4. \A u, v \in Workers : u # v => Excludes(u, v)'
      BY <2>1, ExclusionWithoutClaim DEF Locks, LockSteps, SubscriptionSteps, PaymentSteps
    <2> QED
      BY <1>1, <2>2, <2>3, <2>4, OpensBegins, LapseKeepsLocks DEF Locks
  <1>2. ASSUME NEW w \in Workers, NEW p \in Purchases, BeginCancellation(w, p)
        PROVE  Locks'
    <2>1. OthersStay(w) /\ worker'[w].pc = "cancelSubscription" /\ UNCHANGED <<payment, subscription, manualReview>>
      BY <1>2, CancellationBegins DEF Begins, rows
    <2>2. \A u, v \in Workers : u # v => Excludes(u, v)'
      BY <2>1, ExclusionWithoutClaim DEF Locks, LockSteps, SubscriptionSteps, PaymentSteps
    <2>3. \A v \in Workers : Holds(v)'
      BY <2>1 DEF Locks, OthersStay, Holds, At, SubscriptionSteps, CallSteps
    <2> QED
      BY <2>1, <2>2, <2>3 DEF Locks, RowFacts
  <1>3. CASE (\E c \in Charges : SeekerPays(c)) \/ (\E p \in Purchases : PeriodEnds(p))
    BY <1>3 DEF SeekerPays, PeriodEnds, rows, Locks, Holds, Excludes, RowFacts, At
  <1>4. CASE ExpireSubscriptions
    BY <1>4, LapseKeepsLocks DEF ExpireSubscriptions, Locks, Excludes, At
  <1> QED
    BY <1>1, <1>2, <1>3, <1>4, QuietKeepsLocks, WritesKeepLocks, NextCases

LEMMA LocksInvariant == Spec => []Locks
  <1>1. Init => Locks
    BY DEF Init, Locks, Holds, Excludes, RowFacts, At, Idle, SubscriptionSteps, PaymentSteps, CallSteps
  <1>2. Types /\ Locks /\ [Next]_vars => Locks'
    <2>1. ASSUME Locks, UNCHANGED vars
          PROVE  Locks'
      BY <2>1 DEF vars, rows, Locks, Holds, Excludes, RowFacts, At
    <2> QED
      BY <2>1, LocksOfEachStep
  <1> QED
    BY <1>1, <1>2, TypesInvariant, PTL DEF Spec

-----------------------------------------------------------------------------
(* The active subscription, and what has paid for it *)

\* What a step does to the subscriptions, and which write it was.
Cancels(p) == subscription[p] = "PENDING" /\ subscription'[p] = "CANCELLED"
Fails(p) == subscription[p] = "PENDING" /\ subscription'[p] = "FAILED"
Lapses(p) == subscription[p] = "ACTIVE" /\ periodOver[p] /\ subscription'[p] = "EXPIRED"
Activates(p) ==
    /\ subscription[p] = "PENDING"
    /\ subscription'[p] = "ACTIVE"
    /\ \A q \in Purchases : subscription[q] # "ACTIVE"
    /\ \A q \in Purchases \ {p} : UNCHANGED subscription[q]
    /\ transactionId'[p] \in Charges
    /\ PurchaseOf[transactionId'[p]] = p
    /\ charge[transactionId'[p]] = "successful"

LEMMA SubscriptionMoves ==
    ASSUME Types, Locks, Next, NEW p \in Purchases
    PROVE  \/ UNCHANGED <<subscription[p], transactionId[p]>>
           \/ subscription[p] = "none" /\ subscription'[p] = "PENDING"
           \/ subscription[p] = "CANCELLED" /\ subscription'[p] = "CANCELLED"
           \/ Cancels(p)
           \/ Fails(p)
           \/ Lapses(p) /\ UNCHANGED transactionId[p]
           \/ Activates(p)
  <1> DEFINE Goal == \/ UNCHANGED <<subscription[p], transactionId[p]>>
                     \/ subscription[p] = "none" /\ subscription'[p] = "PENDING"
                     \/ subscription[p] = "CANCELLED" /\ subscription'[p] = "CANCELLED"
                     \/ Cancels(p)
                     \/ Fails(p)
                     \/ Lapses(p) /\ UNCHANGED transactionId[p]
                     \/ Activates(p)
  <1> SUFFICES Goal
    OBVIOUS
  <1>1. ASSUME subscription' = Lapsed, UNCHANGED transactionId
        PROVE  Goal
    BY <1>1, ShapesOfLapsed DEF Types, Lapses
  <1>2. ASSUME NEW w \in Workers, Writes(w)
        PROVE  Goal
    <2>1. PICK q \in Purchases : q = worker[w].purchase
      BY <1>2, WritesMove DEF Types, Shape
    <2>2. Holds(w) /\ Shape(w) /\ RowFacts(q)
      BY <2>1 DEF Locks, Types
    <2>3. /\ payment \in [Purchases -> PaymentStatuses]
          /\ subscription \in [Purchases -> SubscriptionStatuses]
          /\ transactionId \in [Purchases -> Charges \cup {NoCharge}]
      BY DEF Types, TypeOK
    <2>4. CASE CreateIntent(w) \/ ClaimCheckout(w) \/ StoreLink(w)
      BY <2>1, <2>2, <2>3, <2>4 DEF CreateIntent, ClaimCheckout, StoreLink, RowFacts
    <2>5. CASE AbandonSubscription(w) \/ CancelPayment(w) \/ FailSubscription(w)
      BY <2>1, <2>2, <2>3, <2>5
      DEF AbandonSubscription, CancelPayment, FailSubscription, Holds, At, SubscriptionSteps, Cancels, Fails
    <2>6. CASE RecordForReview(w)
      BY <2>1, <2>2, <2>3, <2>6 DEF RecordForReview, RowFacts
    <2>7. CASE RecordPaid(w)
      BY <2>1, <2>2, <2>3, <2>7
      DEF RecordPaid, Recorded, Holds, Shape, At, SubscriptionSteps, Activates, VerifySteps, Paying
    <2> QED
      BY <1>2, <2>4, <2>5, <2>6, <2>7 DEF Writes
  <1>3. ASSUME NEW w \in Workers, Quiet(w)
        PROVE  Goal
    BY <1>3, QuietMoves DEF rows
  <1>4. ASSUME NEW w \in Workers, Opens(w)
        PROVE  Goal
    BY <1>1, <1>4, OpensBegins
  <1> QED
    BY <1>1, <1>2, <1>3, <1>4, NextCases
    DEF BeginCancellation, SeekerPays, PeriodEnds, ExpireSubscriptions, rows

\* Two purchases paid at the same time do not both become active: an activation holds off
\* the others until it commits, and then they see it.
THEOREM OneActiveSubscriptionHolds == Spec => []OneActiveSubscription
  <1>1. Init => OneActiveSubscription
    BY DEF Init, OneActiveSubscription
  <1>2. Types /\ Locks /\ OneActiveSubscription /\ [Next]_vars => OneActiveSubscription'
    <2>1. ASSUME Types, Locks, OneActiveSubscription, Next
          PROVE  OneActiveSubscription'
      <3>1. \A p \in Purchases :
                subscription'[p] = "ACTIVE" => subscription[p] = "ACTIVE" \/ Activates(p)
        BY <2>1, SubscriptionMoves DEF Cancels, Fails, Lapses
      <3> QED
        BY <2>1, <3>1 DEF OneActiveSubscription, Activates
    <2> QED
      BY <2>1 DEF vars, rows, OneActiveSubscription
  <1> QED
    BY <1>1, <1>2, TypesInvariant, LocksInvariant, PTL DEF Spec

\* A subscription that was ever active was paid for by the charge its payment names, which a
\* later failure or review of the payment does not replace.
THEOREM ActiveIsPaidHolds == Spec => []ActiveIsPaid
  <1> DEFINE Paid == \A p \in Purchases :
                         subscription[p] \in {"ACTIVE", "EXPIRED"} =>
                             transactionId[p] \in Charges /\ charge[transactionId[p]] = "successful"
  <1>1. Init => Paid
    BY DEF Init
  <1>2. Types /\ Locks /\ Paid /\ [Next]_vars => Paid'
    <2>1. ASSUME Types, Locks, Paid, Next, NEW p \in Purchases,
                 subscription'[p] \in {"ACTIVE", "EXPIRED"}
          PROVE  transactionId'[p] \in Charges /\ charge'[transactionId'[p]] = "successful"
      <3>1. transactionId'[p] \in Charges /\ charge[transactionId'[p]] = "successful"
        BY <2>1, SubscriptionMoves DEF Cancels, Fails, Lapses, Activates
      <3> QED
        BY <2>1, <3>1, ChargesStayInEachStep DEF ChargesStay, Unsettled
    <2> QED
      BY <2>1 DEF vars, rows, provider
  <1>3. Paid => ActiveIsPaid
    BY SubscriptionAssumption DEF ActiveIsPaid
  <1> QED
    BY <1>1, <1>2, <1>3, TypesInvariant, LocksInvariant, PTL DEF Spec

\* No step revives a subscription that has ended, and an active one ends only by its period.
THEOREM EndedStaysEndedHolds == Spec => EndedStaysEnded
  <1> DEFINE Stays(p) ==
        /\ subscription[p] \in {"EXPIRED", "FAILED", "CANCELLED"} => subscription'[p] = subscription[p]
        /\ subscription[p] = "ACTIVE" =>
              \/ subscription'[p] = "ACTIVE"
              \/ subscription'[p] = "EXPIRED" /\ periodOver[p]
  <1>1. ASSUME Types, Locks, [Next]_vars
        PROVE  [\A p \in Purchases : Stays(p)]_vars
    <2>1. ASSUME Next, NEW p \in Purchases
          PROVE  Stays(p)
      BY <1>1, <2>1, SubscriptionMoves DEF Cancels, Fails, Lapses, Activates
    <2> QED
      BY <1>1, <2>1
  <1> QED
    BY <1>1, TypesInvariant, LocksInvariant, PTL DEF Spec, EndedStaysEnded

-----------------------------------------------------------------------------
(* The promise to the seeker *)

\* What the promise allows a step to do.
Promises == [Plan!Next]_(Plan!vars)

\* The subscriptions and the charges named by those that were ever in force are what the
\* promise sees of the rows.
LEMMA OneRowMoves ==
    ASSUME Types, Locks, Next, NEW p \in Purchases, UNCHANGED <<charge, periodOver>>,
           \A q \in Purchases \ {p} : UNCHANGED <<subscription[q], transactionId[q]>>
    PROVE  Promises
  <1> DEFINE Rows == [q \in Purchases |-> PaidBy(q)]
  <1>1. /\ subscription \in [Purchases -> SubscriptionStatuses]
        /\ subscription' \in [Purchases -> SubscriptionStatuses]
        /\ transactionId \in [Purchases -> Charges \cup {NoCharge}]
    BY TypesOfEachStep DEF Types, TypeOK
  <1>2. Taken' = Taken /\ {q \in Purchases : periodOver'[q]} = {q \in Purchases : periodOver[q]}
    BY DEF Taken
  <1>3. \A q \in Purchases \ {p} : PaidBy(q)' = PaidBy(q)
    BY DEF PaidBy
  <1>4. ASSUME subscription'[p] = subscription[p], PaidBy(p)' = PaidBy(p)
        PROVE  Promises
    <2>1. subscription' = subscription /\ Rows' = Rows
      BY <1>1, <1>3, <1>4
    <2> QED
      BY <1>2, <2>1 DEF Promises, Plan!vars
  <1>5. subscription' = [subscription EXCEPT ![p] = subscription'[p]]
    BY <1>1
  <1>6. ASSUME PaidBy(p)' = PaidBy(p)
        PROVE  Rows' = Rows
    BY <1>3, <1>6
  <1>7. CASE subscription[p] = "none" /\ subscription'[p] = "PENDING"
    <2>1. Plan!Choose(p)
      BY <1>2, <1>5, <1>6, <1>7 DEF PaidBy, Plan!Choose, Plan!Becomes
    <2> QED
      BY <2>1 DEF Promises, Plan!Next
  <1>8. CASE Cancels(p) \/ Fails(p)
    <2>1. Plan!Drop(p)
      BY <1>2, <1>5, <1>6, <1>8 DEF Cancels, Fails, PaidBy, Plan!Drop, Plan!Becomes
    <2> QED
      BY <2>1 DEF Promises, Plan!Next
  <1>9. CASE Lapses(p) /\ UNCHANGED transactionId[p]
    <2>1. Plan!Expire(p)
      BY <1>2, <1>5, <1>6, <1>9 DEF Lapses, PaidBy, Plan!Expire, Plan!Becomes
    <2> QED
      BY <2>1 DEF Promises, Plan!Next
  <1>10. CASE Activates(p)
    <2>1. PICK c \in Charges : c = transactionId'[p] /\ PurchaseOf[c] = p /\ charge[c] = "successful"
      BY <1>10 DEF Activates
    <2>2. c \in Taken
      BY <2>1 DEF Taken
    <2>3. Rows' = [Rows EXCEPT ![p] = c]
      BY <1>3, <1>10, <2>1 DEF Activates, PaidBy
    <2>4. Plan!Activate(p, c)
      BY <1>2, <1>5, <1>10, <2>1, <2>2, <2>3 DEF Activates, Plan!Activate, Plan!Becomes
    <2> QED
      BY <2>4 DEF Promises, Plan!Next
  <1>11. CASE UNCHANGED <<subscription[p], transactionId[p]>>
    BY <1>4, <1>11 DEF PaidBy
  <1>12. CASE subscription[p] = "CANCELLED" /\ subscription'[p] = "CANCELLED"
    BY <1>4, <1>12 DEF PaidBy
  <1> QED
    BY <1>7, <1>8, <1>9, <1>10, <1>11, <1>12, SubscriptionMoves

\* At most one subscription is in force, so at most one lapses.
LEMMA LapsePromises ==
    ASSUME Types, Locks, OneActiveSubscription, Next,
           subscription' = Lapsed, UNCHANGED <<transactionId, charge, periodOver>>
    PROVE  Promises
  <1>1. TypeOK
    BY DEF Types
  <1>2. CASE subscription' = subscription
    BY <1>2 DEF Promises, Plan!vars, Taken, PaidBy
  <1>3. ASSUME NEW p \in Purchases, subscription'[p] # subscription[p]
        PROVE  Promises
    <2>1. subscription[p] = "ACTIVE"
      BY <1>1, <1>3, ShapesOfLapsed
    <2>2. \A q \in Purchases \ {p} : UNCHANGED <<subscription[q], transactionId[q]>>
      BY <1>1, <2>1, ShapesOfLapsed DEF OneActiveSubscription
    <2> QED
      BY <2>2, OneRowMoves
  <1>4. subscription' \in [Purchases -> SubscriptionStatuses]
        /\ subscription \in [Purchases -> SubscriptionStatuses]
    BY <1>1, ShapesOfLapsed DEF TypeOK
  <1> QED
    BY <1>2, <1>3, <1>4

LEMMA StepPromises ==
    ASSUME Types, Locks, OneActiveSubscription, Next
    PROVE  Promises
  <1>1. TypeOK
    BY DEF Types
  <1>2. ASSUME UNCHANGED <<subscription, transactionId, charge, periodOver>>
        PROVE  Promises
    BY <1>2 DEF Promises, Plan!vars, Taken, PaidBy
  <1>3. ASSUME NEW w \in Workers, Writes(w)
        PROVE  Promises
    <2>1. PICK p \in Purchases : p = worker[w].purchase
      BY <1>3, WritesMove DEF Types, Shape
    <2>2. /\ UNCHANGED <<charge, periodOver>>
          /\ \A q \in Purchases \ {p} : UNCHANGED <<subscription[q], transactionId[q]>>
      BY <1>1, <1>3, <2>1
      DEF Writes, CreateIntent, ClaimCheckout, StoreLink, AbandonSubscription, CancelPayment,
          RecordForReview, RecordPaid, FailSubscription, TypeOK, provider
    <2> QED
      BY <2>2, OneRowMoves
  <1>4. ASSUME NEW c \in Charges, SeekerPays(c)
        PROVE  Promises
    <2>1. PICK s \in ChargeStates : charge' = [charge EXCEPT ![c] = s]
      BY <1>4 DEF SeekerPays
    <2>2. Taken' = IF s = "successful" THEN Taken \cup {c} ELSE Taken
      BY <1>1, <1>4, <2>1 DEF SeekerPays, Taken, TypeOK
    <2>3. UNCHANGED <<subscription, transactionId, periodOver>>
      BY <1>4 DEF SeekerPays, rows
    <2>4. \A d \in Taken : PurchaseOf[d] # PurchaseOf[c]
      BY <1>4 DEF SeekerPays, Taken
    <2>5. CASE s = "successful"
      <3>1. Plan!Take(c)
        BY <2>2, <2>3, <2>4, <2>5 DEF Plan!Take, PaidBy
      <3> QED
        BY <3>1 DEF Promises, Plan!Next
    <2>6. CASE s # "successful"
      BY <2>2, <2>3, <2>6 DEF Promises, Plan!vars, PaidBy
    <2> QED
      BY <2>5, <2>6
  <1>5. ASSUME NEW p \in Purchases, PeriodEnds(p)
        PROVE  Promises
    <2>1. subscription[p] = "ACTIVE" /\ UNCHANGED <<subscription, transactionId, charge>>
      BY <1>5 DEF PeriodEnds, Current, provider
    <2>2. {q \in Purchases : periodOver'[q]} = {q \in Purchases : periodOver[q]} \cup {p}
      BY <1>1, <1>5 DEF PeriodEnds, TypeOK
    <2>3. Plan!PeriodEnds(p)
      BY <2>1, <2>2 DEF Plan!PeriodEnds, Taken, PaidBy
    <2> QED
      BY <2>3 DEF Promises, Plan!Next
  <1> QED
    BY <1>2, <1>3, <1>4, <1>5, NextCases, QuietMoves, OpensBegins, LapsePromises
    DEF BeginCancellation, ExpireSubscriptions, rows, provider

\* Subscription implements PaidPlan: pages, notices, restarts and transactions that roll back are
\* nothing the seeker sees of the plan in force and of what paid for it.
THEOREM ImplementsPlanHolds == Spec => ImplementsPlan
  <1>1. Init => Plan!Init
    BY DEF Init, Plan!Init, Taken, PaidBy
  <1>2. Types /\ Locks /\ OneActiveSubscription /\ [Next]_vars => [Plan!Next]_(Plan!vars)
    <2>1. ASSUME Types, Locks, OneActiveSubscription, Next PROVE Promises
      BY <2>1, StepPromises
    <2>2. ASSUME UNCHANGED vars PROVE Promises
      BY <2>2 DEF Promises, vars, rows, provider, Plan!vars, Taken, PaidBy
    <2> QED
      BY <2>1, <2>2 DEF Promises
  <1> QED
    BY <1>1, <1>2, TypesInvariant, LocksInvariant, OneActiveSubscriptionHolds, PTL
    DEF Spec, ImplementsPlan, Plan!Spec

-----------------------------------------------------------------------------
(* The rows of a purchase whose checkout was claimed once *)

\* Before the one link is stored the one caller has the payment; after it nobody takes it back.
Once(p) ==
    /\ checkoutUrl[p] \/ p \in pages => checkouts[p] > 0
    /\ checkouts[p] <= 1 => Agree(p)
    /\ checkouts[p] <= 1 /\ checkoutUrl[p] => payment[p] # "PROCESSING"
    /\ checkouts[p] = 1 /\ ~checkoutUrl[p] =>
          payment[p] = "PROCESSING" \/ (payment[p] = "FAILED" /\ p \notin pages)

Calls(w) ==
    LET p == worker[w].purchase IN
    worker[w].pc \in CallSteps =>
        /\ checkouts[p] > 0
        /\ checkouts[p] <= 1 =>
              /\ payment[p] = "PROCESSING" /\ ~checkoutUrl[p]
              /\ ~At(w, "link") => p \notin pages

\* What a verification looks at was sent back by a page whose link is stored.
LookSteps == {"ask"} \cup Paying \cup {"judge", "failPayment", "failSubscription"}
Looks(w) ==
    LET p == worker[w].purchase IN
    worker[w].pc \in LookSteps => checkouts[p] > 0 /\ (checkouts[p] <= 1 => checkoutUrl[p])

CallsAlone(v, w) ==
    /\ worker[v].pc \in CallSteps
    /\ worker[w].pc \in CallSteps
    /\ worker[v].purchase = worker[w].purchase
    => checkouts[worker[w].purchase] > 1

\* A charge is tried on a checkout page.
Linked(c) == charge[c] # "none" => PurchaseOf[c] \in pages

Pages ==
    /\ \A p \in Purchases : Once(p)
    /\ \A w \in Workers : Calls(w) /\ Looks(w)
    /\ \A v, w \in Workers : v # w => CallsAlone(v, w)
    /\ \A c \in Charges : Linked(c)

LEMMA QuietKeepsPages ==
    ASSUME Types, Pages, NEW w \in Workers, Quiet(w)
    PROVE  Pages'
  <1>1. UNCHANGED <<rows, charge, checkouts>>
    BY QuietMoves
  <1>2. PICK p \in Purchases : p = worker[w].purchase
    BY QuietMoves DEF Types, Shape
  <1>3. /\ OthersStay(w)
        /\ worker'[w].pc \in CallSteps =>
              worker[w].pc \in CallSteps \ {"link"} /\ worker'[w].purchase = p
        /\ worker'[w].pc \in LookSteps =>
              /\ worker'[w].purchase = p
              /\ worker[w].pc \notin LookSteps =>
                     At(w, "read") /\ payment[p] \in {"PENDING", "CANCELLED"}
    BY <1>2, QuietMoves
    DEF At, Done, Goes, Idle, CheckoutEdge, CancelEdge, VerifyEdge, ReturnEdge, PendingEdge,
        CallSteps, LookSteps, Paying
  <1>4. \/ UNCHANGED pages
        \/ /\ pages' = pages \cup {p}
           /\ At(w, "call")
           /\ worker'[w].pc \in CallSteps => At(w, "link")'
    BY <1>2, QuietMoves DEF PageEdge, Done, Goes, Idle, At, CallSteps
  <1>5. At(w, "call") => Calls(w) /\ worker[w].pc \in CallSteps
    BY DEF Pages, At, CallSteps
  <1>6. \A q \in Purchases : Once(q)'
    <2>1. CASE UNCHANGED pages
      BY <1>1, <2>1 DEF rows, Pages, Once, Agree
    <2>2. CASE pages' = pages \cup {p} /\ At(w, "call")
      BY <1>1, <1>2, <1>5, <2>2 DEF rows, Pages, Once, Agree, Calls
    <2> QED
      BY <1>4, <2>1, <2>2
  <1>7. Calls(w)'
    <2>1. CASE UNCHANGED pages
      BY <1>1, <1>2, <1>3, <2>1 DEF rows, Pages, Calls, At
    <2>2. CASE At(w, "call") /\ (worker'[w].pc \in CallSteps => At(w, "link")')
      BY <1>1, <1>2, <1>3, <1>5, <2>2 DEF rows, Calls, At
    <2> QED
      BY <1>4, <2>1, <2>2
  <1>8. ASSUME NEW v \in Workers \ {w}
        PROVE  Calls(v)'
    <2>1. Calls(v) /\ CallsAlone(v, w) /\ worker'[v] = worker[v]
      BY <1>3 DEF Pages, OthersStay
    <2>2. CASE UNCHANGED pages
      BY <1>1, <2>1, <2>2 DEF rows, Calls, At
    <2>3. CASE pages' = pages \cup {p} /\ At(w, "call") /\ worker[v].purchase # p
      BY <1>1, <1>2, <2>1, <2>3 DEF rows, Calls, At
    <2>4. CASE pages' = pages \cup {p} /\ At(w, "call") /\ worker[v].purchase = p
      <3>1. worker[v].pc \in CallSteps => checkouts[p] > 1
        BY <1>2, <1>5, <2>1, <2>4 DEF CallsAlone
      <3>2. checkouts[p] \in 0 .. 2
        BY <1>2 DEF Types, TypeOK
      <3> QED
        BY <1>1, <2>1, <2>4, <3>1, <3>2 DEF Calls
    <2> QED
      BY <1>4, <2>2, <2>3, <2>4
  <1>9. \A u, v \in Workers : u # v => CallsAlone(u, v)'
    BY <1>1, <1>2, <1>3 DEF Pages, CallsAlone, OthersStay
  <1>10. \A v \in Workers \ {w} : Looks(v)'
    BY <1>1, <1>3 DEF rows, Pages, Looks, OthersStay
  <1>11. Looks(w)'
    <2>1. CASE worker[w].pc \in LookSteps
      BY <1>1, <1>2, <1>3, <2>1 DEF rows, Pages, Looks
    <2>2. CASE At(w, "read") /\ payment[p] \in {"PENDING", "CANCELLED"}
      <3>1. p \in pages
        BY <1>2, <2>2 DEF Types, Shape, At, VerifySteps, Pages, Linked
      <3>2. Once(p) /\ checkouts[p] \in 0 .. 2
        BY DEF Pages, Types, TypeOK
      <3> QED
        BY <1>1, <1>3, <2>2, <3>1, <3>2 DEF rows, Once, Looks
    <2> QED
      BY <1>3, <2>1, <2>2 DEF Looks
  <1>12. \A c \in Charges : Linked(c)'
    BY <1>1, <1>4 DEF Pages, Linked
  <1> QED
    BY <1>6, <1>7, <1>8, <1>9, <1>10, <1>11, <1>12 DEF Pages

LEMMA WritesKeepPages ==
    ASSUME Types, Locks, Pages, NEW w \in Workers, Writes(w)
    PROVE  Pages'
  <1>1. /\ payment \in [Purchases -> PaymentStatuses]
        /\ subscription \in [Purchases -> SubscriptionStatuses]
        /\ manualReview \in [Purchases -> BOOLEAN]
        /\ checkoutUrl \in [Purchases -> BOOLEAN]
        /\ checkouts \in [Purchases -> 0 .. 2]
    BY DEF Types, TypeOK
  <1>2. PICK p \in Purchases : p = worker[w].purchase
    BY WritesMove DEF Types, Shape
  <1>3. \A v \in Workers \ {w} : worker'[v] = worker[v]
    BY WritesMove DEF Done, Goes, OthersStay
  <1>4. worker'[w].pc \in CallSteps =>
            ClaimCheckout(w) /\ worker'[w].purchase = p /\ payment[p] = "PENDING"
    BY <1>2, WritesMove DEF Done, Goes, Idle, CallSteps
  <1>5. \A v \in Workers : /\ Calls(v)
                           /\ worker[v].pc \in CallSteps => worker[v].purchase \in Purchases
    BY DEF Pages, Types, Shape, At, CallSteps
  <1>6. \A v \in Workers \ {w} : CallsAlone(v, w)
    BY DEF Pages
  <1>7. /\ Holds(w)
        /\ RowFacts(p)
        /\ Once(p)
        /\ worker[w].pc \in LookSteps => checkouts[p] > 0 /\ (checkouts[p] <= 1 => checkoutUrl[p])
    BY <1>2 DEF Locks, Pages, Looks
  <1>8. /\ \A q \in Purchases \ {p} : /\ UNCHANGED <<payment[q], subscription[q], manualReview[q]>>
                                      /\ UNCHANGED <<checkoutUrl[q], checkouts[q]>>
        /\ Once(p)'
        /\ \A v \in Workers \ {w} : Calls(v)'
        /\ checkoutUrl[p] => checkoutUrl'[p]
        /\ checkouts'[p] \in Nat /\ checkouts'[p] >= checkouts[p]
        /\ UNCHANGED <<charge, pages>>
    <2>0. UNCHANGED <<charge, pages>>
      BY DEF Writes, CreateIntent, ClaimCheckout, StoreLink, AbandonSubscription, CancelPayment,
             RecordForReview, RecordPaid, FailSubscription, provider
    <2>1. CASE CreateIntent(w)
      <3>1. /\ \A q \in Purchases \ {p} : UNCHANGED <<payment[q], subscription[q], manualReview[q]>>
            /\ \A q \in Purchases \ {p} : UNCHANGED <<checkoutUrl[q], checkouts[q]>>
            /\ checkoutUrl[p] => checkoutUrl'[p]
            /\ checkouts'[p] \in Nat /\ checkouts'[p] >= checkouts[p]
        BY <1>1, <1>2, <2>1 DEF CreateIntent, provider
      <3>2. Once(p)'
        BY <1>1, <1>2, <1>5, <1>7, <2>0, <2>1
        DEF CreateIntent, provider, Once, Agree, Holds, RowFacts, Calls, At, SubscriptionSteps, LookSteps, Paying, CallSteps
      <3>3. ASSUME NEW v \in Workers \ {w}
            PROVE  Calls(v)'
        <4>1. CASE worker[v].purchase # p
          BY <1>3, <1>5, <2>0, <3>1, <4>1 DEF Calls, At
        <4>2. CASE worker[v].purchase = p
          BY <1>1, <1>2, <1>3, <1>5, <1>6, <1>7, <2>0, <2>1, <4>2
          DEF CreateIntent, provider, Once, Holds, Calls, CallsAlone, At, SubscriptionSteps, LookSteps, Paying, CallSteps, RowFacts
        <4> QED
          BY <4>1, <4>2
      <3> QED
        BY <2>0, <3>1, <3>2, <3>3
    <2>2. CASE ClaimCheckout(w)
      <3>1. /\ \A q \in Purchases \ {p} : UNCHANGED <<payment[q], subscription[q], manualReview[q]>>
            /\ \A q \in Purchases \ {p} : UNCHANGED <<checkoutUrl[q], checkouts[q]>>
            /\ checkoutUrl[p] => checkoutUrl'[p]
            /\ checkouts'[p] \in Nat /\ checkouts'[p] >= checkouts[p]
        BY <1>1, <1>2, <2>2 DEF ClaimCheckout, provider
      <3>2. Once(p)'
        BY <1>1, <1>2, <1>5, <1>7, <2>0, <2>2
        DEF ClaimCheckout, provider, Once, Agree, Holds, RowFacts, Calls, At, SubscriptionSteps, LookSteps, Paying, CallSteps
      <3>3. ASSUME NEW v \in Workers \ {w}
            PROVE  Calls(v)'
        <4>1. CASE worker[v].purchase # p
          BY <1>3, <1>5, <2>0, <3>1, <4>1 DEF Calls, At
        <4>2. CASE worker[v].purchase = p
          BY <1>1, <1>2, <1>3, <1>5, <1>6, <1>7, <2>0, <2>2, <4>2
          DEF ClaimCheckout, provider, Once, Holds, Calls, CallsAlone, At, SubscriptionSteps, LookSteps, Paying, CallSteps, RowFacts
        <4> QED
          BY <4>1, <4>2
      <3> QED
        BY <2>0, <3>1, <3>2, <3>3
    <2>3. CASE StoreLink(w)
      <3>1. /\ \A q \in Purchases \ {p} : UNCHANGED <<payment[q], subscription[q], manualReview[q]>>
            /\ \A q \in Purchases \ {p} : UNCHANGED <<checkoutUrl[q], checkouts[q]>>
            /\ checkoutUrl[p] => checkoutUrl'[p]
            /\ checkouts'[p] \in Nat /\ checkouts'[p] >= checkouts[p]
        <4>1. checkoutUrl'[p] /\ \A q \in Purchases \ {p} : UNCHANGED checkoutUrl[q]
          BY <1>1, <1>2, <2>3 DEF StoreLink
        <4>2. \A q \in Purchases \ {p} : UNCHANGED <<payment[q], subscription[q], manualReview[q]>>
          BY <1>1, <1>2, <2>3 DEF StoreLink
        <4>3. UNCHANGED checkouts
          BY <2>3 DEF StoreLink, provider
        <4> QED
          BY <1>1, <4>1, <4>2, <4>3
      <3>2. Once(p)'
        BY <1>1, <1>2, <1>5, <1>7, <2>0, <2>3
        DEF StoreLink, provider, Once, Agree, Holds, RowFacts, Calls, At, SubscriptionSteps, LookSteps, Paying, CallSteps
      <3>3. ASSUME NEW v \in Workers \ {w}
            PROVE  Calls(v)'
        <4>1. CASE worker[v].purchase # p
          BY <1>3, <1>5, <2>0, <3>1, <4>1 DEF Calls, At
        <4>2. CASE worker[v].purchase = p
          BY <1>1, <1>2, <1>3, <1>5, <1>6, <1>7, <2>0, <2>3, <4>2
          DEF StoreLink, provider, Once, Holds, Calls, CallsAlone, At, SubscriptionSteps, LookSteps, Paying, CallSteps, RowFacts
        <4> QED
          BY <4>1, <4>2
      <3> QED
        BY <2>0, <3>1, <3>2, <3>3
    <2>4. CASE AbandonSubscription(w)
      <3>1. /\ \A q \in Purchases \ {p} : UNCHANGED <<payment[q], subscription[q], manualReview[q]>>
            /\ \A q \in Purchases \ {p} : UNCHANGED <<checkoutUrl[q], checkouts[q]>>
            /\ checkoutUrl[p] => checkoutUrl'[p]
            /\ checkouts'[p] \in Nat /\ checkouts'[p] >= checkouts[p]
        BY <1>1, <1>2, <2>4 DEF AbandonSubscription, provider
      <3>2. Once(p)'
        BY <1>1, <1>2, <1>5, <1>7, <2>0, <2>4
        DEF AbandonSubscription, provider, Once, Agree, Holds, RowFacts, Calls, At, SubscriptionSteps, LookSteps, Paying, CallSteps
      <3>3. ASSUME NEW v \in Workers \ {w}
            PROVE  Calls(v)'
        <4>1. CASE worker[v].purchase # p
          BY <1>3, <1>5, <2>0, <3>1, <4>1 DEF Calls, At
        <4>2. CASE worker[v].purchase = p
          BY <1>1, <1>2, <1>3, <1>5, <1>6, <1>7, <2>0, <2>4, <4>2
          DEF AbandonSubscription, provider, Once, Holds, Calls, CallsAlone, At, SubscriptionSteps, LookSteps, Paying, CallSteps, RowFacts
        <4> QED
          BY <4>1, <4>2
      <3> QED
        BY <2>0, <3>1, <3>2, <3>3
    <2>5. CASE CancelPayment(w)
      <3>1. /\ \A q \in Purchases \ {p} : UNCHANGED <<payment[q], subscription[q], manualReview[q]>>
            /\ \A q \in Purchases \ {p} : UNCHANGED <<checkoutUrl[q], checkouts[q]>>
            /\ checkoutUrl[p] => checkoutUrl'[p]
            /\ checkouts'[p] \in Nat /\ checkouts'[p] >= checkouts[p]
        BY <1>1, <1>2, <2>5 DEF CancelPayment, provider
      <3>2. Once(p)'
        BY <1>1, <1>2, <1>5, <1>7, <2>0, <2>5
        DEF CancelPayment, provider, Once, Agree, Holds, RowFacts, Calls, At, SubscriptionSteps, LookSteps, Paying, CallSteps, MayCancelPayment
      <3>3. ASSUME NEW v \in Workers \ {w}
            PROVE  Calls(v)'
        <4>1. CASE worker[v].purchase # p
          BY <1>3, <1>5, <2>0, <3>1, <4>1 DEF Calls, At
        <4>2. CASE worker[v].purchase = p
          BY <1>1, <1>2, <1>3, <1>5, <1>6, <1>7, <2>0, <2>5, <4>2
          DEF CancelPayment, provider, Once, Holds, Calls, CallsAlone, At, SubscriptionSteps, LookSteps, Paying, CallSteps, RowFacts, MayCancelPayment
        <4> QED
          BY <4>1, <4>2
      <3> QED
        BY <2>0, <3>1, <3>2, <3>3
    <2>6. CASE RecordForReview(w)
      <3>1. /\ \A q \in Purchases \ {p} : UNCHANGED <<payment[q], subscription[q], manualReview[q]>>
            /\ \A q \in Purchases \ {p} : UNCHANGED <<checkoutUrl[q], checkouts[q]>>
            /\ checkoutUrl[p] => checkoutUrl'[p]
            /\ checkouts'[p] \in Nat /\ checkouts'[p] >= checkouts[p]
        BY <1>1, <1>2, <2>6 DEF RecordForReview, provider
      <3>2. Once(p)'
        BY <1>1, <1>2, <1>5, <1>7, <2>0, <2>6
        DEF RecordForReview, provider, Once, Agree, Holds, RowFacts, Calls, At, SubscriptionSteps, LookSteps, Paying, CallSteps
      <3>3. ASSUME NEW v \in Workers \ {w}
            PROVE  Calls(v)'
        <4>1. CASE worker[v].purchase # p
          BY <1>3, <1>5, <2>0, <3>1, <4>1 DEF Calls, At
        <4>2. CASE worker[v].purchase = p
          BY <1>1, <1>2, <1>3, <1>5, <1>6, <1>7, <2>0, <2>6, <4>2
          DEF RecordForReview, provider, Once, Holds, Calls, CallsAlone, At, SubscriptionSteps, LookSteps, Paying, CallSteps, RowFacts
        <4> QED
          BY <4>1, <4>2
      <3> QED
        BY <2>0, <3>1, <3>2, <3>3
    <2>7. CASE RecordPaid(w)
      <3>1. /\ \A q \in Purchases \ {p} : UNCHANGED <<payment[q], subscription[q], manualReview[q]>>
            /\ \A q \in Purchases \ {p} : UNCHANGED <<checkoutUrl[q], checkouts[q]>>
            /\ checkoutUrl[p] => checkoutUrl'[p]
            /\ checkouts'[p] \in Nat /\ checkouts'[p] >= checkouts[p]
        BY <1>1, <1>2, <2>7 DEF RecordPaid, provider
      <3>2. Once(p)'
        BY <1>1, <1>2, <1>5, <1>7, <2>0, <2>7
        DEF RecordPaid, provider, Once, Agree, Holds, RowFacts, Calls, At, SubscriptionSteps, LookSteps, Paying, CallSteps
      <3>3. ASSUME NEW v \in Workers \ {w}
            PROVE  Calls(v)'
        <4>1. CASE worker[v].purchase # p
          BY <1>3, <1>5, <2>0, <3>1, <4>1 DEF Calls, At
        <4>2. CASE worker[v].purchase = p
          BY <1>1, <1>2, <1>3, <1>5, <1>6, <1>7, <2>0, <2>7, <4>2
          DEF RecordPaid, provider, Once, Holds, Calls, CallsAlone, At, SubscriptionSteps, LookSteps, Paying, CallSteps, RowFacts
        <4> QED
          BY <4>1, <4>2
      <3> QED
        BY <2>0, <3>1, <3>2, <3>3
    <2>8. CASE FailSubscription(w)
      <3>1. /\ \A q \in Purchases \ {p} : UNCHANGED <<payment[q], subscription[q], manualReview[q]>>
            /\ \A q \in Purchases \ {p} : UNCHANGED <<checkoutUrl[q], checkouts[q]>>
            /\ checkoutUrl[p] => checkoutUrl'[p]
            /\ checkouts'[p] \in Nat /\ checkouts'[p] >= checkouts[p]
        BY <1>1, <1>2, <2>8 DEF FailSubscription, provider
      <3>2. Once(p)'
        BY <1>1, <1>2, <1>5, <1>7, <2>0, <2>8
        DEF FailSubscription, provider, Once, Agree, Holds, RowFacts, Calls, At, SubscriptionSteps, LookSteps, Paying, CallSteps
      <3>3. ASSUME NEW v \in Workers \ {w}
            PROVE  Calls(v)'
        <4>1. CASE worker[v].purchase # p
          BY <1>3, <1>5, <2>0, <3>1, <4>1 DEF Calls, At
        <4>2. CASE worker[v].purchase = p
          BY <1>1, <1>2, <1>3, <1>5, <1>6, <1>7, <2>0, <2>8, <4>2
          DEF FailSubscription, provider, Once, Holds, Calls, CallsAlone, At, SubscriptionSteps, LookSteps, Paying, CallSteps, RowFacts
        <4> QED
          BY <4>1, <4>2
      <3> QED
        BY <2>0, <3>1, <3>2, <3>3
    <2> QED
      BY <2>0, <2>1, <2>2, <2>3, <2>4, <2>5, <2>6, <2>7, <2>8 DEF Writes
  <1>9. \A q \in Purchases : Once(q)'
    BY <1>8 DEF Pages, Once, Agree
  <1>10. ClaimCheckout(w) /\ payment[p] = "PENDING" =>
            /\ payment'[p] = "PROCESSING"
            /\ checkoutUrl'[p] = checkoutUrl[p]
            /\ checkouts'[p] = IF checkouts[p] = 0 THEN 1 ELSE 2
    BY <1>1, <1>2 DEF ClaimCheckout
  <1>11. Calls(w)'
    BY <1>1, <1>4, <1>7, <1>8, <1>10 DEF Calls, Once
  <1>12. \A u, v \in Workers : u # v => CallsAlone(u, v)'
    <2>1. ASSUME NEW u \in Workers \ {w}, NEW v \in Workers \ {w}, u # v
          PROVE  CallsAlone(u, v)'
      BY <1>1, <1>3, <1>5, <1>8, <2>1 DEF Pages, CallsAlone
    <2>2. ASSUME NEW v \in Workers \ {w}
          PROVE  CallsAlone(v, w)' /\ CallsAlone(w, v)'
      BY <1>1, <1>3, <1>4, <1>5, <1>10 DEF Calls, CallsAlone
    <2> QED
      BY <2>1, <2>2
  <1>13. \A c \in Charges : Linked(c)'
    BY <1>8 DEF Pages, Linked
  <1>14. \A v \in Workers : Looks(v)'
    <2>1. worker'[w].pc \notin LookSteps
      BY WritesMove DEF Done, Goes, Idle, LookSteps, Paying
    <2>2. ASSUME NEW v \in Workers \ {w}
          PROVE  Looks(v)'
      <3>1. /\ Looks(v) /\ worker'[v] = worker[v]
            /\ worker[v].pc \in LookSteps => worker[v].purchase \in Purchases
        BY <1>3 DEF Pages, Types, Shape, At, LookSteps, Paying
      <3> QED
        BY <1>1, <1>8, <3>1 DEF Looks
    <2> QED
      BY <2>1, <2>2 DEF Looks
  <1> QED
    BY <1>8, <1>9, <1>11, <1>12, <1>13, <1>14 DEF Pages

LEMMA LapseKeepsPages ==
    ASSUME Types, Pages, subscription' = Lapsed,
           UNCHANGED <<payment, checkoutUrl, manualReview, provider>>
    PROVE  /\ \A p \in Purchases : Once(p)'
           /\ \A c \in Charges : Linked(c)'
           /\ \A w \in Workers : UNCHANGED worker[w] => Calls(w)' /\ Looks(w)'
  <1>1. \A p \in Purchases : \/ subscription'[p] = subscription[p]
                             \/ subscription[p] = "ACTIVE" /\ subscription'[p] = "EXPIRED"
    BY ShapesOfLapsed DEF Types
  <1>2. payment \in [Purchases -> PaymentStatuses]
    BY DEF Types, TypeOK
  <1>3. \A p \in Purchases : Once(p)'
    BY <1>1, <1>2 DEF provider, Pages, Once, Agree, PaymentStatuses
  <1> QED
    BY <1>3 DEF provider, Pages, Calls, Looks, Linked, At

LEMMA PagesOfEachStep ==
    ASSUME Types, Locks, Pages, Next
    PROVE  Pages'
  <1>1. ASSUME NEW w \in Workers, Opens(w)
        PROVE  Pages'
    <2>1. OthersStay(w) /\ worker'[w].pc \notin CallSteps \cup LookSteps /\ UNCHANGED checkouts
      BY <1>1, OpensBegins DEF Begins, CallSteps, LookSteps, Paying, provider
    <2>2. \A u, v \in Workers : u # v => CallsAlone(u, v)'
      BY <2>1 DEF Pages, CallsAlone, OthersStay
    <2>3. Calls(w)' /\ Looks(w)' /\ \A v \in Workers \ {w} : UNCHANGED worker[v]
      BY <2>1 DEF Calls, Looks, OthersStay
    <2> QED
      BY <1>1, <2>2, <2>3, OpensBegins, LapseKeepsPages DEF Pages
  <1>2. ASSUME NEW w \in Workers, NEW p \in Purchases, BeginCancellation(w, p)
        PROVE  Pages'
    <2>1. OthersStay(w) /\ worker'[w].pc \notin CallSteps \cup LookSteps /\ UNCHANGED <<rows, provider>>
      BY <1>2, CancellationBegins DEF Begins, CallSteps, LookSteps, Paying
    <2>2. /\ \A v \in Workers : Calls(v)' /\ Looks(v)'
          /\ \A u, v \in Workers : u # v => CallsAlone(u, v)'
      BY <2>1 DEF rows, provider, Pages, Calls, CallsAlone, Looks, OthersStay, At
    <2>3. (\A q \in Purchases : Once(q)') /\ (\A c \in Charges : Linked(c)')
      BY <2>1 DEF rows, provider, Pages, Once, Agree, Linked
    <2> QED
      BY <2>2, <2>3 DEF Pages
  <1>3. ASSUME NEW c \in Charges, SeekerPays(c)
        PROVE  Pages'
    <2>1. \A d \in Charges : charge'[d] # "none" => charge[d] # "none" \/ PurchaseOf[d] \in pages
      BY <1>3 DEF SeekerPays, Types, TypeOK
    <2> QED
      BY <1>3, <2>1 DEF SeekerPays, rows, Pages, Once, Agree, Calls, CallsAlone, Looks, Linked, At
  <1>4. CASE \E p \in Purchases : PeriodEnds(p)
    BY <1>4 DEF PeriodEnds, provider, Pages, Once, Agree, Calls, CallsAlone, Looks, Linked, At
  <1>5. CASE ExpireSubscriptions
    <2>1. \A u, v \in Workers : u # v => CallsAlone(u, v)'
      BY <1>5 DEF ExpireSubscriptions, provider, Pages, CallsAlone
    <2> QED
      BY <1>5, <2>1, LapseKeepsPages DEF ExpireSubscriptions, Pages
  <1> QED
    BY <1>1, <1>2, <1>3, <1>4, <1>5, QuietKeepsPages, WritesKeepPages, NextCases

LEMMA PagesInvariant == Spec => []Pages
  <1>1. Init => Pages
    BY SubscriptionAssumption
    DEF Init, Pages, Once, Agree, Calls, CallsAlone, Looks, Linked, Idle, CallSteps, LookSteps, Paying
  <1>2. Types /\ Locks /\ Pages /\ [Next]_vars => Pages'
    <2>1. ASSUME Pages, UNCHANGED vars
          PROVE  Pages'
      BY <2>1 DEF vars, rows, provider, Pages, Once, Agree, Calls, CallsAlone, Looks, Linked, At
    <2> QED
      BY <2>1, PagesOfEachStep
  <1> QED
    BY <1>1, <1>2, TypesInvariant, LocksInvariant, PTL DEF Spec

\* The payment and the subscription of a purchase tell the same story, unless the checkout
\* page was asked for twice.
THEOREM RowsAgreeHolds == Spec => []RowsAgree
  <1>1. Pages => RowsAgree
    BY DEF Pages, Once, RowsAgree
  <1> QED
    BY <1>1, PagesInvariant, PTL

-----------------------------------------------------------------------------
(* What an acknowledged notice leaves behind *)

Decided(c) ==
    LET p == PurchaseOf[c] IN
    checkouts[p] <= 1 =>
        \/ payment[p] = "SUCCESSFUL"
        \/ payment[p] = "FAILED" /\ transactionId[p] # c

\* A payment fails on its checkout page only by a charge that did not succeed.
FailsByCharge(p) ==
    checkouts[p] <= 1 /\ payment[p] = "FAILED" /\ checkoutUrl[p] =>
        transactionId[p] \in Charges /\ charge[transactionId[p]] \notin Unsettled \cup {"successful"}

Acknowledges(w) ==
    At(w, "acknowledge") /\ charge[worker[w].charge] = "successful" => Decided(worker[w].charge)

Noticed(c) ==
    /\ event[c] # "absent" => charge[c] \notin Unsettled
    /\ event[c] = "processed" /\ charge[c] = "successful" => Decided(c)

Notices ==
    /\ \A p \in Purchases : FailsByCharge(p)
    /\ \A w \in Workers : Acknowledges(w)
    /\ \A c \in Charges : Noticed(c)

\* A decision is not taken back, and a failure keeps its charge.
LEMMA WritesKeepDecisions ==
    ASSUME Types, Locks, Pages, Notices, NEW w \in Workers, Writes(w)
    PROVE  /\ \A c \in Charges : charge[c] # "none" /\ Decided(c) => Decided(c)'
           /\ \A p \in Purchases : FailsByCharge(p)'
           /\ Acknowledges(w)'
  <1>1. /\ payment \in [Purchases -> PaymentStatuses]
        /\ checkoutUrl \in [Purchases -> BOOLEAN]
        /\ checkouts \in [Purchases -> 0 .. 2]
        /\ transactionId \in [Purchases -> Charges \cup {NoCharge}]
    BY DEF Types, TypeOK
  <1>2. PICK p \in Purchases : p = worker[w].purchase
    BY WritesMove DEF Types, Shape
  <1>3. UNCHANGED charge
    BY DEF Writes, CreateIntent, ClaimCheckout, StoreLink, AbandonSubscription, CancelPayment,
           RecordForReview, RecordPaid, FailSubscription, provider
  <1>4. /\ Holds(w) /\ Calls(w) /\ Once(p) /\ FailsByCharge(p)
        /\ worker[w].pc \in LookSteps => checkouts[p] > 0 /\ (checkouts[p] <= 1 => checkoutUrl[p])
    BY <1>2 DEF Locks, Pages, Notices, Looks
  <1>5. worker[w].pc \in VerifySteps =>
            /\ worker[w].charge \in Charges
            /\ PurchaseOf[worker[w].charge] = p
            /\ charge[worker[w].charge] # "none"
    BY <1>2 DEF Types, Shape
  <1>6. At(w, "failSubscription") => charge[worker[w].charge] \notin Unsettled \cup {"successful"}
    BY DEF Types, Shape, At, Failing
  <1>7. /\ \A q \in Purchases \ {p} : /\ UNCHANGED <<payment[q], transactionId[q]>>
                                      /\ UNCHANGED <<checkoutUrl[q], checkouts[q]>>
        /\ \A c \in Charges : PurchaseOf[c] = p /\ charge[c] # "none" /\ Decided(c) => Decided(c)'
        /\ FailsByCharge(p)'
    <2>1. CASE CreateIntent(w)
      <3>1. \A q \in Purchases \ {p} : /\ UNCHANGED <<payment[q], transactionId[q]>>
                                      /\ UNCHANGED <<checkoutUrl[q], checkouts[q]>>
        BY <1>1, <1>2, <2>1 DEF CreateIntent, provider
      <3>2. \A c \in Charges : PurchaseOf[c] = p /\ charge[c] # "none" /\ Decided(c) => Decided(c)'
        BY <1>1, <1>2, <1>4, <2>1
        DEF CreateIntent, provider, Decided, Holds, Calls, At, CallSteps
      <3>3. FailsByCharge(p)'
        BY <1>1, <1>2, <1>3, <1>4, <1>5, <1>6, <2>1
        DEF CreateIntent, provider, FailsByCharge, Holds, Calls, At, CallSteps, VerifySteps, LookSteps, Paying
      <3> QED
        BY <3>1, <3>2, <3>3
    <2>2. CASE ClaimCheckout(w)
      <3>1. \A q \in Purchases \ {p} : /\ UNCHANGED <<payment[q], transactionId[q]>>
                                      /\ UNCHANGED <<checkoutUrl[q], checkouts[q]>>
        BY <1>1, <1>2, <2>2 DEF ClaimCheckout, provider
      <3>2. \A c \in Charges : PurchaseOf[c] = p /\ charge[c] # "none" /\ Decided(c) => Decided(c)'
        BY <1>1, <1>2, <1>4, <2>2
        DEF ClaimCheckout, provider, Decided, Holds, Calls, At, CallSteps
      <3>3. FailsByCharge(p)'
        BY <1>1, <1>2, <1>3, <1>4, <1>5, <1>6, <2>2
        DEF ClaimCheckout, provider, FailsByCharge, Holds, Calls, At, CallSteps, VerifySteps, LookSteps, Paying
      <3> QED
        BY <3>1, <3>2, <3>3
    <2>3. CASE StoreLink(w)
      <3>1. \A q \in Purchases \ {p} : /\ UNCHANGED <<payment[q], transactionId[q]>>
                                      /\ UNCHANGED <<checkoutUrl[q], checkouts[q]>>
        BY <1>1, <1>2, <2>3 DEF StoreLink, provider
      <3>2. \A c \in Charges : PurchaseOf[c] = p /\ charge[c] # "none" /\ Decided(c) => Decided(c)'
        BY <1>1, <1>2, <1>4, <2>3
        DEF StoreLink, provider, Decided, Holds, Calls, At, CallSteps
      <3>3. FailsByCharge(p)'
        BY <1>1, <1>2, <1>3, <1>4, <1>5, <1>6, <2>3
        DEF StoreLink, provider, FailsByCharge, Holds, Calls, At, CallSteps, VerifySteps, LookSteps, Paying
      <3> QED
        BY <3>1, <3>2, <3>3
    <2>4. CASE AbandonSubscription(w)
      <3>1. \A q \in Purchases \ {p} : /\ UNCHANGED <<payment[q], transactionId[q]>>
                                      /\ UNCHANGED <<checkoutUrl[q], checkouts[q]>>
        BY <1>1, <1>2, <2>4 DEF AbandonSubscription, provider
      <3>2. \A c \in Charges : PurchaseOf[c] = p /\ charge[c] # "none" /\ Decided(c) => Decided(c)'
        BY <1>1, <1>2, <1>4, <2>4
        DEF AbandonSubscription, provider, Decided, Holds, Calls, At, CallSteps
      <3>3. FailsByCharge(p)'
        BY <1>1, <1>2, <1>3, <1>4, <1>5, <1>6, <2>4
        DEF AbandonSubscription, provider, FailsByCharge, Holds, Calls, At, CallSteps, VerifySteps, LookSteps, Paying
      <3> QED
        BY <3>1, <3>2, <3>3
    <2>5. CASE CancelPayment(w)
      <3>1. \A q \in Purchases \ {p} : /\ UNCHANGED <<payment[q], transactionId[q]>>
                                      /\ UNCHANGED <<checkoutUrl[q], checkouts[q]>>
        BY <1>1, <1>2, <2>5 DEF CancelPayment, provider
      <3>2. \A c \in Charges : PurchaseOf[c] = p /\ charge[c] # "none" /\ Decided(c) => Decided(c)'
        BY <1>1, <1>2, <1>4, <2>5
        DEF CancelPayment, provider, Decided, Holds, Calls, At, CallSteps, MayCancelPayment
      <3>3. FailsByCharge(p)'
        BY <1>1, <1>2, <1>3, <1>4, <1>5, <1>6, <2>5
        DEF CancelPayment, provider, FailsByCharge, Holds, Calls, At, CallSteps, VerifySteps, LookSteps, Paying, MayCancelPayment
      <3> QED
        BY <3>1, <3>2, <3>3
    <2>6. CASE RecordForReview(w)
      <3>1. \A q \in Purchases \ {p} : /\ UNCHANGED <<payment[q], transactionId[q]>>
                                      /\ UNCHANGED <<checkoutUrl[q], checkouts[q]>>
        BY <1>1, <1>2, <2>6 DEF RecordForReview, provider
      <3>2. \A c \in Charges : PurchaseOf[c] = p /\ charge[c] # "none" /\ Decided(c) => Decided(c)'
        BY <1>1, <1>2, <1>4, <2>6
        DEF RecordForReview, provider, Decided, Holds, Calls, At, CallSteps, Recorded
      <3>3. FailsByCharge(p)'
        BY <1>1, <1>2, <1>3, <1>4, <1>5, <1>6, <2>6
        DEF RecordForReview, provider, FailsByCharge, Holds, Calls, At, CallSteps, VerifySteps, LookSteps, Paying, Recorded
      <3> QED
        BY <3>1, <3>2, <3>3
    <2>7. CASE RecordPaid(w)
      <3>1. \A q \in Purchases \ {p} : /\ UNCHANGED <<payment[q], transactionId[q]>>
                                      /\ UNCHANGED <<checkoutUrl[q], checkouts[q]>>
        BY <1>1, <1>2, <2>7 DEF RecordPaid, provider
      <3>2. \A c \in Charges : PurchaseOf[c] = p /\ charge[c] # "none" /\ Decided(c) => Decided(c)'
        BY <1>1, <1>2, <1>4, <2>7
        DEF RecordPaid, provider, Decided, Holds, Calls, At, CallSteps, Recorded
      <3>3. FailsByCharge(p)'
        BY <1>1, <1>2, <1>3, <1>4, <1>5, <1>6, <2>7
        DEF RecordPaid, provider, FailsByCharge, Holds, Calls, At, CallSteps, VerifySteps, LookSteps, Paying, Recorded
      <3> QED
        BY <3>1, <3>2, <3>3
    <2>8. CASE FailSubscription(w)
      <3>1. \A q \in Purchases \ {p} : /\ UNCHANGED <<payment[q], transactionId[q]>>
                                      /\ UNCHANGED <<checkoutUrl[q], checkouts[q]>>
        BY <1>1, <1>2, <2>8 DEF FailSubscription, provider
      <3>2. \A c \in Charges : PurchaseOf[c] = p /\ charge[c] # "none" /\ Decided(c) => Decided(c)'
        BY <1>1, <1>2, <1>4, <2>8
        DEF FailSubscription, provider, Decided, Holds, Calls, At, CallSteps, Recorded
      <3>3. FailsByCharge(p)'
        BY <1>1, <1>2, <1>3, <1>4, <1>5, <1>6, <2>8
        DEF FailSubscription, provider, FailsByCharge, Holds, Calls, At, CallSteps, VerifySteps, LookSteps, Paying, Recorded
      <3> QED
        BY <3>1, <3>2, <3>3
    <2> QED
      BY <2>1, <2>2, <2>3, <2>4, <2>5, <2>6, <2>7, <2>8 DEF Writes
  <1>8. \A c \in Charges : charge[c] # "none" /\ Decided(c) => Decided(c)'
    <2>1. \A c \in Charges : PurchaseOf[c] \in Purchases
      BY SubscriptionAssumption
    <2> QED
      BY <1>7, <2>1 DEF Decided
  <1>9. \A q \in Purchases : FailsByCharge(q)'
    BY <1>3, <1>7 DEF Notices, FailsByCharge
  <1>10. Acknowledges(w)'
    <2>1. CASE Done(w)
      BY <2>1 DEF Done, Idle, Acknowledges, At
    <2>2. CASE Goes(w, "claim") \/ Goes(w, "call")
      BY <2>2 DEF Goes, Acknowledges, At
    <2>3. CASE (RecordForReview(w) \/ RecordPaid(w) \/ FailSubscription(w)) /\ Goes(w, "acknowledge")
      <3>1. CASE FailSubscription(w)
        BY <1>3, <1>6, <2>3, <3>1 DEF FailSubscription, Goes, Acknowledges, At
      <3>2. CASE RecordForReview(w) \/ RecordPaid(w)
        <4>1. ~End(w)
          BY <2>3, EndIsDone DEF Types, Done, Goes, Idle
        <4>2. payment'[p] = "SUCCESSFUL"
          BY <1>1, <1>2, <3>2, <4>1 DEF RecordForReview, RecordPaid
        <4>3. PurchaseOf[worker[w].charge] = p
          BY <1>5, <3>2 DEF RecordForReview, RecordPaid, At, VerifySteps
        <4> QED
          BY <2>3, <4>2, <4>3 DEF Goes, Acknowledges, Decided
      <3> QED
        BY <2>3, <3>1, <3>2
    <2> QED
      BY <2>1, <2>2, <2>3, WritesMove
  <1> QED
    BY <1>8, <1>9, <1>10

\* A notice is reported as handled because its payment was seen decided.
LEMMA ReturnsDecided ==
    ASSUME Types, Pages, Notices, NEW w \in Workers, ReturnEdge(w, worker[w].purchase),
           charge[worker[w].charge] = "successful"
    PROVE  Decided(worker[w].charge)
  <1>1. worker[w].pc \in VerifySteps /\ ~At(w, "report")
    BY DEF ReturnEdge, Types, Shape, At, Failing, VerifySteps
  <1>2. PICK c \in Charges : c = worker[w].charge /\ PurchaseOf[c] = worker[w].purchase
    BY <1>1 DEF Types, Shape
  <1>3. PICK p \in Purchases : p = PurchaseOf[c]
    BY <1>2, SubscriptionAssumption
  <1>4. Once(p) /\ p \in pages /\ FailsByCharge(p) /\ checkouts[p] \in 0 .. 2
    BY <1>2, <1>3 DEF Pages, Linked, Notices, Types, TypeOK
  <1>5. \/ payment[p] = "SUCCESSFUL"
        \/ BelongsTo(c, p) /\ payment[p] = "FAILED"
    BY <1>1, <1>2, <1>3 DEF ReturnEdge
  <1>6. checkouts[p] <= 1 /\ payment[p] = "FAILED" => checkoutUrl[p]
    BY <1>4 DEF Once
  <1>7. checkouts[p] <= 1 /\ payment[p] = "FAILED" => ~BelongsTo(c, p)
    BY <1>2, <1>4, <1>6, SubscriptionAssumption DEF FailsByCharge, BelongsTo
  <1> QED
    BY <1>2, <1>3, <1>5, <1>7 DEF Decided

LEMMA QuietKeepsNotices ==
    ASSUME Types, Pages, Notices, NEW w \in Workers, Quiet(w)
    PROVE  Notices'
  <1>1. UNCHANGED <<rows, charge, checkouts>> /\ OthersStay(w)
    BY QuietMoves DEF Done, Goes, CheckoutEdge, CancelEdge, VerifyEdge, ReturnEdge, PendingEdge
  <1>2. \A p \in Purchases : FailsByCharge(p)'
    BY <1>1 DEF rows, Notices, FailsByCharge
  <1>3. \A v \in Workers \ {w} : Acknowledges(v)'
    BY <1>1 DEF rows, OthersStay, Notices, Acknowledges, Decided, At
  <1>4. Acknowledges(w)'
    <2>1. CASE ReturnEdge(w, worker[w].purchase)
      BY <1>1, <2>1, ReturnsDecided DEF ReturnEdge, Goes, Acknowledges, Decided, rows
    <2>2. CASE ~ReturnEdge(w, worker[w].purchase)
      BY <2>2, QuietMoves
      DEF Done, Goes, Idle, At, CheckoutEdge, CancelEdge, VerifyEdge, PendingEdge, Acknowledges
    <2> QED
      BY <2>1, <2>2
  <1>5. ASSUME NEW c \in Charges
        PROVE  Noticed(c)'
    <2>1. CASE UNCHANGED event
      BY <1>1, <2>1 DEF rows, Notices, Noticed, Decided
    <2>2. CASE AcknowledgeNotice(w)
      <3>1. \/ UNCHANGED event[c]
            \/ At(w, "acknowledge") /\ worker[w].charge = c
            \/ /\ worker[w].pc \in AcknowledgeSteps /\ worker[w].charge = c
               /\ event'[c] = "pending"
        BY <2>2 DEF AcknowledgeNotice, Types, TypeOK, At, AcknowledgeSteps
      <3>2. CASE UNCHANGED event[c]
        BY <1>1, <3>2 DEF rows, Notices, Noticed, Decided
      <3>3. CASE At(w, "acknowledge") /\ worker[w].charge = c
        <4>1. charge[c] \notin Unsettled
          BY <3>3 DEF Types, Shape, At, VerifySteps, AcknowledgeSteps
        <4> QED
          BY <1>1, <3>3, <4>1 DEF rows, Notices, Acknowledges, Noticed, Decided
      <3>4. CASE worker[w].pc \in AcknowledgeSteps /\ worker[w].charge = c /\ event'[c] = "pending"
        <4>1. charge[c] \notin Unsettled
          BY <3>4 DEF Types, Shape, VerifySteps, AcknowledgeSteps
        <4> QED
          BY <1>1, <3>4, <4>1 DEF rows, Noticed
      <3> QED
        BY <3>1, <3>2, <3>3, <3>4
    <2> QED
      BY <2>1, <2>2
      DEF Quiet, LookForActive, CallForCheckout, AbandonPayment, CancelSubscription, ReadPayment,
          ProviderAnswers, ProviderFails, Recheck, Activate, JudgeFailure, FailPayment, ReportFailure,
          DeadlockAborts, Crash
  <1> QED
    BY <1>2, <1>3, <1>4, <1>5 DEF Notices

LEMMA NoticesOfEachStep ==
    ASSUME Types, Locks, Pages, Notices, Next
    PROVE  Notices'
  <1>1. ASSUME NEW w \in Workers, Writes(w)
        PROVE  Notices'
    <2>1. OthersStay(w)
      BY <1>1, WritesMove DEF Done, Goes
    <2>2. UNCHANGED <<charge, event>>
      BY <1>1 DEF Writes, CreateIntent, ClaimCheckout, StoreLink, AbandonSubscription, CancelPayment,
                  RecordForReview, RecordPaid, FailSubscription, provider
    <2>3. \A v \in Workers \ {w} : Acknowledges(v)'
      <3>1. \A v \in Workers : /\ Acknowledges(v)
                               /\ At(v, "acknowledge") => worker[v].charge \in Charges
        BY DEF Notices, Types, Shape, At, VerifySteps
      <3>2. \A c \in Charges : charge[c] # "none" /\ Decided(c) => Decided(c)'
        BY <1>1, WritesKeepDecisions
      <3>3. ASSUME NEW v \in Workers \ {w}, At(v, "acknowledge")', charge'[worker'[v].charge] = "successful"
            PROVE  Decided(worker[v].charge)' /\ UNCHANGED worker[v]
        <4>1. UNCHANGED worker[v]
          BY <2>1 DEF OthersStay
        <4>2. PICK c \in Charges : c = worker[v].charge
          BY <3>1, <3>3, <4>1 DEF At
        <4>3. Decided(c) /\ charge[c] # "none"
          BY <2>2, <3>1, <3>3, <4>1, <4>2 DEF At, Acknowledges
        <4>4. Decided(c)'
          BY <3>2, <4>3
        <4> QED
          BY <4>1, <4>2, <4>4 DEF Decided
      <3> QED
        BY <3>3 DEF Acknowledges
    <2>4. \A c \in Charges : Noticed(c)'
      BY <1>1, <2>2, WritesKeepDecisions DEF Notices, Noticed
    <2> QED
      BY <1>1, <2>3, <2>4, WritesKeepDecisions DEF Notices
  <1>2. ASSUME NEW w \in Workers, OthersStay(w), worker'[w].pc # "acknowledge",
               UNCHANGED <<payment, transactionId, checkoutUrl, provider>>
        PROVE  /\ \A v \in Workers : Acknowledges(v)'
               /\ \A p \in Purchases : FailsByCharge(p)'
    BY <1>2 DEF provider, OthersStay, Notices, Acknowledges, FailsByCharge, Decided, At
  <1>3. ASSUME NEW w \in Workers, Opens(w)
        PROVE  Notices'
    <2>1. /\ OthersStay(w) /\ worker'[w].pc # "acknowledge"
          /\ UNCHANGED <<payment, transactionId, checkoutUrl, provider>>
      BY <1>3, OpensBegins DEF Begins
    <2>2. \A c \in Charges : UNCHANGED event[c] \/ (event'[c] = "stored" /\ charge[c] \notin Unsettled)
      BY <1>3
      DEF Opens, BeginCheckout, BeginVerification, DeliverNotice, DeliverPendingNotice, StoredAs,
          Unsettled, Types, TypeOK
    <2>3. \A c \in Charges : Noticed(c)'
      BY <2>1, <2>2 DEF provider, Notices, Noticed, Decided
    <2> QED
      BY <1>2, <2>1, <2>3 DEF Notices
  <1>4. ASSUME NEW w \in Workers, NEW p \in Purchases, BeginCancellation(w, p)
        PROVE  Notices'
    <2>1. /\ OthersStay(w) /\ worker'[w].pc # "acknowledge"
          /\ UNCHANGED <<payment, transactionId, checkoutUrl, provider, event>>
      BY <1>4, CancellationBegins DEF Begins, BeginCancellation, rows
    <2>2. \A c \in Charges : Noticed(c)'
      BY <2>1 DEF provider, Notices, Noticed, Decided
    <2> QED
      BY <1>2, <2>1, <2>2 DEF Notices
  <1>5. ASSUME NEW c \in Charges, SeekerPays(c)
        PROVE  Notices'
    <2>1. /\ \A d \in Charges \ {c} : UNCHANGED charge[d]
          /\ charge[c] \in Unsettled /\ charge'[c] # "none"
          /\ UNCHANGED <<payment, transactionId, checkoutUrl, checkouts, event, worker>>
      BY <1>5 DEF SeekerPays, rows, Types, TypeOK, Unsettled
    <2>2. \A p \in Purchases : FailsByCharge(p)'
      BY <2>1 DEF Notices, FailsByCharge
    <2>3. \A w \in Workers : At(w, "acknowledge") => worker[w].charge \in Charges \ {c}
      BY <2>1 DEF Types, Shape, At, VerifySteps, AcknowledgeSteps
    <2>4. \A w \in Workers : Acknowledges(w)'
      BY <2>1, <2>3 DEF Notices, Acknowledges, Decided, At
    <2>5. \A d \in Charges : Noticed(d)'
      BY <2>1 DEF Notices, Noticed, Decided
    <2> QED
      BY <2>2, <2>4, <2>5 DEF Notices
  <1>6. CASE (\E p \in Purchases : PeriodEnds(p)) \/ ExpireSubscriptions
    BY <1>6
    DEF PeriodEnds, ExpireSubscriptions, provider, Notices, FailsByCharge, Acknowledges, Noticed, Decided, At
  <1> QED
    BY <1>1, <1>3, <1>4, <1>5, <1>6, QuietKeepsNotices, NextCases

\* A notice of a successful charge is acknowledged otherwise than as PENDING only once its
\* payment is decided: paid, or failed by another charge.
THEOREM AcknowledgedIsDecidedHolds == Spec => []AcknowledgedIsDecided
  <1>1. Init => Notices
    BY DEF Init, Notices, FailsByCharge, Acknowledges, Noticed, At, Idle
  <1>2. Types /\ Locks /\ Pages /\ Notices /\ [Next]_vars => Notices'
    <2>1. ASSUME Notices, UNCHANGED vars
          PROVE  Notices'
      BY <2>1 DEF vars, rows, provider, Notices, FailsByCharge, Acknowledges, Noticed, Decided, At
    <2> QED
      BY <2>1, NoticesOfEachStep
  <1>3. Notices => AcknowledgedIsDecided
    BY DEF Notices, Noticed, Decided, AcknowledgedIsDecided
  <1> QED
    BY <1>1, <1>2, <1>3, TypesInvariant, LocksInvariant, PagesInvariant, PTL DEF Spec
=============================================================================
