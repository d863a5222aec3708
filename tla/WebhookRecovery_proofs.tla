----------------------- MODULE WebhookRecovery_proofs -----------------------
(***************************************************************************)
(* Theorems about WebhookRecovery, for any payments, events, processes and *)
(* number of attempts.  The argument goes in three layers: the shape of    *)
(* what a handler remembers, the claims on an event and their tokens, and  *)
(* what an acknowledged event says of the provider's transactions.         *)
(***************************************************************************)
EXTENDS WebhookRecovery, TLAPS

-----------------------------------------------------------------------------
(* The shape of what a handler remembers *)

Errors == {"retryable", "definitive"}

HandlerType == [pc : {"idle", "read", "ask", "record", "mark", "release"},
               event : Events \cup {NoEvent},
               token : 0 .. MAX_WEBHOOK_ATTEMPTS,
               answer : Answers \cup {"none"}]

Shape(w) ==
    /\ ~Doing(w, "idle") => handler[w].event \in Events
    /\ Doing(w, "record") => handler[w].answer \in {"SUCCESSFUL", "FAILED", "PROCESSING"}
    /\ Doing(w, "release") => handler[w].answer \in Errors /\ w \in Recoverers
    /\ Doing(w, "mark") => w \in Recoverers

Types == WebhookTypeOK /\ \A w \in Handlers : Shape(w)

\* What a handler's step may do to the handlers: only w changes, and w is done or goes on
\* with the same event and token.
Done(w) ==
    /\ handler'[w] = NoTask
    /\ handler' \in [Handlers -> HandlerType]
    /\ \A v \in Handlers \ {w} : handler'[v] = handler[v]

GoesTo(w, step, answer) ==
    /\ handler'[w].pc = step
    /\ handler'[w].answer = answer
    /\ handler'[w].event = handler[w].event
    /\ handler'[w].token = handler[w].token
    /\ handler' \in [Handlers -> HandlerType]
    /\ \A v \in Handlers \ {w} : handler'[v] = handler[v]

LEMMA FinishIsDone ==
    ASSUME WebhookTypeOK, NEW w \in Handlers, EndHandling(w)
    PROVE  Done(w)
  <1>1. 0 \in 0 .. MAX_WEBHOOK_ATTEMPTS
    BY WebhookAssumption DEF WebhookAssumption
  <1>2. handler \in [Handlers -> HandlerType]
    BY DEF WebhookTypeOK, HandlerType
  <1> QED
    BY <1>1, <1>2 DEF EndHandling, Done, HandlerType, NoTask

LEMMA GoToGoes ==
    ASSUME WebhookTypeOK, NEW w \in Handlers,
           NEW step \in {"ask", "record", "mark", "release"}, NEW answer \in Answers \cup {"none"},
           GoTo(w, step, answer)
    PROVE  GoesTo(w, step, answer)
  <1>1. handler \in [Handlers -> HandlerType]
    BY DEF WebhookTypeOK, HandlerType
  <1>2. handler' = [handler EXCEPT ![w] = [handler[w] EXCEPT !.pc = step, !.answer = answer]]
    BY <1>1 DEF GoTo
  <1>3. handler[w] \in HandlerType
    BY <1>1
  <1>4. [handler[w] EXCEPT !.pc = step, !.answer = answer] \in HandlerType
    BY <1>3 DEF HandlerType
  <1> QED
    BY <1>1, <1>2, <1>3, <1>4 DEF GoesTo, HandlerType

LEMMA ReportReports ==
    ASSUME WebhookTypeOK, NEW w \in Handlers,
           NEW step \in {"mark", "release"}, NEW answer \in Errors \cup {"none"},
           Report(w, step, answer)
    PROVE  Done(w) \/ (w \in Recoverers /\ GoesTo(w, step, answer))
  BY FinishIsDone, GoToGoes DEF Report, Handlers, Errors, Answers

\* What a handler's own step does to the handlers, without the payments and the events.
LEMMA WorkerStep ==
    ASSUME Types, NEW w \in Handlers, ContinueHandling(w) \/ HandlerDies(w)
    PROVE  /\ ~Doing(w, "idle")
           /\ \/ Done(w)
              \/ Doing(w, "read") /\ GoesTo(w, "ask", "none")
              \/ /\ Doing(w, "ask")
                 /\ \E answer \in {AnswerAbout(transaction[handler[w].event]), "PROCESSING"} :
                       /\ answer = "PROCESSING" => w \in Pages \/
                             AnswerAbout(transaction[handler[w].event]) = "PROCESSING"
                       /\ GoesTo(w, "record", answer)
              \/ w \in Recoverers /\ Doing(w, "read") /\ GoesTo(w, "mark", "none")
              \/ w \in Recoverers /\ Doing(w, "record") /\ GoesTo(w, "mark", "none")
              \/ w \in Recoverers /\ \E error \in Errors : GoesTo(w, "release", error)
  <1>1. WebhookTypeOK
    BY DEF Types
  <1>2. CASE ReadPayment(w)
    BY <1>1, <1>2, GoToGoes, ReportReports DEF ReadPayment, Doing, Answers, Errors
  <1>3. CASE AskProvider(w)
    <2> DEFINE answer == AnswerAbout(transaction[handler[w].event])
    <2>1. answer \in {"SUCCESSFUL", "FAILED", "PROCESSING"}
      BY DEF AnswerAbout
    <2>2. Doing(w, "ask") /\ ~Doing(w, "idle")
      BY <1>3 DEF AskProvider, Doing
    <2>3. CASE GoTo(w, "record", answer)
      <3>1. GoesTo(w, "record", answer)
        BY <1>1, <2>1, <2>3, GoToGoes DEF Answers
      <3> QED
        BY <2>2, <3>1
    <2>4. CASE w \in Pages /\ GoTo(w, "record", "PROCESSING")
      <3>1. GoesTo(w, "record", "PROCESSING")
        BY <1>1, <2>4, GoToGoes DEF Answers
      <3> QED
        BY <2>2, <2>4, <3>1
    <2>5. ASSUME NEW error \in Errors, Report(w, "release", error)
          PROVE  Done(w) \/ (w \in Recoverers /\ GoesTo(w, "release", error))
      BY <1>1, <2>5, ReportReports
    <2> QED
      BY <1>3, <2>2, <2>3, <2>4, <2>5 DEF AskProvider, Errors
  <1>4. CASE RecordSuccess(w)
    BY <1>1, <1>4, ReportReports DEF RecordSuccess, RecordOnSettled, Doing, Errors
  <1>5. CASE RecordOther(w)
    BY <1>1, <1>5, ReportReports DEF RecordOther, Doing, Errors
  <1>6. CASE markContractWebhookProcessed(w) \/ releaseContractWebhookClaim(w) \/ HandlerDies(w)
    BY <1>1, <1>6, FinishIsDone
    DEF markContractWebhookProcessed, releaseContractWebhookClaim, HandlerDies, Doing
  <1> QED
    BY <1>2, <1>3, <1>4, <1>5, <1>6 DEF ContinueHandling

\* A handler begins with an event, and with a fresh token if it claims the event.
Begins(w, e, t) ==
    /\ handler'[w].pc = "read"
    /\ handler'[w].event = e
    /\ handler'[w].token = t
    /\ handler' \in [Handlers -> HandlerType]
    /\ \A v \in Handlers \ {w} : handler'[v] = handler[v]

LEMMA ClaimBegins ==
    ASSUME WebhookTypeOK, NEW w \in Recoverers, NEW e \in Events, claimContractWebhookEvent(w, e)
    PROVE  Begins(w, e, row[e].attempts + 1)
  <1>1. handler \in [Handlers -> HandlerType] /\ w \in Handlers
    BY DEF WebhookTypeOK, HandlerType, Handlers
  <1>2. row[e].attempts + 1 \in 0 .. MAX_WEBHOOK_ATTEMPTS
    BY WebhookAssumption DEF claimContractWebhookEvent, AttemptsLeft, WebhookTypeOK, Rows, WebhookAssumption
  <1> DEFINE Begun == [NoTask EXCEPT !.pc = "read", !.event = e, !.token = row[e].attempts + 1]
  <1>3. /\ Begun \in HandlerType
        /\ Begun.pc = "read" /\ Begun.event = e /\ Begun.token = row[e].attempts + 1
    BY <1>2 DEF NoTask, HandlerType
  <1>4. handler' = [handler EXCEPT ![w] = Begun]
    BY DEF claimContractWebhookEvent, FreshToken
  <1> HIDE DEF Begun
  <1> QED
    BY <1>1, <1>3, <1>4 DEF Begins

LEMMA VerificationBegins ==
    ASSUME WebhookTypeOK, NEW w \in Pages, NEW e \in Events, BeginVerification(w, e)
    PROVE  Begins(w, e, 0)
  <1>1. handler \in [Handlers -> HandlerType] /\ w \in Handlers
    BY DEF WebhookTypeOK, HandlerType, Handlers
  <1>2. 0 \in 0 .. MAX_WEBHOOK_ATTEMPTS
    BY WebhookAssumption DEF WebhookAssumption
  <1> DEFINE Begun == [NoTask EXCEPT !.pc = "read", !.event = e]
  <1>3. Begun \in HandlerType /\ Begun.pc = "read" /\ Begun.event = e /\ Begun.token = 0
    BY <1>2 DEF NoTask, HandlerType
  <1>4. handler' = [handler EXCEPT ![w] = Begun]
    BY DEF BeginVerification
  <1> HIDE DEF Begun
  <1> QED
    BY <1>1, <1>3, <1>4 DEF Begins

LEMMA ShapeNext ==
    ASSUME Types, [WebhookNext]_webhookVars
    PROVE  handler' \in [Handlers -> HandlerType] /\ \A w \in Handlers : Shape(w)'
  <1>1. WebhookTypeOK /\ handler \in [Handlers -> HandlerType]
    BY DEF Types, WebhookTypeOK, HandlerType
  <1>2. ASSUME NEW w \in Handlers, ContinueHandling(w) \/ HandlerDies(w)
        PROVE  handler' \in [Handlers -> HandlerType] /\ Shape(w)'
    <2>1. AnswerAbout(transaction[handler[w].event]) \in {"SUCCESSFUL", "FAILED", "PROCESSING"}
      BY DEF AnswerAbout
    <2>2. handler[w].event \in Events
      BY <1>2, WorkerStep DEF Types, Shape
    <2> QED
      BY <1>2, <2>1, <2>2, WorkerStep DEF Done, GoesTo, Shape, Doing, NoTask
  <1>3. ASSUME NEW w \in Handlers, ContinueHandling(w) \/ HandlerDies(w)
        PROVE  \A v \in Handlers \ {w} : handler'[v] = handler[v]
    BY <1>3, WorkerStep DEF Done, GoesTo
  <1>4. ASSUME NEW w \in Handlers, NEW e \in Events, NEW t, Begins(w, e, t)
        PROVE  handler' \in [Handlers -> HandlerType] /\ \A v \in Handlers : Shape(v)'
    BY <1>4 DEF Types, Begins, Shape, Doing
  <1>5. ASSUME NEW e \in Events, Claim(e) \/ \E w \in Pages : BeginVerification(w, e)
        PROVE  handler' \in [Handlers -> HandlerType] /\ \A v \in Handlers : Shape(v)'
    BY <1>1, <1>4, <1>5, ClaimBegins, VerificationBegins DEF Claim, Handlers
  <1>6. ASSUME UNCHANGED handler
        PROVE  handler' \in [Handlers -> HandlerType] /\ \A v \in Handlers : Shape(v)'
    BY <1>1, <1>6 DEF Types, Shape, Doing
  <1>7. ASSUME NEW w \in Handlers, ContinueHandling(w) \/ HandlerDies(w)
        PROVE  \A v \in Handlers : Shape(v)'
    BY <1>2, <1>3, <1>7 DEF Types, Shape, Doing
  <1>8. CASE UNCHANGED webhookVars
    BY <1>6, <1>8 DEF webhookVars
  <1>9. CASE WebhookNext
    BY <1>2, <1>5, <1>6, <1>7, <1>9
    DEF WebhookNext, InitializePayment, CustomerPays, StoreEvent, LeaseExpires, AttemptBecomesDue
  <1> QED
    BY <1>8, <1>9

-----------------------------------------------------------------------------
(* What a step does to the event of one delivery *)

OnlyRow(e) ==
    /\ row' \in [Events -> Rows]
    /\ \A f \in Events \ {e} : row'[f] = row[f]

Stored(e) ==
    /\ row[e].state = "absent" /\ transaction[e] # "none"
    /\ e \in PaystackEvents => transaction[e] = "PAID"
    /\ row'[e].state = "open" /\ row'[e].next = "due"

Claimed(e) ==
    /\ row[e].state = "open" /\ row'[e].state = "open"
    /\ row'[e].attempts = row[e].attempts + 1
    /\ row'[e].lease = "running"

Marked(e) ==
    /\ row[e].state = "open" /\ row'[e].state = "processed"
    /\ row'[e].attempts = row[e].attempts
    /\ row'[e].lease = "none" /\ row'[e].next = "none"
    /\ \E w \in Recoverers : Doing(w, "mark") /\ handler[w].event = e

Released(e) ==
    /\ row[e].state = "open" /\ row'[e].state = "open"
    /\ row'[e].attempts = row[e].attempts
    /\ row'[e].next = "later" \/ row'[e].error = "definitive"
                             \/ ~(row'[e].attempts < MAX_WEBHOOK_ATTEMPTS)

Aged(e) ==
    /\ row[e].lease = "running" \/ row[e].next = "later"
    /\ row'[e].state = row[e].state /\ row'[e].attempts = row[e].attempts
    /\ row'[e].error = row[e].error
    /\ \/ row'[e].lease = "expired"
       \/ row'[e].next = "due"

LEMMA StoreStores ==
    ASSUME WebhookTypeOK, NEW e \in Events, StoreEvent(e)
    PROVE  OnlyRow(e) /\ Stored(e)
  <1> DEFINE r == [Absent EXCEPT !.state = "open", !.next = "due"]
  <1>1. r \in Rows /\ r.state = "open" /\ r.next = "due"
    <2>1. 0 \in 0 .. MAX_WEBHOOK_ATTEMPTS
      BY WebhookAssumption DEF WebhookAssumption
    <2> QED
      BY <2>1 DEF Absent, Rows
  <1>2. row' = [row EXCEPT ![e] = r]
    BY DEF StoreEvent
  <1> HIDE DEF r
  <1> QED
    BY <1>1, <1>2 DEF StoreEvent, WebhookTypeOK, OnlyRow, Stored

LEMMA ClaimClaims ==
    ASSUME WebhookTypeOK, NEW w \in Recoverers, NEW e \in Events, claimContractWebhookEvent(w, e)
    PROVE  OnlyRow(e) /\ Claimed(e)
  <1> DEFINE r == [row[e] EXCEPT !.attempts = row[e].attempts + 1, !.lease = "running",
                                 !.next = "none", !.token = row[e].attempts + 1]
  <1>1. row[e] \in Rows /\ row \in [Events -> Rows]
    BY DEF WebhookTypeOK
  <1>2. row[e].attempts + 1 \in 0 .. MAX_WEBHOOK_ATTEMPTS
    BY <1>1, WebhookAssumption DEF claimContractWebhookEvent, AttemptsLeft, Rows, WebhookAssumption
  <1>3. /\ r \in Rows /\ r.state = row[e].state /\ r.attempts = row[e].attempts + 1
        /\ r.lease = "running"
    BY <1>1, <1>2 DEF Rows
  <1>4. row' = [row EXCEPT ![e] = r]
    BY <1>1 DEF claimContractWebhookEvent, FreshToken
  <1> HIDE DEF r
  <1> QED
    BY <1>1, <1>3, <1>4 DEF claimContractWebhookEvent, OnlyRow, Claimed

LEMMA MarkMarks ==
    ASSUME Types, NEW w \in Handlers, markContractWebhookProcessed(w)
    PROVE  UNCHANGED row \/ \E e \in Events : OnlyRow(e) /\ Marked(e)
  <1> DEFINE e == handler[w].event
             r == [row[e] EXCEPT !.state = "processed", !.lease = "none", !.token = 0,
                                 !.next = "none", !.error = "none"]
  <1>1. e \in Events /\ w \in Recoverers /\ Doing(w, "mark")
    BY DEF Types, Shape, Doing, markContractWebhookProcessed
  <1>2. row[e] \in Rows /\ row \in [Events -> Rows] /\ 0 \in 0 .. MAX_WEBHOOK_ATTEMPTS
    BY <1>1, WebhookAssumption DEF Types, WebhookTypeOK, WebhookAssumption
  <1>3. /\ r \in Rows /\ r.state = "processed" /\ r.attempts = row[e].attempts
        /\ r.lease = "none" /\ r.next = "none"
    BY <1>2 DEF Rows
  <1>4. UNCHANGED row \/ (HoldsClaim(w) /\ row' = [row EXCEPT ![e] = r])
    BY <1>1, <1>2 DEF markContractWebhookProcessed
  <1> HIDE DEF r
  <1>5. HoldsClaim(w) => row[e].state = "open"
    BY DEF HoldsClaim
  <1> HIDE DEF e
  <1>6. row' = [row EXCEPT ![e] = r] => OnlyRow(e) /\ row'[e] = r
    BY <1>1, <1>2, <1>3 DEF OnlyRow
  <1>7. handler[w].event = e
    BY DEF e
  <1> QED
    BY <1>1, <1>3, <1>4, <1>5, <1>6, <1>7 DEF Marked

LEMMA ReleaseReleases ==
    ASSUME Types, NEW w \in Handlers, releaseContractWebhookClaim(w)
    PROVE  UNCHANGED row \/ \E e \in Events : OnlyRow(e) /\ Released(e)
  <1> DEFINE e == handler[w].event
             error == handler[w].answer
             next == IF ShouldRetry(e, error) THEN "later" ELSE "none"
             r == [row[e] EXCEPT !.state = "open", !.lease = "none", !.token = 0,
                                 !.error = error, !.next = next]
  <1>1. e \in Events /\ error \in Errors
    BY DEF Types, Shape, Doing, releaseContractWebhookClaim
  <1>2. row[e] \in Rows /\ row \in [Events -> Rows] /\ 0 \in 0 .. MAX_WEBHOOK_ATTEMPTS
    BY <1>1, WebhookAssumption DEF Types, WebhookTypeOK, WebhookAssumption
  <1>3. UNCHANGED row \/ (HoldsClaim(w) /\ row' = [row EXCEPT ![e] = r])
    BY <1>1, <1>2 DEF releaseContractWebhookClaim, MayRelease
  <1>4. HoldsClaim(w) => row[e].state = "open"
    BY DEF HoldsClaim
  <1>5. next = "later" \/ error = "definitive" \/ ~(row[e].attempts < MAX_WEBHOOK_ATTEMPTS)
    BY <1>1 DEF ShouldRetry, Errors
  <1>6. next \in {"none", "later"}
    OBVIOUS
  <1> HIDE DEF e, error, next
  <1>7. /\ r \in Rows /\ r.state = "open" /\ r.attempts = row[e].attempts
        /\ r.next = next /\ r.error = error
    BY <1>1, <1>2, <1>6 DEF Rows, Errors
  <1> HIDE DEF r
  <1>8. row' = [row EXCEPT ![e] = r] => OnlyRow(e) /\ row'[e] = r
    BY <1>1, <1>2, <1>7 DEF OnlyRow
  <1> QED
    BY <1>1, <1>3, <1>4, <1>5, <1>7, <1>8 DEF Released

LEMMA TimeAges ==
    ASSUME WebhookTypeOK, NEW e \in Events, LeaseExpires(e) \/ AttemptBecomesDue(e)
    PROVE  OnlyRow(e) /\ Aged(e)
  <1>1. row[e] \in Rows /\ row \in [Events -> Rows]
    BY DEF WebhookTypeOK
  <1>2. CASE LeaseExpires(e)
    <2> DEFINE r == [row[e] EXCEPT !.lease = "expired"]
    <2>1. /\ r \in Rows /\ r.state = row[e].state /\ r.attempts = row[e].attempts
          /\ r.error = row[e].error /\ r.lease = "expired"
      BY <1>1 DEF Rows
    <2>2. row' = [row EXCEPT ![e] = r] /\ row[e].lease = "running"
      BY <1>2 DEF LeaseExpires
    <2> HIDE DEF r
    <2> QED
      BY <1>1, <2>1, <2>2 DEF OnlyRow, Aged
  <1>3. CASE AttemptBecomesDue(e)
    <2> DEFINE r == [row[e] EXCEPT !.next = "due"]
    <2>1. /\ r \in Rows /\ r.state = row[e].state /\ r.attempts = row[e].attempts
          /\ r.error = row[e].error /\ r.next = "due"
      BY <1>1 DEF Rows
    <2>2. row' = [row EXCEPT ![e] = r] /\ row[e].next = "later"
      BY <1>3 DEF AttemptBecomesDue
    <2> HIDE DEF r
    <2> QED
      BY <1>1, <2>1, <2>2 DEF OnlyRow, Aged
  <1> QED
    BY <1>2, <1>3

LEMMA RowStep ==
    ASSUME Types, [WebhookNext]_webhookVars
    PROVE  \/ UNCHANGED row
           \/ \E e \in Events :
                 /\ OnlyRow(e)
                 /\ Stored(e) \/ Claimed(e) \/ Marked(e) \/ Released(e) \/ Aged(e)
  <1>1. WebhookTypeOK
    BY DEF Types
  <1>2. ASSUME NEW w \in Handlers, ContinueHandling(w) \/ HandlerDies(w),
               ~markContractWebhookProcessed(w), ~releaseContractWebhookClaim(w)
        PROVE  UNCHANGED row
    BY <1>2 DEF ContinueHandling, HandlerDies, ReadPayment, AskProvider, RecordSuccess, RecordOther
  <1>3. ASSUME NEW w \in Handlers, ContinueHandling(w) \/ HandlerDies(w)
        PROVE  UNCHANGED row \/ \E e \in Events : OnlyRow(e) /\ (Marked(e) \/ Released(e))
    BY <1>2, <1>3, MarkMarks, ReleaseReleases
  <1>4. ASSUME NEW e \in Events, Claim(e)
        PROVE  OnlyRow(e) /\ Claimed(e)
    BY <1>1, <1>4, ClaimClaims DEF Claim
  <1>5. ASSUME NEW e \in Events, CustomerPays(e) \/ \E w \in Pages : BeginVerification(w, e)
        PROVE  UNCHANGED row
    BY <1>5 DEF CustomerPays, BeginVerification
  <1>6. ASSUME NEW p \in Payments, InitializePayment(p)
        PROVE  UNCHANGED row
    BY <1>6 DEF InitializePayment
  <1>7. CASE WebhookNext
    BY <1>1, <1>3, <1>4, <1>5, <1>6, <1>7, StoreStores, TimeAges DEF WebhookNext
  <1>8. CASE UNCHANGED webhookVars
    BY <1>8 DEF webhookVars
  <1> QED
    BY <1>7, <1>8

LEMMA RecordWrites ==
    ASSUME Types, NEW w \in Handlers, ContinueHandling(w) \/ HandlerDies(w)
    PROVE  /\ funding' \in [Payments -> FundingStatuses]
           /\ paidBy' \in [Payments -> Events \cup {NoEvent}]
           /\ UNCHANGED transaction
  <1>1. WebhookTypeOK /\ Shape(w)
    BY DEF Types
  <1>2. ~Doing(w, "idle") => handler[w].event \in Events /\ PaymentOf[handler[w].event] \in Payments
    BY <1>1, WebhookAssumption DEF Shape, WebhookAssumption
  <1>3. CASE RecordSuccess(w)
    BY <1>1, <1>2, <1>3 DEF RecordSuccess, RecordOnSettled, WebhookTypeOK, FundingStatuses, Doing
  <1>4. CASE RecordOther(w)
    BY <1>1, <1>2, <1>4 DEF RecordOther, WebhookTypeOK, FundingStatuses, LiveStatuses, Doing
  <1>5. ASSUME ~RecordSuccess(w), ~RecordOther(w)
        PROVE  UNCHANGED <<funding, paidBy, transaction>>
    BY <1>5 DEF ContinueHandling, HandlerDies, ReadPayment, AskProvider, markContractWebhookProcessed,
       releaseContractWebhookClaim
  <1>6. CASE UNCHANGED <<funding, paidBy, transaction>>
    BY <1>1, <1>6 DEF WebhookTypeOK
  <1>7. UNCHANGED transaction
    BY <1>5 DEF RecordSuccess, RecordOther
  <1> QED
    BY <1>3, <1>4, <1>5, <1>6, <1>7

MoneyTypes ==
    /\ funding \in [Payments -> FundingStatuses]
    /\ paidBy \in [Payments -> Events \cup {NoEvent}]
    /\ transaction \in [Events -> TransactionStates]

LEMMA TypesNext ==
    ASSUME Types, [WebhookNext]_webhookVars
    PROVE  Types'
  <1>1. WebhookTypeOK
    BY DEF Types
  <1>2. row' \in [Events -> Rows]
    BY <1>1, RowStep DEF OnlyRow, WebhookTypeOK
  <1>3. MoneyTypes'
    <2>1. ASSUME NEW p \in Payments, InitializePayment(p)
          PROVE  MoneyTypes'
      BY <1>1, <2>1 DEF MoneyTypes, InitializePayment, WebhookTypeOK, FundingStatuses, LiveStatuses
    <2>2. ASSUME NEW e \in Events, CustomerPays(e)
          PROVE  MoneyTypes'
      BY <1>1, <2>2 DEF MoneyTypes, CustomerPays, WebhookTypeOK, TransactionStates
    <2>3. ASSUME UNCHANGED <<funding, paidBy, transaction>>
          PROVE  MoneyTypes'
      BY <1>1, <2>3 DEF MoneyTypes, WebhookTypeOK
    <2>4. ASSUME NEW w \in Handlers, ContinueHandling(w) \/ HandlerDies(w)
          PROVE  MoneyTypes'
      BY <1>1, <2>4, RecordWrites DEF MoneyTypes, WebhookTypeOK
    <2>5. CASE UNCHANGED webhookVars
      BY <2>3, <2>5 DEF webhookVars
    <2>6. CASE WebhookNext
      BY <2>1, <2>2, <2>3, <2>4, <2>6
      DEF WebhookNext, StoreEvent, LeaseExpires, AttemptBecomesDue, Claim, claimContractWebhookEvent,
          BeginVerification
    <2> QED
      BY <2>5, <2>6
  <1>4. handler' \in [Handlers -> HandlerType] /\ \A w \in Handlers : Shape(w)'
    BY ShapeNext
  <1> QED
    BY <1>2, <1>3, <1>4 DEF MoneyTypes, Types, WebhookTypeOK, HandlerType

LEMMA TypesInit ==
    ASSUME WebhookInit
    PROVE  Types
  <1>1. 0 \in 0 .. MAX_WEBHOOK_ATTEMPTS
    BY WebhookAssumption DEF WebhookAssumption
  <1> QED
    BY <1>1 DEF WebhookInit, Types, WebhookTypeOK, Shape, Doing, NoTask, Absent, Rows, FundingStatuses, LiveStatuses,
       TransactionStates

\* WebhookTypeOK, and what a handler holds fits the step it is at.
THEOREM TypesHold == WebhookSpec => []Types
  <1> QED
    BY TypesInit, TypesNext, PTL DEF WebhookSpec

\* Every variable keeps its type: in particular no event is tried more often than the
\* MAX_WEBHOOK_ATTEMPTS of claimContractWebhookEvent.
THEOREM TypeOKHolds == WebhookSpec => []WebhookTypeOK
  <1>1. Types => WebhookTypeOK
    BY DEF Types
  <1> QED
    BY <1>1, TypesHold, PTL

-----------------------------------------------------------------------------
(* Processed events, retries and claims *)

RowSound(e) ==
    /\ row[e].state = "processed" => row[e].lease = "none" /\ row[e].next = "none"
    /\ row[e].state = "open" /\ row[e].lease = "none" /\ row[e].next = "none" =>
          ~AttemptsLeft(e) \/ row[e].error = "definitive"

Rowed == \A e \in Events : RowSound(e)

LEMMA RowedNext ==
    ASSUME Types, Rowed, [WebhookNext]_webhookVars
    PROVE  Rowed'
  <1>1. UNCHANGED row => Rowed'
    BY DEF Rowed, RowSound, AttemptsLeft
  <1>2. ASSUME NEW e \in Events, OnlyRow(e),
               Stored(e) \/ Claimed(e) \/ Marked(e) \/ Released(e) \/ Aged(e)
        PROVE  Rowed'
    <2>1. RowSound(e) /\ row[e] \in Rows /\ row'[e] \in Rows
      BY <1>2 DEF Rowed, OnlyRow, Types, WebhookTypeOK
    <2>2. RowSound(e)'
      BY <1>2, <2>1 DEF RowSound, AttemptsLeft, Stored, Claimed, Marked, Released, Aged, Rows
    <2>3. \A f \in Events \ {e} : RowSound(f)'
      BY <1>2 DEF OnlyRow, Rowed, RowSound, AttemptsLeft
    <2> QED
      BY <2>2, <2>3 DEF Rowed
  <1> QED
    BY <1>1, <1>2, RowStep

LEMMA RowedInit ==
    ASSUME WebhookInit
    PROVE  Rowed
  BY DEF WebhookInit, Rowed, RowSound, Absent

\* releaseContractWebhookClaim and a takeover leave no open event behind that nobody works
\* on and nobody will try again, while another attempt could still succeed.
THEOREM RetriedOrGivenUpHolds == WebhookSpec => []RetriedOrGivenUp
  <1>1. WebhookInit => Rowed
    BY RowedInit
  <1>2. Types /\ Rowed /\ [WebhookNext]_webhookVars => Rowed'
    BY RowedNext
  <1>3. Rowed => RetriedOrGivenUp
    BY DEF Rowed, RowSound, RetriedOrGivenUp
  <1> QED
    BY <1>1, <1>2, <1>3, TypesHold, PTL DEF WebhookSpec

\* A processed event never changes again, whoever comes late with an old claim.
THEOREM ProcessedIsFinalHolds == WebhookSpec => ProcessedIsFinal
  <1>1. WebhookInit => Rowed
    BY RowedInit
  <1>2. Types /\ Rowed /\ [WebhookNext]_webhookVars => Rowed'
    BY RowedNext
  <1>3. Types /\ Rowed /\ [WebhookNext]_webhookVars
          => [\A e \in Events : row[e].state = "processed" => row'[e] = row[e]]_webhookVars
    BY RowStep
    DEF OnlyRow, Stored, Claimed, Marked, Released, Aged, Rowed, RowSound
  <1> QED
    BY <1>1, <1>2, <1>3, TypesHold, PTL DEF WebhookSpec, ProcessedIsFinal

\* The tokens of the claims that handlers still hold or once held.
Busy(w) == w \in Recoverers /\ ~Doing(w, "idle")

Claims ==
    /\ \A w \in Recoverers : Busy(w) =>
         /\ row[handler[w].event].state # "absent"
         /\ handler[w].token \in 1 .. row[handler[w].event].attempts
    /\ \A v, w \in Recoverers :
         Busy(v) /\ Busy(w) /\ v # w /\ handler[v].event = handler[w].event =>
             handler[v].token # handler[w].token

\* No handler but a claimant takes an event up.
GoesOn(w) ==
    Busy(w)' => /\ Busy(w)
                /\ handler'[w].event = handler[w].event
                /\ handler'[w].token = handler[w].token

LEMMA RecovererStep ==
    ASSUME Types, [WebhookNext]_webhookVars
    PROVE  \/ \A w \in Recoverers : GoesOn(w)
           \/ \E w \in Recoverers, e \in Events :
                /\ Begins(w, e, row[e].attempts + 1)
                /\ OnlyRow(e) /\ Claimed(e)
  <1>1. WebhookTypeOK
    BY DEF Types
  <1>2. ASSUME NEW w \in Handlers, ContinueHandling(w) \/ HandlerDies(w)
        PROVE  \A v \in Recoverers : GoesOn(v)
    <2>1. ~Doing(w, "idle") /\ (Done(w) \/ \E step, answer : GoesTo(w, step, answer))
      BY <1>2, WorkerStep
    <2> QED
      BY <2>1 DEF Done, GoesTo, GoesOn, Busy, Doing, NoTask, Handlers
  <1>3. ASSUME NEW w \in Pages, NEW e \in Events, BeginVerification(w, e)
        PROVE  \A v \in Recoverers : GoesOn(v)
    <2>1. Begins(w, e, 0)
      BY <1>1, <1>3, VerificationBegins
    <2>2. \A v \in Recoverers : v \in Handlers \ {w}
      BY WebhookAssumption DEF WebhookAssumption, Handlers
    <2> QED
      BY <2>1, <2>2 DEF Begins, GoesOn, Busy, Doing
  <1>4. ASSUME NEW w \in Recoverers, NEW e \in Events, claimContractWebhookEvent(w, e)
        PROVE  Begins(w, e, row[e].attempts + 1) /\ OnlyRow(e) /\ Claimed(e)
    BY <1>1, <1>4, ClaimBegins, ClaimClaims
  <1>5. UNCHANGED handler => \A w \in Recoverers : GoesOn(w)
    BY DEF GoesOn, Busy, Doing
  <1>6. CASE UNCHANGED webhookVars
    BY <1>5, <1>6 DEF webhookVars
  <1>7. CASE WebhookNext
    BY <1>2, <1>3, <1>4, <1>5, <1>7
    DEF WebhookNext, Claim, InitializePayment, CustomerPays, StoreEvent, LeaseExpires,
        AttemptBecomesDue
  <1> QED
    BY <1>6, <1>7

\* An event that is stored stays so, and its attempts only grow.
LEMMA AttemptsGrow ==
    ASSUME Types, [WebhookNext]_webhookVars, NEW e \in Events, row[e].state # "absent"
    PROVE  /\ row'[e].state # "absent"
           /\ row[e].attempts \in Nat /\ row'[e].attempts \in Nat
           /\ row'[e].attempts >= row[e].attempts
  <1>1. row[e] \in Rows /\ row'[e] \in Rows
    BY TypesNext DEF Types, WebhookTypeOK
  <1>2. row[e].attempts \in Nat /\ row'[e].attempts \in Nat
    BY <1>1, WebhookAssumption DEF Rows, WebhookAssumption
  <1>3. \/ row'[e] = row[e]
        \/ Stored(e) \/ Claimed(e) \/ Marked(e) \/ Released(e) \/ Aged(e)
    BY RowStep DEF OnlyRow
  <1> QED
    BY <1>2, <1>3 DEF Stored, Claimed, Marked, Released, Aged

LEMMA ClaimsNext ==
    ASSUME Types, Claims, [WebhookNext]_webhookVars
    PROVE  Claims'
  <1>1. \A w \in Recoverers : Busy(w) => handler[w].event \in Events
    BY DEF Types, Shape, Busy, Handlers
  <1>2. \A w \in Recoverers : Busy(w) =>
           /\ row'[handler[w].event].state # "absent"
           /\ handler[w].token \in 1 .. row'[handler[w].event].attempts
    BY <1>1, AttemptsGrow DEF Claims
  <1>3. CASE \A w \in Recoverers : GoesOn(w)
    BY <1>2, <1>3 DEF Claims, GoesOn
  <1>4. ASSUME NEW w \in Recoverers, NEW e \in Events,
               Begins(w, e, row[e].attempts + 1), OnlyRow(e), Claimed(e)
        PROVE  Claims'
    <2>1. row[e].attempts \in Nat /\ row'[e].attempts = row[e].attempts + 1
      BY <1>4, AttemptsGrow DEF Claimed
    <2>2. /\ handler'[w].event = e /\ handler'[w].token = row[e].attempts + 1
          /\ row'[e].state # "absent"
      BY <1>4 DEF Begins, Claimed
    <2>3. \A v \in Recoverers \ {w} : handler'[v] = handler[v] /\ (Busy(v)' <=> Busy(v))
      BY <1>4 DEF Begins, Handlers, Busy, Doing
    <2>4. \A v \in Recoverers \ {w} :
             Busy(v) /\ handler[v].event = e => handler[v].token # row[e].attempts + 1
      BY <2>1 DEF Claims
    <2> QED
      BY <1>2, <2>1, <2>2, <2>3, <2>4 DEF Claims
  <1> QED
    BY <1>3, <1>4, RecovererStep

\* A claim that was taken over is fenced off: of the processes that work on an event at
\* most one finds its token in the row.
THEOREM OneHolderHolds == WebhookSpec => []OneHolder
  <1>1. WebhookInit => Claims
    BY DEF WebhookInit, Claims, Busy, Doing, NoTask, Handlers
  <1>2. Types /\ Claims /\ [WebhookNext]_webhookVars => Claims'
    BY ClaimsNext
  <1>3. Claims => OneHolder
    BY DEF Claims, Busy, OneHolder, HoldsClaim
  <1> QED
    BY <1>1, <1>2, <1>3, TypesHold, PTL DEF WebhookSpec

-----------------------------------------------------------------------------
(* Acknowledged events *)

\* The events whose acknowledgement AcknowledgedIsFunded is about.
Covered(e) == e \in PaystackEvents \/ \A f \in Events : PaymentOf[f] = PaymentOf[e] => f = e

Settled(e) == Covered(e) => transaction[e] = "FAILED" \/ Funded

\* What a stored event, a begun transaction and a failed payment say of the provider.
Provider ==
    /\ \A e \in Events : row[e].state # "absent" =>
          transaction[e] # "none" /\ (e \in PaystackEvents => transaction[e] = "PAID")
    /\ \A e \in Events : transaction[e] # "none" => funding[PaymentOf[e]] # "none"
    /\ \A p \in Payments : funding[p] = "FAILED" =>
          \E e \in Events : PaymentOf[e] = p /\ transaction[e] = "FAILED"

\* What a handler knows of the transaction it works on.
Knows(w) ==
    LET e == handler[w].event IN
    /\ ~Doing(w, "idle") => transaction[e] # "none"
    /\ Doing(w, "record") =>
          /\ handler[w].answer = "FAILED" => transaction[e] = "FAILED"
          /\ handler[w].answer = "PROCESSING" => w \notin Recoverers \/ e \notin PaystackEvents
    /\ Doing(w, "mark") => Settled(e)

Acknowledged ==
    /\ Provider
    /\ \A w \in Handlers : Knows(w)
    /\ \A e \in Events : row[e].state = "processed" => Settled(e)

\* How payments and transactions move.
Moves ==
    \/ UNCHANGED <<funding, transaction>>
    \/ /\ ~Funded /\ UNCHANGED transaction
       /\ \E p \in Payments : funding' = [funding EXCEPT ![p] = "PENDING"]
    \/ /\ UNCHANGED funding
       /\ \E e \in Events :
             /\ funding[PaymentOf[e]] # "none" /\ transaction[e] \notin {"FAILED", "PAID"}
             /\ \E s \in {"PENDING", "FAILED", "PAID"} : transaction' = [transaction EXCEPT ![e] = s]
    \/ /\ UNCHANGED transaction
       /\ \E p \in Payments : funding' = [funding EXCEPT ![p] = "SUCCESSFUL"]
    \/ /\ ~Funded /\ UNCHANGED transaction
       /\ \E w \in Handlers :
             /\ Doing(w, "record") /\ handler[w].answer \in {"FAILED", "PROCESSING"}
             /\ funding' = [funding EXCEPT ![PaymentOf[handler[w].event]] = handler[w].answer]

LEMMA NextMoves ==
    ASSUME Types, [WebhookNext]_webhookVars
    PROVE  Moves
  <1>1. ASSUME NEW w \in Handlers, ContinueHandling(w) \/ HandlerDies(w)
        PROVE  Moves
    <2>1. CASE RecordSuccess(w)
      <3>1. PaymentOf[handler[w].event] \in Payments
        BY <2>1, WebhookAssumption DEF RecordSuccess, Types, Shape, Doing, WebhookAssumption
      <3> QED
        BY <2>1, <3>1 DEF RecordSuccess, RecordOnSettled, Moves
    <2>2. CASE RecordOther(w)
      BY <2>2 DEF RecordOther, Moves
    <2>3. ASSUME ~RecordSuccess(w), ~RecordOther(w)
          PROVE  UNCHANGED <<funding, transaction>>
      BY <1>1, <2>3 DEF ContinueHandling, HandlerDies, ReadPayment, AskProvider, markContractWebhookProcessed,
         releaseContractWebhookClaim
    <2> QED
      BY <2>1, <2>2, <2>3 DEF Moves
  <1>2. ASSUME NEW p \in Payments, InitializePayment(p)
        PROVE  Moves
    BY <1>2 DEF InitializePayment, Funded, Moves
  <1>3. ASSUME NEW e \in Events, CustomerPays(e)
        PROVE  Moves
    BY <1>3 DEF CustomerPays, Moves
  <1>4. CASE UNCHANGED <<funding, transaction>>
    BY <1>4 DEF Moves
  <1>5. CASE UNCHANGED webhookVars
    BY <1>4, <1>5 DEF webhookVars
  <1>6. CASE WebhookNext
    BY <1>1, <1>2, <1>3, <1>4, <1>6
    DEF WebhookNext, StoreEvent, LeaseExpires, AttemptBecomesDue, Claim, claimContractWebhookEvent,
        BeginVerification
  <1> QED
    BY <1>5, <1>6

\* What stays as it is once it has come about.
LEMMA StaysSo ==
    ASSUME Types, [WebhookNext]_webhookVars
    PROVE  /\ Funded => Funded'
           /\ \A e \in Events :
                /\ transaction[e] \in {"FAILED", "PAID"} => transaction'[e] = transaction[e]
                /\ transaction[e] # "none" => transaction'[e] # "none"
                /\ Settled(e) => Settled(e)'
           /\ \A p \in Payments : funding[p] # "none" => funding'[p] # "none"
  <1>1. /\ funding \in [Payments -> FundingStatuses] /\ transaction \in [Events -> TransactionStates]
        /\ Moves
    BY NextMoves DEF Types, WebhookTypeOK
  <1>2. Funded => Funded'
    BY <1>1 DEF Moves, Funded
  <1>3. \A e \in Events :
          /\ transaction[e] \in {"FAILED", "PAID"} => transaction'[e] = transaction[e]
          /\ transaction[e] # "none" => transaction'[e] # "none"
    BY <1>1 DEF Moves
  <1>4. \A p \in Payments : funding[p] # "none" => funding'[p] # "none"
    BY <1>1 DEF Moves
  <1>5. \A e \in Events : Settled(e) => Settled(e)'
    BY <1>2, <1>3 DEF Settled, Covered
  <1> QED
    BY <1>2, <1>3, <1>4, <1>5

LEMMA ProviderNext ==
    ASSUME Types, Acknowledged, [WebhookNext]_webhookVars
    PROVE  Provider'
  <1>1. /\ funding \in [Payments -> FundingStatuses] /\ transaction \in [Events -> TransactionStates]
        /\ PaymentOf \in [Events -> Payments] /\ Moves /\ Provider
    BY NextMoves, WebhookAssumption DEF Types, WebhookTypeOK, WebhookAssumption, Acknowledged
  <1>2. ASSUME NEW e \in Events, row'[e].state # "absent"
        PROVE  transaction'[e] # "none" /\ (e \in PaystackEvents => transaction'[e] = "PAID")
    <2>1. row[e].state # "absent" \/ Stored(e)
      BY <1>2, RowStep DEF OnlyRow, Stored, Claimed, Marked, Released, Aged
    <2>2. transaction[e] # "none" /\ (e \in PaystackEvents => transaction[e] = "PAID")
      BY <1>1, <2>1 DEF Provider, Stored
    <2> QED
      BY <2>2, StaysSo
  <1>3. ASSUME NEW e \in Events, transaction'[e] # "none"
        PROVE  funding'[PaymentOf[e]] # "none"
    <2>1. transaction[e] # "none" \/ funding[PaymentOf[e]] # "none"
      BY <1>1, <1>3 DEF Moves
    <2> QED
      BY <1>1, <2>1, StaysSo DEF Provider
  <1>4. ASSUME NEW p \in Payments, funding'[p] = "FAILED"
        PROVE  \E e \in Events : PaymentOf[e] = p /\ transaction'[e] = "FAILED"
    <2>1. CASE funding[p] = "FAILED"
      BY <1>1, <2>1, StaysSo DEF Provider
    <2>2. ASSUME funding[p] # "FAILED"
          PROVE  \E w \in Handlers : /\ Doing(w, "record") /\ handler[w].answer = "FAILED"
                                    /\ PaymentOf[handler[w].event] = p
      BY <1>1, <1>4, <2>2 DEF Moves
    <2>3. ASSUME funding[p] # "FAILED"
          PROVE  \E e \in Events : PaymentOf[e] = p /\ transaction[e] = "FAILED"
      BY <2>2, <2>3 DEF Acknowledged, Knows, Types, Shape, Doing
    <2> QED
      BY <2>1, <2>3, StaysSo
  <1> QED
    BY <1>2, <1>3, <1>4 DEF Provider

\* A process goes to mark its event only when the event's transaction has failed or the
\* escrow is funded.
LEMMA ReachesMark ==
    ASSUME Types, Claims, Acknowledged, NEW w \in Handlers, ContinueHandling(w), Doing(w, "mark")'
    PROVE  Settled(handler[w].event)'
  <1> DEFINE e == handler[w].event
             p == PaymentOf[e]
  <1>1. ~Doing(w, "idle") /\ e \in Events /\ p \in Payments /\ WebhookTypeOK /\ Knows(w)
    BY WorkerStep, WebhookAssumption DEF Types, Shape, WebhookAssumption, Acknowledged
  <1>0. handler'[w].event = handler[w].event
    BY WorkerStep DEF Done, GoesTo, Doing, NoTask
  <1>2. ASSUME NEW error \in Errors, Report(w, "release", error)
        PROVE  FALSE
    BY <1>1, <1>2, ReportReports DEF Done, GoesTo, Doing, NoTask
  <1>3. CASE ReadPayment(w)
    <2>1. ~GoTo(w, "ask", "none")
      BY <1>1, GoToGoes DEF GoesTo, Doing
    <2>2. funding[p] = "SUCCESSFUL" /\ UNCHANGED funding
      BY <1>3, <2>1 DEF ReadPayment
    <2> QED
      BY <1>1, <2>2 DEF Settled, Funded
  <1>4. CASE AskProvider(w)
    <2>1. Done(w) \/ (\E answer : GoesTo(w, "record", answer)) \/ \E error : GoesTo(w, "release", error)
      BY <1>4, WorkerStep DEF AskProvider, Doing
    <2> QED
      BY <2>1 DEF Done, GoesTo, Doing, NoTask
  <1>5. CASE RecordSuccess(w)
    <2>1. (Funded /\ UNCHANGED funding) \/ funding' = [funding EXCEPT ![p] = "SUCCESSFUL"]
      BY <1>2, <1>5 DEF RecordSuccess, RecordOnSettled, Errors
    <2>2. Funded'
      BY <1>1, <2>1 DEF Funded, WebhookTypeOK
    <2> QED
      BY <2>2 DEF Settled
  <1>6. CASE RecordOther(w)
    <2>1. Doing(w, "record") /\ handler[w].answer \in {"FAILED", "PROCESSING"} /\ UNCHANGED transaction
      BY <1>6 DEF RecordOther
    <2>2. Reconciled(handler[w].answer, p)
      BY <1>2, <1>6 DEF RecordOther, Errors
    <2>3. CASE handler[w].answer = "FAILED"
      BY <1>0, <1>1, <2>1, <2>3 DEF Knows, Settled
    <2>4. CASE handler[w].answer = "PROCESSING"
      <3>1. funding[p] \in {"SUCCESSFUL", "FAILED"}
        <4>1. funding[p] \notin LiveStatuses
          BY <2>2, <2>4 DEF Reconciled
        <4>2. funding[p] # "none"
          BY <1>1 DEF Acknowledged, Provider, Knows
        <4> QED
          BY <1>1, <4>1, <4>2 DEF WebhookTypeOK, FundingStatuses
      <3>2. UNCHANGED funding
        BY <1>6, <3>1 DEF RecordOther, LiveStatuses
      <3>3. CASE funding[p] = "SUCCESSFUL"
        BY <1>1, <3>2, <3>3 DEF Settled, Funded
      <3>4. CASE funding[p] = "FAILED"
        <4>1. PICK f \in Events : PaymentOf[f] = p /\ transaction[f] = "FAILED"
          BY <1>1, <3>4 DEF Acknowledged, Provider
        <4>2. w \in Recoverers
          BY <1>6, WorkerStep, <2>1 DEF Done, GoesTo, Doing, NoTask
        <4>3. e \notin PaystackEvents
          BY <1>1, <2>1, <2>4, <4>2 DEF Knows
        <4> QED
          BY <1>0, <1>1, <2>1, <4>1, <4>3 DEF Settled, Covered
      <3> QED
        BY <3>1, <3>3, <3>4
    <2> QED
      BY <2>1, <2>3, <2>4
  <1>7. CASE markContractWebhookProcessed(w) \/ releaseContractWebhookClaim(w)
    BY <1>1, <1>7, FinishIsDone
    DEF markContractWebhookProcessed, releaseContractWebhookClaim, Done, Doing, NoTask
  <1> QED
    BY <1>3, <1>4, <1>5, <1>6, <1>7 DEF ContinueHandling

LEMMA KnowsNext ==
    ASSUME Types, Claims, Acknowledged, [WebhookNext]_webhookVars, NEW w \in Handlers
    PROVE  Knows(w)'
  <1>1. Knows(w) /\ WebhookTypeOK /\ Shape(w)
    BY DEF Acknowledged, Types
  <1>2. CASE handler'[w] = handler[w]
    <2>1. ~Doing(w, "idle") => handler[w].event \in Events
      BY <1>1 DEF Shape
    <2>2. Doing(w, "record") \/ Doing(w, "mark") => ~Doing(w, "idle")
      BY DEF Doing
    <2> QED
      BY <1>1, <1>2, <2>1, <2>2, StaysSo DEF Knows, Doing
  <1>3. CASE handler'[w] = NoTask
    BY <1>3 DEF Knows, NoTask, Doing
  <1>4. ASSUME NEW e \in Events, NEW t, Begins(w, e, t), transaction[e] # "none"
        PROVE  Knows(w)'
    BY <1>4, StaysSo DEF Begins, Knows, Doing
  <1>5. ASSUME ContinueHandling(w), handler'[w] # NoTask
        PROVE  Knows(w)'
    <2> DEFINE e == handler[w].event
    <2>1. ~Doing(w, "idle") /\ e \in Events /\ UNCHANGED transaction
      BY <1>1, <1>5, WorkerStep, RecordWrites DEF Shape
    <2>2. handler'[w].event = e
      BY <1>5, WorkerStep DEF Done, GoesTo
    <2>3. transaction'[e] # "none"
      BY <1>1, <2>1 DEF Knows
    <2>4. Doing(w, "mark")' => Settled(e)'
      BY <1>5, ReachesMark
    <2>5. ASSUME Doing(w, "record")'
          PROVE  /\ handler'[w].answer = "FAILED" => transaction'[e] = "FAILED"
                 /\ handler'[w].answer = "PROCESSING" => w \notin Recoverers \/ e \notin PaystackEvents
      <3>1. /\ Doing(w, "ask")
            /\ \/ handler'[w].answer = AnswerAbout(transaction[e])
               \/ handler'[w].answer = "PROCESSING" /\ w \in Pages
        BY <1>5, <2>5, WorkerStep DEF Done, GoesTo, Doing
      <3>2. w \in Recoverers /\ e \in PaystackEvents => transaction[e] = "PAID"
        BY <2>1 DEF Claims, Busy, Acknowledged, Provider
      <3>3. w \in Pages => w \notin Recoverers
        BY WebhookAssumption DEF WebhookAssumption
      <3> QED
        BY <2>1, <3>1, <3>2, <3>3 DEF AnswerAbout
    <2> QED
      BY <2>2, <2>3, <2>4, <2>5 DEF Knows, Doing
  <1>6. ASSUME NEW v \in Handlers, ContinueHandling(v) \/ HandlerDies(v)
        PROVE  Knows(w)'
    <2>1. CASE v = w
      BY <1>3, <1>5, <1>6, <2>1, FinishIsDone, <1>1 DEF HandlerDies, Done
    <2>2. CASE v # w
      BY <1>2, <1>6, <2>2, WorkerStep DEF Done, GoesTo
    <2> QED
      BY <2>1, <2>2
  <1>7. ASSUME NEW e \in Events, Claim(e) \/ \E v \in Pages : BeginVerification(v, e)
        PROVE  Knows(w)'
    <2>1. ASSUME NEW v \in Recoverers, claimContractWebhookEvent(v, e)
          PROVE  Knows(w)'
      <3>1. Begins(v, e, row[e].attempts + 1) /\ transaction[e] # "none"
        BY <1>1, <2>1, ClaimBegins DEF claimContractWebhookEvent, Acknowledged, Provider
      <3> QED
        BY <1>2, <1>4, <3>1 DEF Begins
    <2>2. ASSUME NEW v \in Pages, BeginVerification(v, e)
          PROVE  Knows(w)'
      <3>1. Begins(v, e, 0) /\ transaction[e] # "none"
        BY <1>1, <2>2, VerificationBegins DEF BeginVerification
      <3> QED
        BY <1>2, <1>4, <3>1 DEF Begins
    <2> QED
      BY <1>7, <2>1, <2>2 DEF Claim
  <1>8. CASE UNCHANGED webhookVars
    BY <1>2, <1>8 DEF webhookVars
  <1>9. CASE WebhookNext
    BY <1>2, <1>6, <1>7, <1>9
    DEF WebhookNext, InitializePayment, CustomerPays, StoreEvent, LeaseExpires, AttemptBecomesDue
  <1> QED
    BY <1>8, <1>9

LEMMA AcknowledgedNext ==
    ASSUME Types, Claims, Acknowledged, [WebhookNext]_webhookVars
    PROVE  Acknowledged'
  <1>1. ASSUME NEW e \in Events, row'[e].state = "processed"
        PROVE  Settled(e)'
    <2>1. row[e].state = "processed" \/ Marked(e)
      BY <1>1, RowStep DEF OnlyRow, Stored, Claimed, Marked, Released, Aged
    <2>2. Settled(e)
      BY <2>1 DEF Acknowledged, Knows, Marked, Handlers
    <2> QED
      BY <2>2, StaysSo
  <1> QED
    BY <1>1, ProviderNext, KnowsNext DEF Acknowledged

\* The event of a paid transaction is only acknowledged once the escrow is funded, however
\* often its processing was interrupted, repeated or taken over.
THEOREM AcknowledgedIsFundedHolds == WebhookSpec => []AcknowledgedIsFunded
  <1>1. WebhookInit => Claims /\ Acknowledged
    BY WebhookAssumption
    DEF WebhookInit, Claims, Busy, Acknowledged, Provider, Knows, Doing, NoTask, Absent, Handlers,
        WebhookAssumption
  <1>2. Types /\ Claims /\ [WebhookNext]_webhookVars => Claims'
    BY ClaimsNext
  <1>3. Types /\ Claims /\ Acknowledged /\ [WebhookNext]_webhookVars => Acknowledged'
    BY AcknowledgedNext
  <1>4. Acknowledged => AcknowledgedIsFunded
    BY DEF Acknowledged, Settled, Covered, AcknowledgedIsFunded
  <1> QED
    BY <1>1, <1>2, <1>3, <1>4, TypesHold, PTL DEF WebhookSpec
=============================================================================
