----------------------------- MODULE PlanUsage ------------------------------
(***************************************************************************)
(* What a seeker's plan allows: the plan in force comes from a free trial, *)
(* a subscription or the free plan, and every AI feature draws on its      *)
(* monthly allowance.  A mock interview is started with one unit of it and *)
(* evaluated later, once.                                                  *)
(*                                                                         *)
(* Source: subscriptionEntitlement.service.js, aiFeatures.service.js,      *)
(* premiumSeeker.service.js and adminSubscriptions.service.js, for one     *)
(* user.  A unit is reserved in a transaction that holds the User's row    *)
(* lock from its count to its insert; it is given back when the language   *)
(* model fails.  A trial is started by a check and an insert with no lock. *)
(* The process may die between any two steps.                              *)
(*                                                                         *)
(* Which features a plan includes and the texts sent to the model are left *)
(* out; an unlimited plan is one whose allowance is never reached.         *)
(***************************************************************************)
EXTENDS Integers, Sequences, FiniteSets

CONSTANTS
    Plans,
    Basic,          \* the plan without a trial or a subscription
    Allowances,     \* values an administrator gives to SubscriptionPlan.aiAllowance
    Records,        \* AiUsageRecord rows
    Requests,
    MaxMonths,      \* bound: months
    MaxTrials,      \* bound: trials
    NoRecord        \* the record of a request that has none

VARIABLES
    allowance,      \* aiAllowance of each plan
    subscribed,     \* the plan of the current subscription, Basic without one
    trials,         \* UserSubscriptionTrial rows in the order of createdAt
    month,
    record,         \* AiUsageRecord rows
    delivered,      \* history: records whose answer the seeker was given
    evaluated,      \* history: evaluations delivered for a mock interview
    req

usageVars == <<allowance, subscribed, trials, month, record, delivered,
               evaluated, req>>

planVars == <<allowance, subscribed, trials, month>>

-----------------------------------------------------------------------------
(* State *)

MockStates == {"ACTIVE", "EVALUATING", "COMPLETED"}

\* session: the state of the mock interview in metadata; "none" for other features.
Record == [kept : BOOLEAN, month : 0 .. MaxMonths, session : MockStates \cup {"none"}]

Unused == [kept |-> FALSE, month |-> 0, session |-> "none"]

Request == [pc : {"idle", "checked", "counted", "asking", "failed", "evaluating", "trial"},
            session : {"none", "ACTIVE"}, limit : Nat,
            plan : Plans, record : Records \cup {NoRecord}]

Idle == [pc |-> "idle", session |-> "none", limit |-> 0, plan |-> Basic,
         record |-> NoRecord]

TypeOK ==
    /\ allowance \in [Plans -> Allowances]
    /\ subscribed \in Plans
    /\ trials \in Seq([plan : Plans, active : BOOLEAN])
    /\ month \in 1 .. MaxMonths
    /\ record \in [Records -> Record]
    /\ delivered \subseteq Records
    /\ evaluated \in [Records -> Nat]
    /\ req \in [Requests -> Request]

Init ==
    /\ allowance \in [Plans -> Allowances]
    /\ subscribed = Basic
    /\ trials = <<>>
    /\ month = 1
    /\ record = [x \in Records |-> Unused]
    /\ delivered = {}
    /\ evaluated = [x \in Records |-> 0]
    /\ req = [r \in Requests |-> Idle]

-----------------------------------------------------------------------------
(* Helpers *)

ActiveTrials == {n \in 1 .. Len(trials) : trials[n].active}

\* resolveEffectiveEntitlements: the latest active trial, the subscription, or the free plan.
EffectivePlan ==
    IF ActiveTrials = {} THEN subscribed
    ELSE trials[CHOOSE n \in ActiveTrials : \A k \in ActiveTrials : k <= n].plan

Limit == allowance[EffectivePlan]

\* getAiUsageState
UsedIn(m) == {x \in Records : record[x].kept /\ record[x].month = m}
MayUse == Cardinality(UsedIn(month)) < Limit

\* SELECT ... FROM "User" ... FOR UPDATE; the mistake takes no lock.
Unlocked == TRUE
UserFree == \A r \in Requests : req[r].pc # "counted"

Released(x) == {x}

\* The condition of the UPDATE that claims a mock interview; the mistake names the
\* row only.
AnySession(x) == TRUE
Claimable(x) == record[x].session = "ACTIVE"

Answered(r) == req' = [req EXCEPT ![r] = Idle]

-----------------------------------------------------------------------------
(* Plans *)

\* updateAdminSubscriptionPlan
EditPlan(p, n) ==
    /\ allowance' = [allowance EXCEPT ![p] = n]
    /\ UNCHANGED <<subscribed, trials, month, record, delivered, evaluated, req>>

\* A subscription is activated, replaced or expires.
ChangeSubscription(p) ==
    /\ subscribed' = p
    /\ UNCHANGED <<allowance, trials, month, record, delivered, evaluated, req>>

TrialEnds(n) ==
    /\ trials' = [trials EXCEPT ![n].active = FALSE]
    /\ UNCHANGED <<allowance, subscribed, month, record, delivered, evaluated, req>>

NextMonth ==
    /\ month < MaxMonths
    /\ month' = month + 1
    /\ UNCHANGED <<allowance, subscribed, trials, record, delivered, evaluated, req>>

\* startFreeTrial: none is active; p is the plan an administrator grants trials of ...
BeginTrial(r, p) ==
    /\ req[r] = Idle
    /\ ActiveTrials = {}
    /\ Len(trials) < MaxTrials
    /\ req' = [req EXCEPT ![r].pc = "trial", ![r].plan = p]
    /\ UNCHANGED <<allowance, subscribed, trials, month, record, delivered, evaluated>>

\* ... and the row is created.
CreateTrial(r) ==
    /\ req[r].pc = "trial"
    /\ trials' = Append(trials, [plan |-> req[r].plan, active |-> TRUE])
    /\ Answered(r)
    /\ UNCHANGED <<allowance, subscribed, month, record, delivered, evaluated>>

-----------------------------------------------------------------------------
(* AI features *)

\* assertAccess and requireAiAccess, without a lock; session is "ACTIVE" for startInterview.
BeginFeature(r, session) ==
    /\ req[r] = Idle
    /\ MayUse
    /\ req' = [req EXCEPT ![r].pc = "checked", ![r].session = session]
    /\ UNCHANGED <<planVars, record, delivered, evaluated>>

\* recordAiUsageInTransaction locks the user and counts ...
CountUsage(r) ==
    /\ req[r].pc = "checked"
    /\ UserFree
    /\ req' = [req EXCEPT ![r] = IF MayUse THEN [@ EXCEPT !.pc = "counted", !.limit = Limit]
                                 ELSE Idle]
    /\ UNCHANGED <<planVars, record, delivered, evaluated>>

\* ... and creates the record.
Reserve(r, x) ==
    /\ req[r].pc = "counted"
    /\ record[x] = Unused
    /\ record' = [record EXCEPT ![x] = [kept |-> TRUE, month |-> month,
                                        session |-> req[r].session]]
    /\ req' = [req EXCEPT ![r].pc = "asking", ![r].record = x]
    /\ UNCHANGED <<planVars, delivered, evaluated>>

\* requestStructuredCompletion returns; for startInterview with a signed session.
Deliver(r) ==
    /\ req[r].pc = "asking"
    /\ delivered' = delivered \cup {req[r].record}
    /\ Answered(r)
    /\ UNCHANGED <<planVars, record, evaluated>>

ProviderFails(r) ==
    /\ req[r].pc = "asking"
    /\ req' = [req EXCEPT ![r].pc = "failed"]
    /\ UNCHANGED <<planVars, record, delivered, evaluated>>

\* releaseReservation; a deletion that fails is ignored.
Release(r) ==
    /\ req[r].pc = "failed"
    /\ record' = [x \in Records |-> IF x \in Released(req[r].record)
                                    THEN [record[x] EXCEPT !.kept = FALSE] ELSE record[x]]
    /\ Answered(r)
    /\ UNCHANGED <<planVars, delivered, evaluated>>

\* The process dies, a deletion fails, or the transaction does.
Abort(r) ==
    /\ req[r] # Idle
    /\ Answered(r)
    /\ UNCHANGED <<planVars, record, delivered, evaluated>>

-----------------------------------------------------------------------------
(* Mock interviews *)

\* evaluateInterview claims the session ...
BeginEvaluation(r, x) ==
    /\ req[r] = Idle
    /\ x \in delivered
    /\ record[x].session # "none"
    /\ record[x].kept
    /\ Claimable(x)
    /\ record' = [record EXCEPT ![x].session = "EVALUATING"]
    /\ req' = [req EXCEPT ![r].pc = "evaluating", ![r].record = x]
    /\ UNCHANGED <<planVars, delivered, evaluated>>

\* ... completes it; told is FALSE when the reply of the UPDATE is lost ...
CompleteEvaluation(r, told) ==
    LET x == req[r].record IN
    /\ req[r].pc = "evaluating"
    /\ record[x].session = "EVALUATING"
    /\ record' = [record EXCEPT ![x].session = "COMPLETED"]
    /\ evaluated' = IF told THEN [evaluated EXCEPT ![x] = @ + 1] ELSE evaluated
    /\ Answered(r)
    /\ UNCHANGED <<planVars, delivered>>

\* ... or makes it available again.
EvaluationFails(r) ==
    LET x == req[r].record IN
    /\ req[r].pc = "evaluating"
    /\ record' = IF record[x].session = "EVALUATING"
                 THEN [record EXCEPT ![x].session = "ACTIVE"] ELSE record
    /\ Answered(r)
    /\ UNCHANGED <<planVars, delivered, evaluated>>

-----------------------------------------------------------------------------
(* Specification *)

PlanStep ==
    \/ \E p \in Plans, n \in Allowances : EditPlan(p, n)
    \/ \E p \in Plans : ChangeSubscription(p)
    \/ \E n \in ActiveTrials : TrialEnds(n)
    \/ NextMonth

RequestStep(r) ==
    \/ \E p \in Plans : BeginTrial(r, p)
    \/ CreateTrial(r)
    \/ \E session \in {"none", "ACTIVE"} : BeginFeature(r, session)
    \/ CountUsage(r)
    \/ \E x \in Records : Reserve(r, x) \/ BeginEvaluation(r, x)
    \/ Deliver(r)
    \/ ProviderFails(r)
    \/ Release(r)
    \/ \E told \in BOOLEAN : CompleteEvaluation(r, told)
    \/ EvaluationFails(r)
    \/ Abort(r)

Next == PlanStep \/ \E r \in Requests : RequestStep(r)

Spec == Init /\ [][Next]_usageVars

-----------------------------------------------------------------------------
(* Properties *)

\* No reservation takes a month beyond the allowance its transaction read, although the
\* check before it is unlocked, releases come in between and plans and months change
\* (recordAiUsageInTransaction).
AllowanceKept ==
    [][\A r \in Requests : req[r].pc = "counted" /\ req'[r].pc = "asking" =>
         Cardinality(UsedIn(month)') <= req[r].limit]_usageVars

\* A mock interview is evaluated at most once, however evaluations overlap, fail, lose
\* the reply of their last write or die (evaluateInterview).
EvaluatedOnce == \A x \in Records : evaluated[x] <= 1

=============================================================================
