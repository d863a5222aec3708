--------------------------- MODULE ContractEscrow ---------------------------
(***************************************************************************)
(* Protected work: an employer selects one application of a job, which     *)
(* creates a contract with its escrow; the employer funds the escrow       *)
(* through a payment provider; the seeker submits the work, the employer   *)
(* confirms it, and an administrator releases the money to the seeker's    *)
(* wallet.  Until a payment is attempted the contract may be cancelled;    *)
(* while the escrow holds money either party may dispute it.               *)
(*                                                                         *)
(* Source: employerApplications.service.js, contract.service.js,           *)
(* contractPayment.service.js, contractDispute.service.js,                 *)
(* adminRelease.service.js, employerJobs.service.js, adminJobs.service.js. *)
(* Every transaction here begins with the row lock of the Job, the         *)
(* Contract or the Escrow and is one atomic step.                          *)
(* What the code reads outside a transaction and uses in a later one is a  *)
(* worker's: the check before an application's status is written, and the  *)
(* payment that is verified with the provider before it is recorded.       *)
(*                                                                         *)
(* Contract.applicationId is unique, so a contract and its escrow are      *)
(* named by their application.                                             *)
(***************************************************************************)
EXTENDS Integers, FiniteSets

CONSTANTS
    Jobs,
    Applications,
    JobOf,           \* the job of each application
    MaxAttempts,     \* bound: funding attempts (Payment rows) per contract
    Workers,         \* concurrent status updates and payment verifications
    NoApplication    \* what an idle worker works on

Attempts == 1 .. MaxAttempts

ASSUME EscrowAssumption ==
    /\ JobOf \in [Applications -> Jobs]
    /\ MaxAttempts \in Nat \ {0}
    /\ NoApplication \notin Applications

VARIABLES
    kind,          \* jobType and engagementType of each job, which an edit overwrites
    application,   \* Application.status
    type,          \* Contract.type, "none" before the selection
    contract,      \* Contract.status, "none" before the selection
    archived,      \* contracts with employerArchivedAt
    confirmed,     \* the parties that confirmed the contract
    work,          \* FreelanceContract.workStatus
    escrow,        \* Escrow.status, "none" before the selection
    dispute,       \* status of the contract's dispute record, "none" without one
    payment,       \* Payment.status of each funding attempt
    charge,        \* what the provider holds for each funding attempt
    credits,       \* WALLET_CREDIT entries <contract>:release, with the wallet's increment
    worker         \* control state of each worker

vars == <<kind, application, type, contract, archived, confirmed, work, escrow, dispute,
          payment, charge, credits, worker>>

selection == <<kind, application, type, contract, archived, confirmed>>
money == <<escrow, payment, credits>>

-----------------------------------------------------------------------------
(* State *)

ContractTypes == {"FREELANCE_PROJECT", "CONTRACT_PROJECT"}

\* A job's jobType and engagementType, which validation keeps together, named by the
\* contract they call for; MONTHLY employment calls for none.
Kinds == ContractTypes \cup {"MONTHLY"}

\* APPLIED stands for REVIEWING, SHORTLISTED and INTERVIEW too, and REJECTED for WITHDRAWN.
ApplicationStatuses == {"APPLIED", "ACCEPTED", "PAYMENT_PENDING", "REJECTED"}

\* IN_PROGRESS, COMPLETED, ENDED and DISPUTED are never written to a contract.
ContractStatuses == {"none", "PENDING", "ACTIVE", "CANCELLED"}

\* COMPLETION_SUBMITTED is written together with completionSubmittedAt, RELEASE_ELIGIBLE
\* with employerCompletionConfirmedAt.
WorkStatuses == {"PENDING", "IN_PROGRESS", "COMPLETION_SUBMITTED", "RELEASE_ELIGIBLE",
                 "RELEASED", "CANCELLED"}

\* FUNDING, REFUND_PENDING and REFUNDED are never written.
Held == {"FUNDED", "RELEASE_ELIGIBLE", "DISPUTED"}
EscrowStatuses == {"none", "UNFUNDED", "RELEASED", "CANCELLED"} \cup Held

\* RESOLVED stands for the three resolutions, which differ only in their name.
Unresolved == {"OPEN", "UNDER_REVIEW"}
DisputeStatuses == {"none", "RESOLVED"} \cup Unresolved

Live == {"PENDING", "PROCESSING"}
PaymentStatuses == {"none", "SUCCESSFUL", "FAILED"} \cup Live

\* PENDING covers a checkout that nobody completed; a failed charge may be followed by a
\* successful one on the same checkout.
ChargeStates == {"none", "PENDING", "FAILED", "PAID"}

Parties == {"EMPLOYER", "SEEKER"}
Outcomes == {"PROCESSING", "FAILED", "SUCCESSFUL"}

Idle == [pc |-> "idle", app |-> NoApplication, attempt |-> 1, value |-> "none"]

TypeOK ==
    /\ kind \in [Jobs -> Kinds]
    /\ application \in [Applications -> ApplicationStatuses]
    /\ type \in [Applications -> ContractTypes \cup {"none"}]
    /\ contract \in [Applications -> ContractStatuses]
    /\ archived \subseteq Applications
    /\ confirmed \in [Applications -> SUBSET Parties]
    /\ work \in [Applications -> WorkStatuses]
    /\ escrow \in [Applications -> EscrowStatuses]
    /\ dispute \in [Applications -> DisputeStatuses]
    /\ payment \in [Applications -> [Attempts -> PaymentStatuses]]
    /\ charge \in [Applications -> [Attempts -> ChargeStates]]
    /\ credits \in [Applications -> Nat]
    /\ worker \in [Workers -> [pc : {"idle", "update", "verify", "record"},
                               app : Applications \cup {NoApplication},
                               attempt : Attempts,
                               value : Outcomes \cup {"none", "APPLIED", "REJECTED"}]]
    /\ \A p \in Workers :
         /\ worker[p].pc # "idle" => worker[p].app \in Applications
         /\ worker[p].pc = "update" => worker[p].value \in {"APPLIED", "REJECTED"}
         /\ worker[p].pc = "record" => worker[p].value \in Outcomes

Init ==
    /\ kind \in [Jobs -> Kinds]
    /\ application = [a \in Applications |-> "APPLIED"]
    /\ type = [a \in Applications |-> "none"]
    /\ contract = [a \in Applications |-> "none"]
    /\ archived = {}
    /\ confirmed = [a \in Applications |-> {}]
    /\ work = [a \in Applications |-> "PENDING"]
    /\ escrow = [a \in Applications |-> "none"]
    /\ dispute = [a \in Applications |-> "none"]
    /\ payment = [a \in Applications |-> [n \in Attempts |-> "none"]]
    /\ charge = [a \in Applications |-> [n \in Attempts |-> "none"]]
    /\ credits = [a \in Applications |-> 0]
    /\ worker = [p \in Workers |-> Idle]

-----------------------------------------------------------------------------
(* Helpers *)

kindOf(a) == kind[JobOf[a]]
Freelance(a) == type[a] = "FREELANCE_PROJECT"
contractTypeMatchesJob(a) == type[a] = kindOf(a)

\* The other applications of a's job.
Rivals(a) == {b \in Applications : JobOf[b] = JobOf[a] /\ b # a}

NoAttempt(a) == \A n \in Attempts : payment[a][n] = "none"
Paid(a) == \E n \in Attempts : payment[a][n] = "SUCCESSFUL"
LiveAttempt(a) == \E n \in Attempts : payment[a][n] \in Live

\* isSafelyCancelledContract, with hasNoContractFinancialHistory.
SafelyCancelled(a) ==
    /\ contract[a] = "CANCELLED"
    /\ contractTypeMatchesJob(a)
    /\ application[a] = "REJECTED"
    /\ work[a] = "CANCELLED"
    /\ confirmed[a] = {}
    /\ escrow[a] = "CANCELLED"
    /\ NoAttempt(a)
    /\ dispute[a] = "none"

\* canPossiblyCancelContract.
PossiblyCancellable(a) ==
    /\ contractTypeMatchesJob(a)
    /\ work[a] = "PENDING"
    /\ confirmed[a] = {}
    /\ escrow[a] = "UNFUNDED"
    /\ \/ Freelance(a) /\ contract[a] \in {"PENDING", "ACTIVE"} /\ application[a] = "ACCEPTED"
       \/ ~Freelance(a) /\ contract[a] = "PENDING" /\ application[a] = "PAYMENT_PENDING"

SetContract(a, status) == contract' = [contract EXCEPT ![a] = status]
SetEscrow(a, status) == escrow' = [escrow EXCEPT ![a] = status]
SetWork(a, status) == work' = [work EXCEPT ![a] = status]
SetPayment(a, n, status) == payment' = [payment EXCEPT ![a][n] = status]
SetApplication(a, status) == application' = [application EXCEPT ![a] = status]

At(p, step) == worker[p].pc = step
Finish(p) == worker' = [worker EXCEPT ![p] = Idle]

-----------------------------------------------------------------------------
(* Selection: transactions under the Job's and the Application's row locks *)

\* The contract takes the type that the job calls for at this moment.
CreateContract(a, status) ==
    /\ type' = [type EXCEPT ![a] = kindOf(a)]
    /\ SetContract(a, "PENDING")
    /\ SetEscrow(a, "UNFUNDED")
    /\ SetApplication(a, status)
    /\ UNCHANGED <<kind, archived, confirmed, work, dispute, payment, charge, credits, worker>>

\* Mutant: a contract blocks a replacement only once it is active.
ActiveBlocks(b) == contract[b] = "ACTIVE"
\* A rival's contract blocks the selection unless it was cancelled with no history left.
Blocks(b) == contract[b] # "none" /\ ~SafelyCancelled(b)

\* Only contracts of the type in question are looked at, whatever others the job has.
RivalsBlock(a) == \E b \in Rivals(a) : contractTypeMatchesJob(b) /\ Blocks(b)

\* updateEmployerApplicationStatus with ACCEPTED: the selection for a freelance project.
AcceptFreelanceApplication(a) ==
    /\ kindOf(a) = "FREELANCE_PROJECT"
    /\ contract[a] = "none"
    /\ \A b \in Rivals(a) : application[b] # "ACCEPTED"
    /\ ~RivalsBlock(a)
    /\ CreateContract(a, "ACCEPTED")

\* ACCEPTED for a MONTHLY job only writes the status, whether or not the application has
\* a contract from a time when the job was of another kind.
AcceptMonthlyApplication(a) ==
    /\ kindOf(a) = "MONTHLY"
    /\ SetApplication(a, "ACCEPTED")
    /\ UNCHANGED <<kind, type, contract, archived, confirmed, work, money, dispute, charge, worker>>

selectContractJobApplication(a) ==
    /\ kindOf(a) = "CONTRACT_PROJECT"
    /\ contract[a] = "none"
    /\ application[a] \in {"APPLIED", "PAYMENT_PENDING"}
    /\ ~RivalsBlock(a)
    /\ CreateContract(a, "PAYMENT_PENDING")

\* updateEmployerApplicationStatus with any other status: without a contract at this
\* moment, the status will be written, in a later step and whatever happened until then.
\* With one, REJECTED and WITHDRAWN go to the cancellation and the rest is refused.
updateEmployerApplicationStatus(p, a, status) ==
    /\ At(p, "idle")
    /\ contract[a] = "none"
    /\ worker' = [worker EXCEPT ![p] = [Idle EXCEPT !.pc = "update", !.app = a, !.value = status]]
    /\ UNCHANGED <<selection, work, money, dispute, charge>>

WriteApplicationStatus(p) ==
    /\ At(p, "update")
    /\ SetApplication(worker[p].app, worker[p].value)
    /\ Finish(p)
    /\ UNCHANGED <<kind, type, contract, archived, confirmed, work, money, dispute, charge>>

\* updateEmployerJob and updateAdminJob overwrite the job's kind without a look at its
\* contracts.  The approval that an employer's edit needs again is left out.
EditJob(j, k) ==
    /\ k # kind[j]
    /\ kind' = [kind EXCEPT ![j] = k]
    /\ UNCHANGED <<application, type, contract, archived, confirmed, work, money, dispute,
                   charge, worker>>

-----------------------------------------------------------------------------
(* The contract's own transactions, under the Contract's row lock *)

confirmContract(a, party) ==
    /\ contract[a] = "PENDING"
    /\ Freelance(a)
    /\ party \notin confirmed[a]
    /\ confirmed' = [confirmed EXCEPT ![a] = @ \cup {party}]
    /\ IF confirmed[a] \cup {party} = Parties THEN SetContract(a, "ACTIVE") ELSE UNCHANGED contract
    /\ UNCHANGED <<kind, application, type, archived, work, money, dispute, charge, worker>>

\* Mutant: only payments that may still settle block the cancellation.
NoLiveAttempt(a) == ~LiveAttempt(a)
\* Any attempt blocks it: "A provider may still report a late result".
NothingAttempted(a) == NoAttempt(a)

cancelEmployerFreelanceContract(a) ==
    /\ PossiblyCancellable(a)
    /\ NothingAttempted(a)
    /\ dispute[a] = "none"
    /\ SetContract(a, "CANCELLED")
    /\ SetWork(a, "CANCELLED")
    /\ SetEscrow(a, "CANCELLED")
    /\ SetApplication(a, "REJECTED")
    /\ UNCHANGED <<kind, type, archived, confirmed, dispute, payment, charge, credits, worker>>

\* isSafelyReleasedContract.
SafelyReleased(a) ==
    /\ contract[a] = "ACTIVE"
    /\ contractTypeMatchesJob(a)
    /\ work[a] = "RELEASED"
    /\ escrow[a] = "RELEASED"
    /\ dispute[a] = "none"
    /\ credits[a] = 1
    /\ Cardinality({n \in Attempts : payment[a][n] = "SUCCESSFUL"}) = 1
    /\ ~LiveAttempt(a)

\* isEligibleForEmployerDeletion.  (A webhook event that waits for processing refuses it
\* as well.)
archiveEmployerContract(a) ==
    /\ a \notin archived
    /\ \/ SafelyCancelled(a)
       \/ PossiblyCancellable(a) /\ NoAttempt(a) /\ dispute[a] = "none"
       \/ SafelyReleased(a)
    /\ archived' = archived \cup {a}
    /\ UNCHANGED <<kind, application, type, contract, confirmed, work, money, dispute, charge,
                   worker>>

submitContractCompletion(a) ==
    /\ contract[a] = "ACTIVE"
    /\ escrow[a] = "FUNDED"
    /\ Paid(a)
    /\ work[a] \in {"PENDING", "IN_PROGRESS"}
    /\ SetWork(a, "COMPLETION_SUBMITTED")
    /\ UNCHANGED <<selection, money, dispute, charge, worker>>

\* Mutant: the state of the escrow is not looked at.
ConfirmableAtAnyTime(a) == escrow[a] \in Held
\* assertFundedContract.
Confirmable(a) == escrow[a] = "FUNDED"

confirmContractCompletion(a) ==
    /\ contract[a] = "ACTIVE"
    /\ Confirmable(a)
    /\ Paid(a)
    /\ work[a] = "COMPLETION_SUBMITTED"
    /\ SetWork(a, "RELEASE_ELIGIBLE")
    /\ SetEscrow(a, "RELEASE_ELIGIBLE")
    /\ UNCHANGED <<selection, payment, credits, dispute, charge, worker>>

-----------------------------------------------------------------------------
(* Dispute and release: transactions under the Escrow's row lock *)

submitContractDispute(a) ==
    /\ Freelance(a)
    /\ contract[a] = "ACTIVE"
    /\ escrow[a] \in {"FUNDED", "RELEASE_ELIGIBLE"}
    /\ dispute[a] = "none"
    /\ dispute' = [dispute EXCEPT ![a] = "OPEN"]
    /\ SetEscrow(a, "DISPUTED")
    /\ UNCHANGED <<selection, work, payment, credits, charge, worker>>

\* The funds stay held, whatever the resolution says.
resolveContractDispute(a, status) ==
    /\ Freelance(a)
    /\ dispute[a] \in Unresolved
    /\ status = "UNDER_REVIEW" => dispute[a] = "OPEN"
    /\ status = "RESOLVED" => escrow[a] = "DISPUTED"
    /\ dispute' = [dispute EXCEPT ![a] = status]
    /\ UNCHANGED <<selection, work, money, charge, worker>>

\* Mutant: the release trusts the contract's work status instead of the escrow's.
WorkIsConfirmed(a) == work[a] \in {"RELEASE_ELIGIBLE", "RELEASED"}
ReleaseEligible(a) == escrow[a] = "RELEASE_ELIGIBLE"

releaseContractFunds(a) ==
    /\ dispute[a] = "none"
    /\ contract[a] = "ACTIVE"
    /\ work[a] \in {"RELEASE_ELIGIBLE", "RELEASED"}
    /\ ReleaseEligible(a)
    /\ Paid(a)
    /\ credits' = [credits EXCEPT ![a] = @ + 1]
    /\ SetEscrow(a, "RELEASED")
    /\ SetWork(a, "RELEASED")
    /\ UNCHANGED <<selection, payment, dispute, charge, worker>>

-----------------------------------------------------------------------------
(* Funding *)

\* assertPaymentContract.
Fundable(a) ==
    /\ a \notin archived
    /\ contract[a] = "PENDING" \/ (Freelance(a) /\ contract[a] = "ACTIVE")
    /\ escrow[a] = "UNFUNDED"

\* findExistingAttempt: one attempt at a time, and none after a success.
MayStartAnother(a) == ~LiveAttempt(a) /\ ~Paid(a)

\* initializeContractPayment, under the Contract's row lock: a new attempt, or the
\* failed one whose idempotency key the request repeats (the newest match wins).
initializeContractPayment(a, n) ==
    /\ Fundable(a)
    /\ \/ /\ payment[a][n] = "none"
          /\ \A m \in Attempts : m < n => payment[a][m] # "none"
          /\ MayStartAnother(a)
       \/ /\ payment[a][n] = "FAILED"
          /\ \A m \in Attempts : m > n => payment[a][m] \notin Live
    /\ SetPayment(a, n, "PENDING")
    /\ UNCHANGED <<selection, work, escrow, credits, dispute, charge, worker>>

\* findPaymentForVerification, outside any transaction.
verifyContractPayment(p, a, n) ==
    /\ At(p, "idle")
    /\ payment[a][n] \notin {"none", "SUCCESSFUL"}
    /\ worker' = [worker EXCEPT ![p] = [Idle EXCEPT !.pc = "verify", !.app = a, !.attempt = n]]
    /\ UNCHANGED <<selection, work, money, dispute, charge>>

\* Mutant: a failed charge is recorded as paid.
AnyAnswerIsPaid(c) == IF c = "PENDING" THEN "PROCESSING" ELSE "SUCCESSFUL"
\* validateProviderPayment; an answer that does not fit the payment counts as PROCESSING.
Verification(c) ==
    CASE c = "PAID" -> "SUCCESSFUL"
      [] c = "FAILED" -> "FAILED"
      [] OTHER -> "PROCESSING"

\* The provider's answer, which is recorded after the await.
VerifyCharge(p) ==
    LET c == charge[worker[p].app][worker[p].attempt] IN
    /\ At(p, "verify")
    /\ c # "none"
    /\ \E outcome \in {Verification(c), "PROCESSING"} :
          worker' = [worker EXCEPT ![p].pc = "record", ![p].value = outcome]
    /\ UNCHANGED <<selection, work, money, dispute, charge>>

\* transitionPaymentStatus, under the Escrow's row lock.
TransitionPaymentStatus(p) ==
    LET a == worker[p].app
        n == worker[p].attempt IN
    /\ At(p, "record")
    /\ worker[p].value # "SUCCESSFUL"
    /\ IF payment[a][n] \in Live /\ escrow[a] = "UNFUNDED"
       THEN SetPayment(a, n, worker[p].value)
       ELSE UNCHANGED payment
    /\ Finish(p)
    /\ UNCHANGED <<selection, work, escrow, credits, dispute, charge>>

\* Mutant: the escrow is funded whatever state it is in.
AnyEscrowIsFunded(a) == TRUE
AwaitsFunding(a) == escrow[a] = "UNFUNDED"

\* Everything the success transaction requires, under the Contract's and the Escrow's
\* row locks; a Contract Job's application must still wait for the payment.
MayFund(a, n) ==
    /\ contract[a] = "PENDING" \/ (Freelance(a) /\ contract[a] = "ACTIVE")
    /\ payment[a][n] # "SUCCESSFUL"
    /\ AwaitsFunding(a)
    /\ Freelance(a) \/ application[a] = "PAYMENT_PENDING"

FundEscrow(p) ==
    LET a == worker[p].app
        n == worker[p].attempt IN
    /\ At(p, "record")
    /\ worker[p].value = "SUCCESSFUL"
    /\ IF MayFund(a, n)
       THEN /\ SetPayment(a, n, "SUCCESSFUL")
            /\ SetEscrow(a, "FUNDED")
            /\ SetContract(a, "ACTIVE")
            /\ IF Freelance(a)
               THEN SetWork(a, "IN_PROGRESS") /\ UNCHANGED application
               ELSE SetApplication(a, "ACCEPTED") /\ UNCHANGED work
       ELSE UNCHANGED <<payment, escrow, contract, work, application>>
    /\ Finish(p)
    /\ UNCHANGED <<kind, type, archived, confirmed, credits, dispute, charge>>

-----------------------------------------------------------------------------
(* The provider, crashes, and the specification *)

\* The customer completes, abandons or retries the checkout of an attempt.
ChargeMoves(a, n, state) ==
    /\ payment[a][n] # "none"
    /\ charge[a][n] # "PAID"
    /\ state # charge[a][n]
    /\ charge' = [charge EXCEPT ![a][n] = state]
    /\ UNCHANGED <<selection, work, money, dispute, worker>>

\* The process dies, or the provider does not answer.
Crash(p) ==
    /\ ~At(p, "idle")
    /\ Finish(p)
    /\ UNCHANGED <<selection, work, money, dispute, charge>>

OnContract(a) ==
    \/ AcceptFreelanceApplication(a)
    \/ AcceptMonthlyApplication(a)
    \/ selectContractJobApplication(a)
    \/ \E party \in Parties : confirmContract(a, party)
    \/ cancelEmployerFreelanceContract(a)
    \/ archiveEmployerContract(a)
    \/ submitContractCompletion(a)
    \/ confirmContractCompletion(a)
    \/ submitContractDispute(a)
    \/ \E status \in {"UNDER_REVIEW", "RESOLVED"} : resolveContractDispute(a, status)
    \/ releaseContractFunds(a)

OnAttempt(a, n) ==
    \/ initializeContractPayment(a, n)
    \/ \E state \in {"PENDING", "FAILED", "PAID"} : ChargeMoves(a, n, state)
    \/ \E p \in Workers : verifyContractPayment(p, a, n)

Continue(p) ==
    \/ \E a \in Applications, status \in {"APPLIED", "REJECTED"} :
         updateEmployerApplicationStatus(p, a, status)
    \/ WriteApplicationStatus(p)
    \/ VerifyCharge(p)
    \/ TransitionPaymentStatus(p)
    \/ FundEscrow(p)
    \/ Crash(p)

Next ==
    \/ \E j \in Jobs, k \in Kinds : EditJob(j, k)
    \/ \E a \in Applications : OnContract(a)
    \/ \E a \in Applications, n \in Attempts : OnAttempt(a, n)
    \/ \E p \in Workers : Continue(p)

Spec == Init /\ [][Next]_vars

-----------------------------------------------------------------------------
(* Properties *)

Standing(a) == contract[a] \in {"PENDING", "ACTIVE"}

\* However selections, cancellations, status updates and edits of the job interleave, a
\* job has at most one contract of each type that may still cost or earn money.
OneContractOfEachType ==
    \A a, b \in Applications :
        a # b /\ JobOf[a] = JobOf[b] /\ Standing(a) /\ Standing(b) => type[a] # type[b]

\* The escrow was funded once, by exactly one attempt, and the provider was paid for that
\* attempt: late failures, stale answers and a second paid attempt change nothing.
FundedByOnePaidAttempt ==
    \A a \in Applications :
        /\ escrow[a] \in Held \cup {"RELEASED"} <=>
              Cardinality({n \in Attempts : payment[a][n] = "SUCCESSFUL"}) = 1
        /\ \A n \in Attempts : payment[a][n] = "SUCCESSFUL" => charge[a][n] = "PAID"

\* The seeker is credited exactly once for each escrow that was released, never before,
\* and the contract's work agrees: a second release, a late payment verification and a
\* dispute all find the escrow no longer eligible.
ReleasedOnce ==
    \A a \in Applications :
        /\ credits[a] = IF escrow[a] = "RELEASED" THEN 1 ELSE 0
        /\ escrow[a] = "RELEASED" => work[a] = "RELEASED"

\* A dispute, once submitted, holds the funds: completion, confirmation, resolution and
\* release leave them where they are.
DisputeHoldsFunds ==
    \A a \in Applications : dispute[a] # "none" => escrow[a] = "DISPUTED" /\ credits[a] = 0

\* Nobody can have paid for a cancelled contract, and nobody is asked to any more.
CancelledTakesNoMoney ==
    \A a \in Applications :
        contract[a] = "CANCELLED" =>
            \A n \in Attempts : payment[a][n] = "none" /\ charge[a][n] # "PAID"

\* Once the employer has archived a contract no money of it moves any more, however late
\* a verification arrives; an unfunded one may still be cancelled.
ArchivedKeepsStill ==
    [][\A a \in archived :
         /\ payment'[a] = payment[a]
         /\ credits'[a] = credits[a]
         /\ escrow'[a] # escrow[a] => escrow[a] = "UNFUNDED" /\ escrow'[a] = "CANCELLED"]_vars

\* To the two parties all of this is EscrowPromise.
Paying == {a \in Applications : \E n \in Attempts : charge[a][n] = "PAID"}

Promise == INSTANCE EscrowPromise WITH
               Contracts <- Applications, Types <- ContractTypes,
               paid <- Paying, earned <- credits

\* The detailed life of a contract implements the promise: its money moves as the two parties
\* were told, whatever is verified late or twice, disputed, archived or selected meanwhile.
ImplementsPromise == Promise!Spec

\* "A selected contract candidate can only be rejected or withdrawn by cancelling the
\* eligible, unfunded contract."  It does not hold: see the run that refutes it.
SelectedCandidateStays ==
    \A a \in Applications :
        Standing(a) => application[a] \in {"ACCEPTED", "PAYMENT_PENDING"}

\* "Another candidate has already been selected for this job."  A job's contract does not
\* keep a second one away when the job was edited in between: see the run that refutes it.
OneContractPerJob ==
    \A a, b \in Applications :
        a # b /\ JobOf[a] = JobOf[b] => ~(Standing(a) /\ Standing(b))
=============================================================================
