# Verification of the LeamJobs backend

LeamJobs is a job board with protected paid work: an employer selects an applicant, funds an
escrow through a payment provider, the work is confirmed, an administrator releases the money
to the seeker's wallet, and the seeker withdraws it through a transfer. The backend is an
Express application over PostgreSQL (Prisma). This directory holds TLA+ models of the parts that
keep money and protocol state, the TLC runs that check them and TLAPS proofs about them.

## The system

| Component (src/src/services) | State | Operations | Interacts with |
|---|---|---|---|
| selection (`employerApplications`) | `Application.status`, creates `Contract`, `FreelanceContract`, `Escrow` | accept, select for a Contract Job, change the status | contract, payment |
| contract (`contract`) | `Contract.status`, `workStatus`, confirmations, `employerArchivedAt` | confirm, cancel, archive, submit and confirm the completion | payment, dispute, release |
| payment (`contractPayment`) | `Payment`, `Escrow.status`, ledger, `ProviderWebhookEvent` | initialise, verify, fund, store and recover webhook events | providers, contract |
| dispute (`contractDispute`) | `Dispute.status`, `Escrow.status` | submit, resolve | release |
| release (`adminRelease`) | `Escrow`, `Wallet`, ledger | release | wallet |
| withdrawal (`seekerWithdrawal`, `withdrawalExecution`, `flutterwaveWebhook`) | `Withdrawal`, payout attempt, `Wallet`, ledger | reserve, execute, reconcile, recover, webhook | transfer providers |
| payout accounts and quotes (`seekerPayoutAccount`, `platformFee`, `seekerWithdrawal`) | `PayoutAccount`, fee configuration, signed quotes | add, change, make default, quote, confirm | withdrawal |
| subscriptions (`seekerSubscription`, `subscription*`) | subscription and its payments | checkout, activate, expire, upgrade | webhooks |
| entitlements and AI features (`subscriptionEntitlement`, `aiFeatures`, `premiumSeeker`, `adminSubscriptions`) | trials, `AiUsage` rows, mock interviews | start a trial, reserve, answer, release, evaluate | subscriptions |
| jobs (`employerJobs`, `adminJobs`) | `Job.status`, deadline | post, edit, approve, reject, remove, close | applications |
| applications and invitations (`seekerApplications`, `jobInvitation`) | `Application`, `JobInvitation` | apply, invite, accept, decline | jobs, selection |
| interviews (`interviews`) | `Interview`, `Application.status` | schedule, edit, cancel | applications |
| contract work (`contractWork`) | submissions, progress, files | submit, review, post | contract, storage |
| employer verification (`employerVerification`) | dossier, documents, company profile | draft, submit, approve, decline | storage |
| accounts (`auth`, `authSession`, `emailVerification`, `passwordReset`, `adminAccountAnonymization`) | `User`, codes, tokens, sessions | register, verify, sign in, reset, suspend, anonymize | all |
| Google sign-in (`googleOAuth`) | OAuth states, pending registrations | start, callback, complete | accounts |
| staff (`adminStaff`) | invitations, `AdminAccount`, permissions | invite, send again, revoke, accept, permit | accounts |
| conversations (`conversation`, `message`) | conversations, messages | open, send, resend, read | applications |
| notifications and mail (`notification`, `email`, `adminCommunications`, `emailPreference`) | notifications, `EmailDelivery`, campaigns | queue, claim, send, retry | all |
| profile files (`seekerProfile`, `storage`) | keys in the profile, objects | upload, replace, remove | applications |
| the rest: listings, profiles, CV import, job alerts, routes | rows without a protocol | read, edit | all |

What makes this code hard:

* **Provider calls sit between transactions.** A transfer request, a charge verification or a
  status query is awaited outside any transaction; by the time its answer is recorded another
  request, webhook or script may have recorded a later one, and the process may have died.
* **Everything is delivered at least once or never.** Webhooks repeat, come late or get lost; the
  recovery job and the reconciliation script do the same work again.
* **Row locks, unique indexes and conditional updates are the only mutual exclusion**, and many
  checks are made before the lock is taken (`employerApplications.service.js:396`,
  `seekerApplications.service.js`, `employerVerification.service.js`).
* **Object storage and mail share no transaction with the database.** A file is uploaded before
  the row names it and deleted after; a mail is sent between two updates.
* **Timeouts are ambiguous.** A request without an answer may have been accepted.

The hazards are listed line by line in `PROJECT.json`.

## Modules

| Module | What it is |
|---|---|
| `Withdrawal` | a withdrawal from its reservation to its settlement, with workers that may die between any two awaits, and the transfer provider |
| `WithdrawalLedger` | the abstract promise to the wallet's owner: reserve once, pay or return, never both |
| `ContractEscrow` | selection, contract, funding, dispute and release, with concurrent status updates, edits of the job and payment verifications |
| `EscrowPromise` | the abstract promise to employer and seeker: one contract of each type of a job, funded by a payment once, released once or held by a dispute |
| `WebhookRecovery` | stored webhook events: claim with a lease and a token, verification, retry, take-over |
| `Subscription` | a seeker's subscription purchases, their transactions cut at every statement that reads or locks a row |
| `PaidPlan` | the abstract promise to the subscriber: one plan in force at a time, by a charge of its own page, until its period ends |
| `Hiring` | jobs, applications and invitations under the row locks of the User and the Job |
| `Interviews` | interviews and the status they give to an application and take back |
| `InterviewTimes` | the instant of a local date and time in a zone that changes its clocks |
| `ContractWork` | submissions of a contract, their verdicts and their files |
| `EmployerVerification` | the dossier of an employer, drafted, submitted and decided with conditional updates only |
| `AccountAccess` | one account: codes, sign-in, resets, suspension, anonymization |
| `StaffAccess` | staff invitations with their tokens, and permissions |
| `PlanUsage` | plan in force, monthly AI allowance, mock interviews |
| `PayoutAccounts` | payout accounts, fees, quotes and the withdrawal that confirms one |
| `MailCampaign` | a campaign claimed, filled side by side, failing half-way |
| `MailDelivery` | notifications, the mails they queue, and the batches that send them |
| `Conversations` | conversations and messages that are sent again |
| `ProfileFiles` | files named by a profile and by applications, and what storage holds |
| `Recruitment`, `Accounts` | the modules of two runs side by side, one of them at a time (see *Runs*) |
| `MC*` | instances for TLC |
| `Withdrawal_proofs` | theorems about `Withdrawal`: its protocol, its money and its refinement of `WithdrawalLedger` |
| `ContractEscrow_proofs`, `WebhookRecovery_proofs`, `Subscription_proofs`, `Hiring_proofs`, `AccountAccess_proofs` | theorems about the module each is named after |
| `Recruitment_proofs` | theorems about `Interviews`, `ContractWork`, `EmployerVerification` and their composition |
| `Accounts_proofs` | theorems about `StaffAccess`, `PlanUsage`, `PayoutAccounts`, `MailCampaign`, `MailDelivery`, `Conversations`, `ProfileFiles`, `InterviewTimes` and their composition |

The modules meet where one hands a row to another. `ContractEscrow.releaseContractFunds` credits a
wallet once per contract; that credit is `Withdrawal.CreditWallet`. `WebhookRecovery` details how
the verifications that `ContractEscrow` lets any worker begin at any time are triggered by webhooks;
its funding step is the same transaction as `ContractEscrow.FundEscrow`. `PayoutAccounts` ends where
`Withdrawal` begins, with the commit of `createSeekerWithdrawal`; `Hiring` ends where `Interviews`
and `ContractEscrow` begin, with the application; `ContractWork` runs from the funding to the
completion of `ContractEscrow`; `MailCampaign` and the notifications of `MailDelivery` fill the queue
whose batches `MailDelivery` has.

### From the code to the models

A PostgreSQL transaction that begins by locking the row every competitor locks as well is one
atomic action. Code outside a transaction is cut at every `await`: each stretch is an action of a
*worker* (a request, a webhook delivery, a script run), whose record holds what the stretch read
and the next one will use. `Subscription` is cut finer, inside its transactions, because they do not
begin with one common lock. `Crash` takes a worker back to idle at any point. The provider is a
variable (`transfer`, `charge`, `transaction`) with actions of its own. Actions keep the names of
the functions they model; where a function spans several awaits its pieces are named for what
they do (`BeginExecute`, `SendTransfer`, `ReplyWithTransfer`, ...).

Data is reduced to what the properties tell apart: amounts are small naturals (a withdrawal's fee
is settled together with its amount) or absent (the escrow always moves as a whole), timestamps
that are written together with a status are that status, error messages are left out, and status
values the code never writes are not in the types. A definition preceded by "Mutant:" is a
plausible error in the definition that follows it: with the one in place of the other, the property
that `PROJECT.json` names beside it fails.

### Withdrawal

`wallet`, `withdrawal`, `attempt`, `associated` and `ledger` are the database, `transfer` the
provider, `worker` the processes, `credited` and `requests` history. `CreateSeekerWithdrawal` takes
the reservation; `claimWithdrawal` turns PENDING into PROCESSING under the row lock, and only the
winner sends the request; every answer, webhook, reconciliation and recovery ends in
`applyOutcome`, which looks at the row again under its lock. Rows for Paystack stem from an earlier
version and exist from the beginning.

`reconcilePendingWithdrawals` takes the `ScriptBatch` PROCESSING rows with the oldest `processingAt`
(25 unless the caller says otherwise) and never stamps a row again that stays unresolved.
`processingAt` orders the claims, `Older(d)` are the rows ahead of `d`, and the script may begin
on `d` only while `InOldestBatch(d)`.

### ContractEscrow

A contract is named by its application (`Contract.applicationId` is unique). `kind` is what the job's
`jobType` and `engagementType` say now, `type` what a contract was created as: `EditJob`
(`updateEmployerJob`, `updateAdminJob`) overwrites the former at any time, with or without contracts
(the approval that an employer's edit needs again is left out: it only delays the selection). A
selection looks for rivals among the contracts of the type it creates (`RivalsBlock`), so one job
may get a live contract of each type; cancellation and archive compare the two
(`contractTypeMatchesJob`). The selection creates contract and escrow; `confirmContract`, `cancelEmployerFreelanceContract`,
`archiveEmployerContract`, completion, dispute and release are transactions. A payment attempt is
initialised in one, verified by a worker (`verifyContractPayment`, `VerifyCharge`) and recorded in
another (`TransitionPaymentStatus`, `FundEscrow`). `updateEmployerApplicationStatus` checks in one
step and writes in another, as the code does.

Dispute and release lock the Escrow first, the contract's own operations lock the Contract first.
They are nevertheless atomic towards one another: a dispute and a ledger entry refer to the
Contract by a foreign key, so PostgreSQL takes a key-share lock of the Contract that conflicts
with `FOR UPDATE`. In the worst case one of the two is aborted as a deadlock's victim, which
changes nothing.

### WebhookRecovery

A row of `ProviderWebhookEvent` with its attempts, lease, next attempt and token. Time is abstract:
a running lease may expire and a scheduled attempt may become due at any moment. The token of a
claim is the number of the attempt, as fresh as the UUID of the code. The workers are
called handlers here: `Recoverers`, the requests and jobs that process events, and `Pages`, the
verifications an employer asks for, which carry no claim.
`funding` is the `Payment.status` of each attempt.

### Subscription

One seeker's purchases, each named by the idempotency key of its checkout request, with a row of
`Payment` and of `Subscription`; the charges tried on their checkout pages; and the workers that
serve a request (`notice = FALSE`) or a provider's notice. `initializeSeekerSubscriptionCheckout`,
`cancelSeekerSubscriptionPayment`, `verifySeekerSubscriptionPayment` with its helper
`markVerificationFailure`, and `recordSubscriptionWebhookEvent` are sequences of steps of one worker.

These transactions run at READ COMMITTED and begin with plain reads, so they are cut at every
statement. A conditional `updateMany` that finds its row is a step in which the worker takes the row's
lock (`SubscriptionLocked`, `PaymentLocked` derive the holders from the workers' positions); what
it wrote becomes visible in the step that ends the transaction, which also does the other row's
update. A transaction that meets a lock waits; `markVerificationFailure` locks payment then
subscription, activation and cancellation the other way round, and `DeadlockAborts` is PostgreSQL
choosing either of them as its victim. The partial unique index on ACTIVE subscriptions makes an
activation wait for another that is not committed (`Activate`).

The provider's answer may be unknown in both directions. A call for a checkout page that ends without
one may have made the page all the same (`pages`): the payment then stays PROCESSING without a link,
its page can be paid, and the notice finds the payment PROCESSING. (In the model the page is payable
although its link was lost, which admits more than the code.) A verification may answer that the charge
is still `pending` (processing, queued, incomplete), also from a lookup made before it succeeded
(`LookAgain`). In both cases the code reports the payment as pending and marks the notice as processed:
an `event` of value "pending" is one acknowledged in that way, and nothing looks at it again.
A notice of a pending status is stored as an event of another status than the final one, and is
not followed further than its delivery.

Abstractions: only Flutterwave, the provider of every new purchase; the page's request always names
its transaction, as the provider's redirect does, since without one it verifies nothing; the payment
and the subscription that one statement reads together are read together; the two reads at the
start of the activating transaction are one, because the statement after them is conditional on
the status again. `checkouts` is history: how often the payment was claimed.

### Hiring and Interviews

`Hiring` has the jobs, the applications of each seeker for each job in their order, the
invitations, and requests with their control state. An application or acceptance runs `BeginApply`
or `BeginAccept` (everything before the transaction), `LockSeeker`, `LockJob`, a check and a commit;
the row locks are derived from the positions of the requests. The edits of a job read and write
without a lock of their own, but their UPDATE waits for one. An application that is over is one
whose contract was cancelled safely (`void`); the month the limit counts is the whole behaviour.

In `Interviews` a schedule, an edit or a cancellation is one step under the lock of the Application;
what `updateInterview` and `updateEmployerApplicationStatus` read before is kept by the request.
`InterviewTimes` is `parseLocalSchedule`: the offsets seen at the hours sampled around the requested
time, the instants they propose, and which of them the zone's clocks confirm. A zone has three
offsets and two changes at any instants that are at least three hours apart, in quarters of an hour.

### ContractWork and EmployerVerification

A submission uploads its files, commits under the Contract's row lock, and deletes the files when
the commit failed or its answer was lost. The verification of an employer takes no lock at all:
each request keeps the row it read, and its UPDATE names the status it expects, or does not.

### AccountAccess and StaffAccess

One account, with a counter for its password and one for its suspensions: a session or a sign-in
under way remembers the values it saw, which is how the properties tell an old session from a
current one. `loginUser` holds the User's row lock; everything else reads, then writes under a
condition. Sending and verifying a code test only that the account is not verified, which an
anonymization makes true again: a code that was being sent while the account was anonymized is stored
after it, and whoever uses it activates the account. `user.forgotten` is history, the last code
row at the anonymization. `StaffAccess` has the
invitations of one address with the token each carries, the advisory lock of the address and the
lock of the AdminAccount.

### PlanUsage and PayoutAccounts

`PlanUsage` has the rows of one user: a unit is counted and inserted under the User's lock, the
model is asked, and the unit is released on a failure. Plans, months and the administrator's edits
change under way. In `PayoutAccounts` a quote is a signed copy of what was read; confirming it
compares versions under the lock of the wallet and a shared lock of the fee, and then reads the
account without one.

### MailCampaign, MailDelivery, Conversations and ProfileFiles

A campaign's deliveries are inserted side by side, so a failure of one leaves the others coming in
after the campaign was put back to draft. A delivery is claimed by an UPDATE naming the status it
was listed with; afterwards only its id is named. A conversation and a message are looked for, then
inserted, and the loser of the unique index reads the winner's row. A profile's file is uploaded
under a new key, named, and the key read at the start is deleted.

## Runs

| Run | Instance | Shows |
|---|---|---|
| `withdrawal` | 1 wallet, 2 withdrawals (one Paystack), 2 workers, amounts 1 and 2, credit up to 3 | the money invariants, at most one transfer request, no refund of a live payout, refinement of `WithdrawalLedger` |
| `withdrawal_reversal` | as `withdrawal`, both Flutterwave | **violated**: a reversal is booked as "after payout success" without a success, and strands the reservation |
| `withdrawal_unreadable` | as `withdrawal` | **violated**: an unreadable Paystack reply refunds a live transfer |
| `contracts` | two scenes: `ContractEscrow` (1 job of any kind, edited at any time, 2 applications, 2 attempts, 2 workers), `WebhookRecovery` (2 attempts of one contract, an event of each provider, 3 tries, 2 processes, 1 page) | one live contract of each type of a job, one funding by a paid attempt, one release, cancelled contracts take no money, archived contracts keep still, refinement of `EscrowPromise`; processed events are final, acknowledged money is not forgotten, open events are retried or given up for a reason |
| `selection_overwritten` | the `ContractEscrow` of `contracts`, 1 attempt | **violated**: a status update checked before the selection overwrites it |
| `contract_of_retyped_job` | as `selection_overwritten` | **violated**: a job edited to another kind gets a second live contract |
| `webhook_pending` | 1 attempt, 2 Flutterwave events | **violated**: the event of a pending transaction is acknowledged |
| `subscription` | 2 purchases, 2 charges on the first page and 1 on the second, 2 workers, 1 restart | payment and subscription agree, a notice acknowledged otherwise than as pending left its payment decided, refinement of `PaidPlan` |
| `subscription_ambiguous` | 1 purchase, 1 charge, 2 workers | **violated**: the notice of a page whose making had an unknown outcome is acknowledged, and its payment stays PROCESSING |
| `recruitment` | four scenes: `Hiring` (1 seeker, 2 jobs, 2 invitations, 2 requests, a limit of 2), `Interviews` (1 application, 2 interviews, 1 edit), `ContractWork` (2 files, 3 submissions), `EmployerVerification` (2 documents, 3 dossiers, 3 requests) | one open application per job, the monthly limit, no application to a job that is not approved; an interview status has a reason; one verdict per submission, whose files are stored; one decision per dossier |
| `accounts` | nine scenes: `AccountAccess` (2 requests, 2 sessions, 2 tokens, 2 codes), `StaffAccess` (2 invitations, 2 permissions), `PlanUsage` (2 plans, allowances 0 and 1, 2 months), `PayoutAccounts` (1 account, 2 sets of details, 2 fees), `MailCampaign` (2 people, 1 subscriber), `MailDelivery` (1 notification, up to 2 mails), `Conversations` (2 applications, 2 requests), `ProfileFiles` (3 files), `InterviewTimes` (2,688 zones) | sessions are current, an anonymized account is inactive until a code stored since is used; invitations and permissions; allowance and single evaluation; payouts as quoted; whole campaigns; mails sent once; messages stored once; named files stored; interviews at the time asked for |
| `liveness` | four scenes, fair: `Withdrawal` (1 withdrawal with 2 workers; 2 withdrawals with 1 worker and a batch of 1), `WebhookRecovery` (1 attempt, 2 events, 2 tries, 2 processes), `Subscription` (2 purchases with a charge each, 1 worker, 1 restart) | a settled transfer of a row in the oldest batch is applied, every stored event is decided, every successful charge is decided, also one that was cancelled before or had to wait for another subscription to expire, unless its notice was acknowledged as pending |

A *scene* is a module of a run with several: the modules of `recruitment`, `accounts` and `liveness`
share no row that one step of one of them and one of another would both touch, so the initial state
chooses the one a behaviour is about, the variables of the others keep their initial values, and the
states of the run are the sum, not the product, of theirs. `Recruitment` and `Accounts` are such
compositions for any constants; `MCRecruitment` and `MCAccounts` add only the values. That every
behaviour of these two is one of each of their modules is a theorem (`ScenesImplement`). The
two modules of `contracts` are two views of the payments of a contract, each in its own detail (see
*Modules*), and are put side by side in the same way.

Each module of the code states a type invariant, `TypeOK` (`TimesTypeOK` in `InterviewTimes`, `WebhookTypeOK` in `WebhookRecovery`). It is
proved of every one of them, alone or as the first part of its inductive invariant; no run lists it,
so that the runs ask about behaviour.

Bounds. Two workers are enough for every race between a stale and a current answer; a third would only
add a second stale one, which the guards under the lock treat alike. Two withdrawals share a wallet so
that one reservation competes with the other; two applications compete for one job; two attempts make a
retry beside a late payment; two jobs and a limit of two let the limit and the rule of one open
application bite separately. A verification takes three requests: a stale approval, a stale submission
and the current one. Bounds for the sake of TLC alone are `MaxCredited`, `MaxAttempts` (of payments, and
of codes and resets), `MaxTries`, `MaxSubmissions`, `MaxProgress`, `MaxDossiers`, `MaxRows`,
`MaxChanges`, `MaxTokens`, `MaxMonths`, `MaxVersion`, `MaxQuotes`, `MaxMails`, `MaxClock` and
`MaxCrashes`; `MAX_WEBHOOK_ATTEMPTS` (6 in the code), `ScriptBatch` (25), `Limit` and the allowances of
plans are bounds of the code, taken smaller. `MCContractPayments` has `PaymentsAreAlone` as a
constraint: of the two applications one has payments, and a second attempt only while nothing was done
with the other; the money of two applications is in different rows. In `MCLiveness` the charge on the
second page succeeds at once or is not tried. `MCSubscription` has three more, as constraints:
`RestartsAreEarly` (a restart only in behaviours where at most one charge was tried),
`SecondPageIsPlain` (the second page is asked for once, and its charge, once its link is stored,
succeeds or is not tried, with a notice that is not acknowledged as pending) and `PendingIsAlone`
(pending charges, and notices of them, only while no other charge was tried). The first page keeps every
case, and the second is there for the activation that it competes for. `CHECK_DEADLOCK FALSE` is said
where a life really ends: a released, cancelled or fully decided instance, or one whose names are used
up, has nothing left to do. The zones of `InterviewTimes` are the corners of what is in use (-12, 0, +1
and +14 hours), each change up to fifteen hours to either side of the time asked for.

Fairness. `Withdrawal` assumes that the reconciliation script is run again and again, that a run gets to
a row that is again and again among the oldest it takes, and that a worker that does not die continues.
A row behind a full batch of older rows that the provider never resolves is never looked at by the
script, since no run stamps those again: `SettledTransferIsApplied` speaks of rows that are
`InOldestBatch`, and of the others the code promises nothing unless a webhook comes; `WebhookRecovery`
that the recovery job, which `server.js` starts every five minutes, gets to a due event, that clocks
advance, and the same of workers. `Subscription` assumes that the provider sends a notice of a final
status again until it is acknowledged, as pending too, and that a verification of such a notice is now
and then answered with that status (both strong: redelivery competes with other requests), that requests
end and that a subscription's period ends; the script `expire-subscriptions.js`, which nothing
schedules, is not assumed to run, since every verification expires first. It runs with one worker: the
interleavings are the safety run's. Crashes and people are never assumed to act. The modules without
fairness promise nothing in the end: a mail that failed too often, a dossier nobody decides and a
campaign put back to draft wait for a person.

## Proofs

`Withdrawal`: the type invariant (no balance is ever negative), `AtMostOneTransferRequest`,
`NoRefundOfLivePayout`, `SuccessIsReal`, `PendingIsReserved`, `CreditIsConserved`,
`SettledOnlyReversed`, and that the specification implements `WithdrawalLedger`, for any number of
wallets, withdrawals and workers and any amounts. The inductive invariant adds to the types that at
most one worker ever holds the right to send (it is the one that claimed, and the claim is never
given back), and what each worker's remembered answer still implies about the provider's record,
which only moves forward. The money invariants are sums over finite sets; a lemma says how such a
sum changes when one row does.

`ContractEscrow`: the type invariant, `OneContractOfEachType`, `FundedByOnePaidAttempt`, `ReleasedOnce`,
`DisputeHoldsFunds`, `CancelledTakesNoMoney` and `ArchivedKeepsStill`, and that the specification
implements `EscrowPromise`, for any jobs, applications,
workers and number of attempts. The inductive invariant `Inv` is `Sound` for every application (a
contract without an escrow or cancelled has no attempt; the escrow holds or has released money if
and only if exactly one attempt succeeded; an archived contract is unfunded without an attempt, or
released without a live one) and `Remembers` for every worker (the attempt it verifies exists, and a
success it is to record was paid). `Remembers` is what makes late answers harmless: attempts never
disappear and a paid charge stays paid (`Monotone`), so an answer that was true when it was
given still is when it is recorded. `OneContractOfEachType` is inductive beside the types, because every
selection looks at all rivals of the type it creates under the Job's row lock, and no contract
changes its type; edits of the job leave it alone. With `Inv` every step is one of `EscrowPromise`
or a stutter: a payment that is recorded finds its contract unarchived and the provider paid, because
an archived unfunded contract has no attempt; a paid attempt of a released one changes nothing.

`WebhookRecovery`: the type invariant, `RetriedOrGivenUp`, `ProcessedIsFinal`, `OneHolder` and
`AcknowledgedIsFunded`, for any payments, events, processes and number of attempts. `OneHolder`
follows from `Claims`: the tokens of the workers on one event are distinct and never above its
attempts, so a new claim's token is new. `AcknowledgedIsFunded` needs `Acknowledged`: a failed
payment has a failed transaction, what a worker is to record is still true of the transaction, and
a worker goes to mark an event only if the transaction failed or the escrow is funded.

`Subscription`: the type invariant, `OneActiveSubscription`, `ActiveIsPaid`, `EndedStaysEnded`,
`RowsAgree` and `AcknowledgedIsDecided`, and that the specification implements `PaidPlan`, for any
purchases, charges, workers and restarts. Its
invariants come in layers, each used by the next. `Types` adds to the types what a verifying worker
remembers: a charge of its purchase, and on which side the provider's answer was. `Locks`: a row
has one holder, what the holder saw as it claimed still holds, and at most one activation of the
seeker is about to commit, with no ACTIVE subscription beside it. From it follows `SubscriptionMoves`,
all that a step may do to a subscription, then the first three properties, and with them that every step
is one of `PaidPlan` or a stutter. `Pages`: while a payment was claimed once, its one caller finds
it PROCESSING and without a link, and nobody else does; so the unconditional updates of the code hit
the row they expect. `Notices`: a failure on a checkout page names a charge that did not succeed, and
a worker about to acknowledge a successful charge otherwise than as pending has seen a decision, which
is never taken back. Of a notice acknowledged as pending there is nothing to prove: `subscription_ambiguous`
shows that its payment may stay as it is.

`Hiring`: the type invariant, `OneOpenApplication`, `MonthlyLimitKept` and `AppliedWhileApproved`, for
any seekers, jobs, invitations, requests and limit. What an application checked stays true until
it commits: `CheckedIsOpen` (its job is approved) because an edit of the job waits for the job's row
lock, `CheckedMayApply` (no open application, the month's count below the limit) because only the
holder of the seeker's lock, and there is one (`OneHolder`), adds an application of the seeker. The
limit is a cardinality of a set of positions in sequences; lemmas say how it changes with one append.

`AccountAccess`: the type invariant, `WorkingSessionsAreCurrent` and `InactiveUntilNewCode`, for any
sessions, tokens and requests. `SignInIsCurrent` says
that a sign-in under way, which holds the User's lock, compared the password that is still the
account's; `LiveIsCurrent` carries it over to the sessions. For an
anonymized account `Out` says that a code, if there is one, was stored after the anonymization, which
deletes those before it; so a verification that read an older row finds its condition false when it
writes, and an inactive account has no sign-in to complete.

The theorems of `Recruitment_proofs` and `Accounts_proofs` are about the instances of their modules
(`I!Spec`, `W!Spec`, ...), for any constants that `ScenesAssumption` admits. Each rests on an inductive
invariant of its module:

* `InterviewIsScheduled` (`InterviewInv`): if a scheduled interview would put its application back
  to INTERVIEW when it is cancelled, the employer had put it there.
* `OneVerdictEach` and `ReportedFilesAreStored` (`WorkInv`): the files of a request are its own and those
  of a reported submission are no request's, so no clean-up reaches them.
* `OneDecisionPerSubmission` (`VerificationInv`) is inductive beside the types: the UPDATE names the
  status it expects, so a stale request changes the row only from the status that was decided upon.
* `AcceptedWithLastToken` and `PermissionsAsAsked` (`StaffInv`): a change of permissions is alone on its
  account, and what it read is what is granted when it writes.
* `EvaluatedOnce` and `AllowanceKept` (`UsageInv`): one request is between its count and its insert,
  and until then the month has room; what was evaluated is COMPLETED and stays so.
* `PaysAsQuoted` (`PayoutInv`): a quote shows the account as it was at the quote's version, so equal
  versions mean equal details; the shared lock keeps the charge until the commit.
* `CampaignIsWhole` (`CampaignInv`): one request sends; what is queued and what it has still to queue
  are as many as the campaign reports.
* `SentOnce` (`DeliveryInv`): a delivery that is not doubtful is worked on by one batch, and has not been
  mailed before it was handed over.
* `StoredOnce` (`TalkInv`): a message between its insert and its commit has a key that no other has,
  stored or inserted; whatever an answer named is stored.
* `NamedFilesAreStored` (`FileInv`): a file has one request that may name it and no two uses, and
  what a request is going to delete the profile does not name any more.
* `ScheduledAsAsked` (`TimesInv`): an instant that shows the requested time has one of the zone's three
  offsets; the first is in force at the earliest sample, the third at the latest, and the second, in
  force for three hours at least, at one of the samples, which are three hours apart. So it is
  among the matches.

`PropertiesHold` puts them together for the compositions, which are what the runs check: it states every
invariant and action property of the runs `recruitment` and `accounts`, those of `Hiring` and
`AccountAccess` among them.

Assumptions are the modules' ASSUMEs on their constants, evaluated by TLC in the runs.
`ScenesAssumption` is the one of a composition: the sets that a CHOOSE of the model picks from are not
empty, allowances and bounds are numbers, and the sets that are counted are finite.
`TimesAssumption` is that local times are integers.

Every invariant and action property that a run expects to hold is proved. With TLC stay liveness
(`SettledTransferIsApplied`, `EveryEventIsDecided`, `SuccessIsDecided`), since the prover handles neither
fairness nor ENABLED, the six violations, and whatever would need induction over data, which
the prover's backends cannot do.

## Findings

1. `withdrawal_reversal` - `applyOutcome` credits a reversed payout whose success it never saw
   without releasing the pending reservation.
2. `withdrawal_unreadable` - a Paystack 2xx reply that cannot be read is taken for a rejection.
3. `selection_overwritten` - a selected candidate can be rejected without cancelling the contract;
   the payment of a Contract Job then fails after the employer has paid.
4. `contract_of_retyped_job` - the kind of a job with a live contract may be edited, and the selection
   for the new kind does not see the contract of the old one.
5. `webhook_pending` - with an earlier failed transaction on the same checkout, the event of a
   pending one is acknowledged, and its later success is ignored as a duplicate.
6. `subscription_ambiguous` - a payment left PROCESSING by an initialisation of unknown outcome is
   neither claimed nor cancelled nor decided again, and the notice that its page was paid is
   acknowledged. (That a notice whose lookup is still pending is acknowledged too has the same cause:
   `pending: true` is no reason for the handler to have the notice sent again.)

Two more follow from the models and have no run of their own:

* Two requests with one idempotency key may both ask the provider for a checkout page
  (`seekerSubscription.service.js:320`): the claim tests the status alone, and storing the link sets the
  status back to PENDING. The second link overwrites whatever was recorded meanwhile; `RowsAgree`,
  `AcknowledgedIsDecided` and `SuccessIsDecided` therefore speak of purchases whose page was asked
  for once.
* A code whose sending overlaps an anonymization (`emailVerification.service.js:121`), or that is asked
  for the placeholder address after it, activates the anonymized account when it is used;
  `InactiveUntilNewCode` says that nothing older does.

## Not modelled

* **Paystack webhook dispatcher** (`paystackWebhook`, `withdrawal.controller`): it verifies a
  signature, stores a row and calls the handlers, which model their own deliveries. A delivery is
  dropped as a duplicate once its row exists, even if its first handling failed
  (`withdrawal.controller.js:36`); the models let every delivery through.
* **Google sign-in** (`googleOAuth.service.js`): it cannot complete at this commit. Lines 110-111 use
  the API of openid-client before version 6, which `package.json` asks for, and lines 270, 398 and
  411 use a delegate `oauthAccount` where the model `OAuthAccount` gives `oAuthAccount`; no callback
  prepares a registration and no account gets a session in this way.
* **Batch starvation** (`withdrawalExecution.service.js:574`): see *Fairness*. Nothing in the repository
  promises otherwise, so there is no property to refute.
* **Checkout initialisation** (`contractPayment.service.js:214`): which request holds the claim in
  `Payment.metadata`, which an unknown outcome of the provider's call leaves for ever, and the link beside it,
  which `transitionPaymentStatus` may overwrite from what it read earlier. A payment may be charged at
  any time after its first page in the model.
* **Order of the row locks of contracts** (`contract.service.js:1049`): PostgreSQL ends such a deadlock
  by aborting one transaction, which leaves no trace; the transactions are atomic in the model.
* **Permissions in use** (`adminPermission.service.js:101`): a permission is checked when a request
  arrives and used when its transaction commits. `StaffAccess` has the changes of permissions, not
  the requests that use them; the code promises no more than the check at arrival.
* **A second refusal of an invitation** (`jobInvitation.service.js:113`) fails on the unique index.
  `Hiring` models it, and no property speaks of it: nothing says what should happen.
* **Job alerts** (`jobAlerts.service.js:47`): the schedule is one timestamp; a job created before a run
  and approved after it is in no later run's window.
* **Transfer metadata**: only the association of a transfer id is modelled; the fields a country asks
  for are data.
* **Currency conversion** is disabled in this version: nothing calls it, and it throws.
* **Wallet provisioning** upserts rows with zero balances; the models start with them.
* **Profiles and CV import, listings and dashboards, the HTTP layer, the schema**: single-row
  edits, queries, the wording of text, and routes without protocol state. Unique keys and row locks
  are stated in the modules that rely on them.

Limits of what is modelled: time zones change in quarters of an hour, at most twice around a schedule, three hours apart at least.
Subscription rows for Paystack, which no new purchase has, are left out. Fees and currencies are data.

Worth adding next: `ContractCheckout`, the claim and the link in `Payment.metadata` (two requests never
open two checkouts), and `EscrowLocks`, the transactions of `ContractEscrow` cut at their row locks
and shown to implement the atomic ones.
