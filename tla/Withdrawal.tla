----------------------------- MODULE Withdrawal -----------------------------
(***************************************************************************)
(* A seeker's withdrawal: the reservation taken from the wallet, the one   *)
(* transfer request sent to the payment provider, and the outcome that is  *)
(* applied to the wallet when the provider's answer, a webhook, the        *)
(* reconciliation script or an administrator reports it.                   *)
(*                                                                         *)
(* Source: seekerWithdrawal.service.js, withdrawalExecution.service.js,    *)
(* the withdrawal part of flutterwaveWebhook.service.js, and               *)
(* withdrawal.controller.js.  A PostgreSQL transaction that takes the row  *)
(* lock of the Withdrawal (or of the Wallet) first is one atomic step;     *)
(* every stretch between two awaits outside such a transaction is a step   *)
(* of its own, taken by a worker: an HTTP request, a webhook delivery or a *)
(* script run.                                                             *)
(*                                                                         *)
(* Amounts are whole units of the wallet's currency.  A payout and its fee *)
(* are settled together by the code, so the gross amount stands for both.  *)
(***************************************************************************)
EXTENDS Integers, FiniteSets

CONSTANTS
    Wallets,       \* wallets, one per (seeker, currency)
    Withdrawals,   \* withdrawal rows; a row's idempotency key is unique
    Workers,       \* concurrent requests, webhook deliveries and script runs
    Amounts,       \* gross amounts a seeker may ask for
    WalletOf,      \* the wallet a withdrawal draws on
    ProviderOf,    \* the payout provider recorded for each withdrawal
    LegacyAmount,  \* gross amount of the PAYSTACK rows, which predate this code
    ScriptBatch,   \* how many rows one run of the reconciliation script takes (25)
    MaxCredited,   \* bound: the total credited to one wallet
    NoWithdrawal   \* what an idle worker works on

Providers == {"FLUTTERWAVE", "PAYSTACK"}

ASSUME ConstantsAssumption ==
    /\ IsFiniteSet(Withdrawals)
    /\ Amounts \subseteq Nat \ {0}
    /\ WalletOf \in [Withdrawals -> Wallets]
    /\ ProviderOf \in [Withdrawals -> Providers]
    /\ LegacyAmount \in Nat \ {0}
    /\ ScriptBatch \in Nat \ {0}
    /\ MaxCredited \in Nat
    /\ NoWithdrawal \notin Withdrawals

VARIABLES
    wallet,      \* availableBalance and pendingWithdrawalBalance of each wallet
    withdrawal,  \* status and gross amount of each Withdrawal row
    processingAt,\* the place of each withdrawal in the order of claims; 0 before its claim
    attempt,     \* status of the payout attempt of each withdrawal
    associated,  \* withdrawals whose payout attempt has the provider's transfer id
    ledger,      \* FinancialLedgerEntry rows of withdrawals
    transfer,    \* what the provider holds under the withdrawal's reference
    worker,      \* control state of each worker
    credited,    \* history: total that releases of escrows credited to each wallet
    requests     \* history: transfer requests sent for each withdrawal

vars == <<wallet, withdrawal, processingAt, attempt, associated, ledger, transfer, worker,
          credited, requests>>

database == <<wallet, withdrawal, processingAt, attempt, associated, ledger>>
outside == <<transfer, credited, requests>>

-----------------------------------------------------------------------------
(* State *)

\* CANCELLED is one of the code's final statuses, but nothing ever writes it.
Open == {"PENDING", "PROCESSING"}
Final == {"SUCCESSFUL", "FAILED"}
Statuses == {"none"} \cup Open \cup Final

\* What a status query or a transfer reply says, normalised; "PROCESSING" covers
\* every state the provider has not settled.
Outcomes == {"PROCESSING", "SUCCESSFUL", "FAILED", "REVERSED"}

\* The provider's own record: "none" until a transfer request reached it, and NEW (for
\* NEW, PENDING, QUEUED, RETRYING...) until the provider settled it.
TransferStates == {"none", "NEW", "SUCCESSFUL", "FAILED", "REVERSED"}

Steps == {"idle", "claim", "send", "await", "associate", "reject", "unknown",
          "reconcile", "lookup", "recover", "recovered", "apply"}

\* SUCCESSFUL stands for WITHDRAWAL_SUCCESSFUL with WITHDRAWAL_FEE.  RELEASED and
\* REVERSED are the two forms of WITHDRAWAL_FAILED_REVERSAL: the reservation released
\* after a failure, and the payout "reversed after payout success" together with
\* WITHDRAWAL_FEE_REVERSAL.  Both carry the idempotency key <id>:failed-reversal.
EntryTypes == {"RESERVED", "SUCCESSFUL", "RELEASED", "REVERSED"}

Idle == [pc |-> "idle", wd |-> NoWithdrawal, outcome |-> "PROCESSING"]

TypeOK ==
    /\ wallet \in [Wallets -> [available : Nat, pending : Nat]]
    /\ withdrawal \in [Withdrawals -> [status : Statuses, amount : Nat]]
    /\ processingAt \in [Withdrawals -> Nat]
    /\ attempt \in [Withdrawals -> {"none", "PROCESSING"} \cup Final]
    /\ associated \subseteq Withdrawals
    /\ ledger \subseteq Withdrawals \X EntryTypes
    /\ transfer \in [Withdrawals -> TransferStates]
    /\ worker \in [Workers -> [pc : Steps, wd : Withdrawals \cup {NoWithdrawal},
                               outcome : Outcomes]]
    /\ \A p \in Workers : worker[p].pc # "idle" => worker[p].wd \in Withdrawals
    /\ credited \in [Wallets -> Nat]
    /\ requests \in [Withdrawals -> Nat]

-----------------------------------------------------------------------------
(* Helpers *)

status(d) == withdrawal[d].status
amountOf(d) == withdrawal[d].amount

RowsOf(w, statuses) == {d \in Withdrawals : WalletOf[d] = w /\ status(d) \in statuses}

\* The gross total of a set of rows: the number of their units, each unit <<d, i>>
\* counted once.  (A cardinality, so that the provers can reason about it.)
Units(D) == UNION {{d} \X (1 .. amountOf(d)) : d \in D}
Total(D) == Cardinality(Units(D))

Legacy == {d \in Withdrawals : ProviderOf[d] = "PAYSTACK"}

At(p, step) == worker[p].pc = step
Start(p, step, d) ==
    /\ At(p, "idle")
    /\ worker' = [worker EXCEPT ![p] = [Idle EXCEPT !.pc = step, !.wd = d]]
Goto(p, step) == worker' = [worker EXCEPT ![p].pc = step]
GotoWith(p, step, outcome) ==
    worker' = [worker EXCEPT ![p].pc = step, ![p].outcome = outcome]
Finish(p) == worker' = [worker EXCEPT ![p] = Idle]

\* What leaves the pending balance of d's wallet, and what returns to its available one.
Settle(d, fromPending, toAvailable) ==
    wallet' = [wallet EXCEPT ![WalletOf[d]].pending = @ - fromPending,
                             ![WalletOf[d]].available = @ + toAvailable]

ReservationCovers(d) == wallet[WalletOf[d]].pending >= amountOf(d)

\* New rows always name FLUTTERWAVE.  PAYSTACK rows were reserved by an earlier version
\* and may still be waiting for execution.
Init ==
    /\ withdrawal = [d \in Withdrawals |->
                        IF d \in Legacy THEN [status |-> "PENDING", amount |-> LegacyAmount]
                                        ELSE [status |-> "none", amount |-> 0]]
    /\ wallet = [w \in Wallets |-> [available |-> 0, pending |-> Total(RowsOf(w, {"PENDING"}))]]
    /\ credited = [w \in Wallets |-> Total(RowsOf(w, {"PENDING"}))]
    /\ ledger = Legacy \X {"RESERVED"}
    /\ processingAt = [d \in Withdrawals |-> 0]
    /\ attempt = [d \in Withdrawals |-> "none"]
    /\ associated = {}
    /\ transfer = [d \in Withdrawals |-> "none"]
    /\ worker = [p \in Workers |-> Idle]
    /\ requests = [d \in Withdrawals |-> 0]

-----------------------------------------------------------------------------
(* The seeker, and the release of escrows *)

\* A release of contract funds credits the wallet (adminRelease.service.js).
CreditWallet(w, a) ==
    /\ credited[w] + a <= MaxCredited
    /\ wallet' = [wallet EXCEPT ![w].available = @ + a]
    /\ credited' = [credited EXCEPT ![w] = @ + a]
    /\ UNCHANGED <<withdrawal, processingAt, attempt, associated, ledger, transfer, worker,
                   requests>>

CanReserve(w, a) == a <= wallet[w].available

\* One transaction under the wallet's row lock.  The worker that setImmediate starts
\* afterwards is BeginExecute.  A second request with the same key finds the row.
CreateSeekerWithdrawal(d, a) ==
    LET w == WalletOf[d] IN
    /\ status(d) = "none"
    /\ ProviderOf[d] = "FLUTTERWAVE"
    /\ CanReserve(w, a)
    /\ wallet' = [wallet EXCEPT ![w].available = @ - a, ![w].pending = @ + a]
    /\ withdrawal' = [withdrawal EXCEPT ![d] = [status |-> "PENDING", amount |-> a]]
    /\ ledger' = ledger \cup {<<d, "RESERVED">>}
    /\ UNCHANGED <<processingAt, attempt, associated, worker, outside>>

-----------------------------------------------------------------------------
(* Execution: claim the row, call the provider, record the answer *)

\* setImmediate after the creation, or the process-withdrawals script.
BeginExecute(p, d) ==
    /\ status(d) = "PENDING"
    /\ Start(p, "claim", d)
    /\ UNCHANGED <<database, outside>>

\* Mutant: a row another worker is processing is claimed again.
ClaimableWhileOpen(d) == status(d) \in Open
Claimable(d) == status(d) = "PENDING"

Claimed == {d \in Withdrawals : processingAt[d] # 0}

\* The clock that stamps processingAt is taken to follow the order of the claims.

claimWithdrawal(p) ==
    LET d == worker[p].wd IN
    /\ At(p, "claim")
    /\ IF Claimable(d)
       THEN /\ withdrawal' = [withdrawal EXCEPT ![d].status = "PROCESSING"]
            /\ processingAt' = [processingAt EXCEPT ![d] = 1 + Cardinality(Claimed)]
            /\ attempt' = [attempt EXCEPT ![d] = "PROCESSING"]
            /\ associated' = associated \ {d}
            /\ Goto(p, "send")
       ELSE Finish(p) /\ UNCHANGED <<withdrawal, processingAt, attempt, associated>>
    /\ UNCHANGED <<wallet, ledger, outside>>

\* The destination fails a check (account disabled, snapshot missing or unreadable):
\* the transaction rolls back and the row stays PENDING.
ClaimRefused(p) ==
    /\ At(p, "claim")
    /\ Finish(p)
    /\ UNCHANGED <<database, outside>>

\* The HTTP request leaves; the provider registers a transfer or does not.  A reference
\* it already knows does not make a second transfer.
SendTransfer(p) ==
    LET d == worker[p].wd IN
    /\ At(p, "send")
    /\ requests' = [requests EXCEPT ![d] = @ + 1]
    /\ \/ transfer[d] = "none" /\ transfer' = [transfer EXCEPT ![d] = "NEW"]
       \/ UNCHANGED transfer
    /\ Goto(p, "await")
    /\ UNCHANGED <<database, credited>>

\* normalizeFlutterwaveTransferStatus and normalizePaystackTransferStatus.
Normalized(s) == IF s = "NEW" THEN "PROCESSING" ELSE s

\* The reply names the transfer and its status at that moment.
ReplyWithTransfer(p) ==
    LET d == worker[p].wd IN
    /\ At(p, "await")
    /\ transfer[d] # "none"
    /\ GotoWith(p, "associate", Normalized(transfer[d]))
    /\ UNCHANGED <<database, outside>>

\* Flutterwave accepted the transfer but the reply holds no id: only failure reasons are
\* written, and applyOutcome refuses a result that has no transfer id.
ReplyWithoutId(p) ==
    LET d == worker[p].wd IN
    /\ At(p, "await")
    /\ ProviderOf[d] = "FLUTTERWAVE"
    /\ transfer[d] # "none"
    /\ Finish(p)
    /\ UNCHANGED <<database, outside>>

\* Mutant: a network failure counts as a rejection.
AnyErrorIsARejection(d) == TRUE
\* Both providers reject a request with a definite answer.  requestPaystack also takes a
\* 2xx reply to /transfer that it cannot read for a rejection (retryable is false).
TakenForRejection(d) == transfer[d] = "none" \/ ProviderOf[d] = "PAYSTACK"

ReplyRejected(p) ==
    /\ At(p, "await")
    /\ TakenForRejection(worker[p].wd)
    /\ Goto(p, "reject")
    /\ UNCHANGED <<database, outside>>

\* A timeout, a 5xx, or an unreadable 2xx from Flutterwave.
ReplyUnknown(p) ==
    /\ At(p, "await")
    /\ Goto(p, "unknown")
    /\ UNCHANGED <<database, outside>>

\* A Paystack attempt is bound to the transfer's code here but to its numeric id by
\* applyOutcome, so an outcome that was applied first leaves a conflicting id.  The
\* Flutterwave id is the same everywhere.
BoundToAnotherId(d) == ProviderOf[d] = "PAYSTACK" /\ attempt[d] \in Final

\* A compare-and-set on the attempt's providerReference.  A conflict ends up in the catch
\* block, like an unknown outcome.
associateAttemptTransfer(p) ==
    LET d == worker[p].wd IN
    /\ At(p, "associate")
    /\ IF BoundToAnotherId(d)
       THEN Goto(p, "unknown") /\ UNCHANGED associated
       ELSE /\ associated' = associated \cup {d}
            /\ IF worker[p].outcome = "PROCESSING" THEN Finish(p) ELSE Goto(p, "apply")
    /\ UNCHANGED <<wallet, withdrawal, processingAt, attempt, ledger, outside>>

\* Mutant: an unknown outcome closes the attempt.
UnknownClosesAttempt == "FAILED"
\* An attempt whose outcome is unknown stays PROCESSING, for reconciliation.
AwaitingReconciliation == "PROCESSING"

\* The catch block writes the attempt without looking at its status.
RecordUnknownOutcome(p) ==
    LET d == worker[p].wd IN
    /\ At(p, "unknown")
    /\ attempt' = [attempt EXCEPT ![d] = AwaitingReconciliation]
    /\ Finish(p)
    /\ UNCHANGED <<wallet, withdrawal, processingAt, associated, ledger, outside>>

-----------------------------------------------------------------------------
(* applyOutcome: one transaction under the Withdrawal's row lock *)

ApplySuccess(d) ==
    /\ Settle(d, amountOf(d), 0)
    /\ withdrawal' = [withdrawal EXCEPT ![d].status = "SUCCESSFUL"]
    /\ attempt' = [attempt EXCEPT ![d] = "SUCCESSFUL"]
    /\ ledger' = ledger \cup {<<d, "SUCCESSFUL">>}

ApplyFailure(d) ==
    /\ Settle(d, amountOf(d), amountOf(d))
    /\ withdrawal' = [withdrawal EXCEPT ![d].status = "FAILED"]
    /\ attempt' = [attempt EXCEPT ![d] = "FAILED"]
    /\ ledger' = ledger \cup {<<d, "RELEASED">>}

\* Mutant: a reversal also takes the amount out of the pending balance.
ReversalReleasesReservation(d) == amountOf(d)
\* A reversal assumes that the payout's success took the reservation already.
ReleasedByReversal(d) == 0

ApplyReversal(d) ==
    /\ Settle(d, ReleasedByReversal(d), amountOf(d))
    /\ withdrawal' = [withdrawal EXCEPT ![d].status = "FAILED"]
    /\ attempt' = [attempt EXCEPT ![d] = "FAILED"]
    /\ ledger' = ledger \cup {<<d, "REVERSED">>}

\* Mutant: an outcome is applied to a row that has been settled already.
NeverSettled(d, outcome) == FALSE
\* Mutant: a reversal is applied even to a row that was refunded.
SettledUnlessReversal(d, outcome) == status(d) \in Final /\ outcome # "REVERSED"
AlreadySettled(d, outcome) ==
    /\ status(d) \in Final
    /\ ~(outcome = "REVERSED" /\ status(d) = "SUCCESSFUL")

\* A Flutterwave result counts only when the attempt has the transfer's id; for a
\* result that is not a reversal the attempt must still be open.
MatchesAttempt(d, outcome) ==
    ProviderOf[d] = "FLUTTERWAVE" =>
        /\ d \in associated
        /\ outcome = "REVERSED" \/ attempt[d] = "PROCESSING"

Applied(d, outcome) ==
    \/ outcome = "SUCCESSFUL" /\ ApplySuccess(d)
    \/ outcome = "FAILED" /\ ApplyFailure(d)
    \/ outcome = "REVERSED" /\ ApplyReversal(d)

\* A worker that holds an outcome applies it, or finds that it may not.
applyOutcome(p) ==
    LET d == worker[p].wd
        outcome == worker[p].outcome IN
    /\ At(p, "apply")
    /\ Finish(p)
    /\ IF /\ ~AlreadySettled(d, outcome)
          /\ MatchesAttempt(d, outcome)
          /\ outcome = "REVERSED" \/ ReservationCovers(d)
       THEN Applied(d, outcome)
       ELSE UNCHANGED <<wallet, withdrawal, attempt, ledger>>
    /\ UNCHANGED <<processingAt, associated, outside>>

\* The rejection of a request: FAILED with preSubmissionFailure.
applyRejection(p) ==
    LET d == worker[p].wd IN
    /\ At(p, "reject")
    /\ Finish(p)
    /\ IF /\ ~AlreadySettled(d, "FAILED")
          /\ ~(ProviderOf[d] = "FLUTTERWAVE" /\ d \in associated)
          /\ ReservationCovers(d)
       THEN ApplyFailure(d)
       ELSE UNCHANGED <<wallet, withdrawal, attempt, ledger>>
    /\ UNCHANGED <<processingAt, associated, outside>>

-----------------------------------------------------------------------------
(* Reconciliation, webhooks and recovery *)

\* An administrator, or a Paystack webhook.
BeginReconcile(p, d) ==
    /\ status(d) # "none"
    /\ Start(p, "reconcile", d)
    /\ UNCHANGED <<database, outside>>

\* Rows that the script takes before d, however often it took them already: a lookup that
\* settles nothing leaves processingAt as it is.
Older(d) == {x \in Withdrawals : /\ status(x) = "PROCESSING"
                                 /\ processingAt[x] < processingAt[d]}
InOldestBatch(d) == status(d) = "PROCESSING" /\ Cardinality(Older(d)) < ScriptBatch

\* The reconcile-withdrawals script, when it comes to d in its batch.
reconcilePendingWithdrawals(p, d) ==
    /\ InOldestBatch(d)
    /\ Start(p, "reconcile", d)
    /\ UNCHANGED <<database, outside>>

\* A Flutterwave webhook that carries the transfer's id, reference and amount: it is
\* matched to the row by the reference the claim wrote, binds the id to the attempt, and
\* goes on to reconcile.  It may be delivered any number of times.
FlutterwaveWithdrawalWebhook(p, d) ==
    /\ ProviderOf[d] = "FLUTTERWAVE"
    /\ transfer[d] # "none"
    /\ status(d) \notin {"none", "PENDING"}
    /\ Start(p, "reconcile", d)
    /\ associated' = associated \cup {d}
    /\ UNCHANGED <<wallet, withdrawal, processingAt, attempt, ledger, outside>>

Reconcilable(d) ==
    /\ status(d) \in {"PROCESSING", "SUCCESSFUL"}
    /\ ProviderOf[d] = "FLUTTERWAVE" => d \in associated

reconcileWithdrawal(p) ==
    /\ At(p, "reconcile")
    /\ IF Reconcilable(worker[p].wd) THEN Goto(p, "lookup") ELSE Finish(p)
    /\ UNCHANGED <<database, outside>>

\* The status query; its answer is used after the await.
LookUpTransfer(p) ==
    LET d == worker[p].wd IN
    /\ At(p, "lookup")
    /\ IF transfer[d] = "none" \/ Normalized(transfer[d]) = "PROCESSING"
       THEN Finish(p)
       ELSE GotoWith(p, "apply", Normalized(transfer[d]))
    /\ UNCHANGED <<database, outside>>

Recoverable(d) ==
    /\ status(d) = "PROCESSING"
    /\ ProviderOf[d] = "FLUTTERWAVE"
    /\ attempt[d] = "PROCESSING"

\* An administrator submits a transfer id for a withdrawal of unknown outcome.
recoverFlutterwaveTransfer(p, d) ==
    /\ Recoverable(d)
    /\ Start(p, "recover", d)
    /\ UNCHANGED <<database, outside>>

RecoverLookUp(p) ==
    LET d == worker[p].wd IN
    /\ At(p, "recover")
    /\ IF transfer[d] = "none"
       THEN Finish(p)
       ELSE GotoWith(p, "recovered", Normalized(transfer[d]))
    /\ UNCHANGED <<database, outside>>

\* The transaction that checks the row again and binds the id.
RecoverAssociate(p) ==
    LET d == worker[p].wd IN
    /\ At(p, "recovered")
    /\ IF Recoverable(d)
       THEN /\ associated' = associated \cup {d}
            /\ IF worker[p].outcome = "PROCESSING" THEN Finish(p) ELSE Goto(p, "apply")
       ELSE Finish(p) /\ UNCHANGED associated
    /\ UNCHANGED <<wallet, withdrawal, processingAt, attempt, ledger, outside>>

-----------------------------------------------------------------------------
(* The provider, crashes, and the specification *)

ProviderSettles(d, outcome) ==
    /\ transfer[d] = "NEW"
    /\ transfer' = [transfer EXCEPT ![d] = outcome]
    /\ UNCHANGED <<database, worker, credited, requests>>

\* A payout that succeeded is sent back, by the receiving bank for instance.
ProviderReverses(d) ==
    /\ transfer[d] = "SUCCESSFUL"
    /\ transfer' = [transfer EXCEPT ![d] = "REVERSED"]
    /\ UNCHANGED <<database, worker, credited, requests>>

\* The process dies, or an await throws and nothing catches it.
Crash(p) ==
    /\ ~At(p, "idle")
    /\ Finish(p)
    /\ UNCHANGED <<database, outside>>

Environment ==
    \/ \E w \in Wallets, a \in Amounts : CreditWallet(w, a)
    \/ \E d \in Withdrawals, a \in Amounts : CreateSeekerWithdrawal(d, a)
    \/ \E d \in Withdrawals, o \in {"SUCCESSFUL", "FAILED"} : ProviderSettles(d, o)
    \/ \E d \in Withdrawals : ProviderReverses(d)

StartOn(p, d) ==
    \/ BeginExecute(p, d)
    \/ BeginReconcile(p, d)
    \/ reconcilePendingWithdrawals(p, d)
    \/ FlutterwaveWithdrawalWebhook(p, d)
    \/ recoverFlutterwaveTransfer(p, d)

Continue(p) ==
    \/ claimWithdrawal(p)
    \/ ClaimRefused(p)
    \/ SendTransfer(p)
    \/ ReplyWithTransfer(p)
    \/ ReplyWithoutId(p)
    \/ ReplyRejected(p)
    \/ ReplyUnknown(p)
    \/ associateAttemptTransfer(p)
    \/ RecordUnknownOutcome(p)
    \/ applyOutcome(p)
    \/ applyRejection(p)
    \/ reconcileWithdrawal(p)
    \/ LookUpTransfer(p)
    \/ RecoverLookUp(p)
    \/ RecoverAssociate(p)

Next ==
    \/ Environment
    \/ \E p \in Workers, d \in Withdrawals : StartOn(p, d)
    \/ \E p \in Workers : Continue(p) \/ Crash(p)

Spec == Init /\ [][Next]_vars

-----------------------------------------------------------------------------
(* Fairness, for the liveness property only *)

\* Each step of a worker is a callback that the event loop of a live process runs (weak
\* fairness).  A crash may interrupt any one reconciliation of a row but not every one of
\* them at the same point (strong fairness).  The reconcile-withdrawals script is run again and
\* again, and comes to each row that is again and again in its batch, which is all it
\* promises: a row with ScriptBatch older unresolved ones is never looked at by it.
\* Nothing is assumed of administrators, webhooks, or the provider.
Fairness ==
    /\ \A p \in Workers : WF_vars(Continue(p))
    /\ \A d \in Withdrawals :
         /\ SF_vars(\E p \in Workers : reconcilePendingWithdrawals(p, d))
         /\ SF_vars(\E p \in Workers : worker[p].wd = d /\ reconcileWithdrawal(p))
         /\ SF_vars(\E p \in Workers : worker[p].wd = d /\ LookUpTransfer(p))
         /\ SF_vars(\E p \in Workers : worker[p].wd = d /\ applyOutcome(p))

FairSpec == Spec /\ Fairness

-----------------------------------------------------------------------------
(* Properties *)

\* Rows whose payout was reversed before its success was ever recorded.
Stranded(w) == {d \in Withdrawals : /\ WalletOf[d] = w
                                    /\ <<d, "REVERSED">> \in ledger
                                    /\ <<d, "SUCCESSFUL">> \notin ledger}

\* The pending balance of a wallet is, unit by unit, the reservations of its withdrawals
\* that are still open, and those that a reversal left behind (applyOutcome credits the
\* available balance of such a row without releasing its reservation).
PendingIsReserved ==
    \A w \in Wallets : wallet[w].pending = Total(RowsOf(w, Open) \cup Stranded(w))

\* Money is neither made nor lost: what releases credited to a wallet is available,
\* reserved by an open withdrawal, or paid out, each unit exactly once.
CreditIsConserved ==
    \A w \in Wallets :
        credited[w] = wallet[w].available + Total(RowsOf(w, Open \cup {"SUCCESSFUL"}))

\* However many workers, crashes, retries and script runs there are, the provider is
\* asked for the transfer of a withdrawal at most once.
AtMostOneTransferRequest == \A d \in Withdrawals : requests[d] <= 1

\* A seeker whose money was given back is not paid as well: a FAILED Flutterwave
\* withdrawal has no transfer that succeeded or that the provider may still complete.
NoRefundOfLivePayout ==
    \A d \in Withdrawals :
        ProviderOf[d] = "FLUTTERWAVE" /\ status(d) = "FAILED"
            => transfer[d] \in {"none", "FAILED", "REVERSED"}

\* A withdrawal is reported as paid only if the provider paid it.
SuccessIsReal ==
    \A d \in Withdrawals :
        status(d) = "SUCCESSFUL" => transfer[d] \in {"SUCCESSFUL", "REVERSED"}

\* A settled withdrawal changes only when a success turns into the provider's reversal,
\* whatever late replies, webhooks and lookups still say.
SettledOnlyReversed ==
    [][\A d \in Withdrawals :
         status(d) \in Final /\ status(d)' # status(d) =>
             /\ status(d) = "SUCCESSFUL"
             /\ status(d)' = "FAILED"
             /\ transfer[d] = "REVERSED"]_vars

\* Once the attempt has its transfer id, the provider settled the transfer, and the row is
\* among the oldest that the script takes, the outcome reaches the withdrawal, although
\* lookups may be stale and workers may die.  Behind a full batch of older rows that
\* nobody can resolve there is no such promise.
SettledTransferIsApplied ==
    \A d \in Withdrawals :
        /\ InOldestBatch(d)
        /\ d \in associated
        /\ transfer[d] \in {"SUCCESSFUL", "FAILED", "REVERSED"}
        ~> status(d) \in Final

\* Seen from the wallet's owner, all of this is WithdrawalLedger: one reservation, one
\* payment, at most one return.
HoldingOf(d) ==
    CASE status(d) = "none" -> "none"
      [] status(d) \in Open -> "reserved"
      [] status(d) = "SUCCESSFUL" -> "paid"
      [] status(d) = "FAILED" -> "returned"

Ledger == INSTANCE WithdrawalLedger WITH
              balance <- [w \in Wallets |-> wallet[w].available],
              holding <- [d \in Withdrawals |-> HoldingOf(d)],
              amount <- [d \in Withdrawals |-> amountOf(d)],
              deposited <- credited

\* The detailed withdrawal implements the promise: no balance grows but by a credit or by
\* the one return of a reserved or paid amount, crashes, stale lookups and duplicate
\* deliveries included.
ImplementsLedger == Ledger!Spec

\* The code's own description of a REVERSED entry: "withdrawal reversed after payout
\* success".  It does not hold: see the run that refutes it.
ReversedAfterSuccess ==
    \A d \in Withdrawals : <<d, "REVERSED">> \in ledger => <<d, "SUCCESSFUL">> \in ledger

\* A rejection releases the reservation of a request that the provider rejected.  It
\* does not hold for PAYSTACK, where an unreadable reply counts as a rejection.
RefundedOnlyIfNotLive ==
    \A d \in Withdrawals :
        status(d) = "FAILED" => transfer[d] \in {"none", "FAILED", "REVERSED"}
=============================================================================
