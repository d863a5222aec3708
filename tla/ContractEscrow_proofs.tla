----------------------- MODULE ContractEscrow_proofs -----------------------
(***************************************************************************)
(* Theorems about ContractEscrow, for any jobs, applications, workers and  *)
(* number of funding attempts.  The inductive invariant is a statement     *)
(* about one application (its contract, escrow, payments and dispute) and  *)
(* one about what a worker remembers.                                      *)
(***************************************************************************)
EXTENDS ContractEscrow, FiniteSetTheorems, TLAPS

Secured == Held \cup {"RELEASED"}

\* The actions on one contract that no worker takes.
Administration(a) ==
    \/ AcceptMonthlyApplication(a)
    \/ \E party \in Parties : confirmContract(a, party)
    \/ cancelEmployerFreelanceContract(a)
    \/ archiveEmployerContract(a)
    \/ submitContractCompletion(a)
    \/ confirmContractCompletion(a)
    \/ submitContractDispute(a)
    \/ \E status \in {"UNDER_REVIEW", "RESOLVED"} : resolveContractDispute(a, status)
    \/ releaseContractFunds(a)

-----------------------------------------------------------------------------
(* Types *)

LEMMA TypeInit ==
    ASSUME EscrowAssumption, Init
    PROVE  TypeOK
  <1>1. 1 \in Attempts
    BY DEF EscrowAssumption, Attempts
  <1> QED
    BY <1>1 DEF Init, TypeOK, Idle, Kinds, ContractTypes, ApplicationStatuses, ContractStatuses, WorkStatuses,
       EscrowStatuses, Held, DisputeStatuses, Unresolved, PaymentStatuses, Live, ChargeStates,
       Parties

LEMMA TypeSelection ==
    ASSUME TypeOK, NEW a \in Applications,
           AcceptFreelanceApplication(a) \/ selectContractJobApplication(a)
    PROVE  TypeOK'
  <1>1. PICK status \in {"ACCEPTED", "PAYMENT_PENDING"} :
           kindOf(a) \in ContractTypes /\ CreateContract(a, status)
    BY DEF AcceptFreelanceApplication, selectContractJobApplication, ContractTypes
  <1>2. /\ application' \in [Applications -> ApplicationStatuses]
        /\ type' \in [Applications -> ContractTypes \cup {"none"}]
        /\ contract' \in [Applications -> ContractStatuses]
        /\ escrow' \in [Applications -> EscrowStatuses]
    BY <1>1 DEF TypeOK, CreateContract, SetContract, SetEscrow, SetApplication,
       ApplicationStatuses, ContractStatuses, EscrowStatuses
  <1> QED
    BY <1>1, <1>2 DEF TypeOK, CreateContract

LEMMA TypeEdit ==
    ASSUME TypeOK, NEW j \in Jobs, NEW k \in Kinds, EditJob(j, k)
    PROVE  TypeOK'
  <1>1. kind' \in [Jobs -> Kinds]
    BY DEF TypeOK, EditJob
  <1> QED
    BY <1>1 DEF TypeOK, EditJob, money

LEMMA TypeAdministration ==
    ASSUME TypeOK, NEW a \in Applications, Administration(a)
    PROVE  TypeOK'
  <1>1. ASSUME NEW party \in Parties, confirmContract(a, party) PROVE TypeOK'
    <2>1. confirmed' \in [Applications -> SUBSET Parties]
      BY <1>1 DEF TypeOK, confirmContract
    <2>2. contract' \in [Applications -> ContractStatuses]
      BY <1>1 DEF TypeOK, confirmContract, SetContract, ContractStatuses
    <2> QED
      BY <1>1, <2>1, <2>2 DEF TypeOK, confirmContract, money
  <1>2. CASE cancelEmployerFreelanceContract(a)
    BY <1>2 DEF TypeOK, cancelEmployerFreelanceContract, SetContract, SetWork, SetEscrow,
       SetApplication, ContractStatuses, WorkStatuses, EscrowStatuses, ApplicationStatuses
  <1>3. CASE archiveEmployerContract(a)
    BY <1>3 DEF TypeOK, archiveEmployerContract, money
  <1>4. CASE submitContractCompletion(a)
    BY <1>4 DEF TypeOK, submitContractCompletion, SetWork, WorkStatuses, selection, money
  <1>5. CASE confirmContractCompletion(a)
    BY <1>5 DEF TypeOK, confirmContractCompletion, SetWork, SetEscrow, WorkStatuses,
       EscrowStatuses, Held, selection
  <1>6. CASE submitContractDispute(a)
    BY <1>6 DEF TypeOK, submitContractDispute, SetEscrow, DisputeStatuses, Unresolved,
       EscrowStatuses, Held, selection
  <1>7. ASSUME NEW status \in {"UNDER_REVIEW", "RESOLVED"}, resolveContractDispute(a, status)
        PROVE  TypeOK'
    BY <1>7 DEF TypeOK, resolveContractDispute, DisputeStatuses, Unresolved, selection, money
  <1>8. CASE releaseContractFunds(a)
    BY <1>8 DEF TypeOK, releaseContractFunds, SetEscrow, SetWork, EscrowStatuses, WorkStatuses,
       selection
  <1>9. CASE AcceptMonthlyApplication(a)
    BY <1>9 DEF TypeOK, AcceptMonthlyApplication, SetApplication, ApplicationStatuses, money
  <1> QED
    BY <1>1, <1>2, <1>3, <1>4, <1>5, <1>6, <1>7, <1>8, <1>9 DEF Administration

LEMMA TypeAttempt ==
    ASSUME TypeOK, NEW a \in Applications, NEW n \in Attempts, OnAttempt(a, n)
    PROVE  TypeOK'
  <1>1. CASE initializeContractPayment(a, n)
    BY <1>1 DEF TypeOK, initializeContractPayment, SetPayment, PaymentStatuses, Live, selection
  <1>2. ASSUME NEW state \in {"PENDING", "FAILED", "PAID"}, ChargeMoves(a, n, state)
        PROVE  TypeOK'
    BY <1>2 DEF TypeOK, ChargeMoves, ChargeStates, selection, money
  <1>3. ASSUME NEW p \in Workers, verifyContractPayment(p, a, n)
        PROVE  TypeOK'
    BY <1>3, EscrowAssumption DEF TypeOK, verifyContractPayment, Idle, At, selection, money
  <1> QED
    BY <1>1, <1>2, <1>3 DEF OnAttempt

\* The part of TypeOK about workers, and the part about everything else.
WorkerTypes ==
    /\ worker \in [Workers -> [pc : {"idle", "update", "verify", "record"},
                               app : Applications \cup {NoApplication},
                               attempt : Attempts,
                               value : Outcomes \cup {"none", "APPLIED", "REJECTED"}]]
    /\ \A p \in Workers :
         /\ worker[p].pc # "idle" => worker[p].app \in Applications
         /\ worker[p].pc = "update" => worker[p].value \in {"APPLIED", "REJECTED"}
         /\ worker[p].pc = "record" => worker[p].value \in Outcomes

RowTypes ==
    /\ kind \in [Jobs -> Kinds]
    /\ application \in [Applications -> ApplicationStatuses]
    /\ type \in [Applications -> ContractTypes \cup {"none"}]
    /\ contract \in [Applications -> ContractStatuses]
    /\ archived \subseteq Applications
    /\ confirmed \in [Applications -> SUBSET Parties]
    /\ work \in [Applications -> WorkStatuses]
    /\ escrow \in [Applications -> EscrowStatuses]
    /\ dispute \in [Applications -> DisputeStatuses]
    /\ payment \in [Applications -> [Attempts -> PaymentStatuses]]
    /\ charge \in [Applications -> [Attempts -> ChargeStates]]
    /\ credits \in [Applications -> Nat]

LEMMA TypeSplit == TypeOK <=> WorkerTypes /\ RowTypes
  BY DEF TypeOK, WorkerTypes, RowTypes

LEMMA FinishKeepsWorkerTypes ==
    ASSUME WorkerTypes, EscrowAssumption, NEW p \in Workers, Finish(p)
    PROVE  WorkerTypes'
  <1>1. 1 \in Attempts
    BY DEF EscrowAssumption, Attempts
  <1> QED
    BY <1>1 DEF WorkerTypes, Finish, Idle

\* What a worker that is on its way works on.
LEMMA WorkerFacts ==
    ASSUME TypeOK, NEW p \in Workers, ~At(p, "idle")
    PROVE  /\ worker[p].app \in Applications
           /\ worker[p].attempt \in Attempts
           /\ At(p, "update") => worker[p].value \in {"APPLIED", "REJECTED"}
           /\ At(p, "record") => worker[p].value \in Outcomes
  BY DEF TypeOK, At

LEMMA PaymentWritten ==
    ASSUME payment \in [Applications -> [Attempts -> PaymentStatuses]],
           NEW a \in Applications, NEW n \in Attempts, NEW status \in PaymentStatuses,
           SetPayment(a, n, status)
    PROVE  /\ payment' \in [Applications -> [Attempts -> PaymentStatuses]]
           /\ \A b \in Applications, m \in Attempts :
                payment'[b][m] = IF b = a /\ m = n THEN status ELSE payment[b][m]
  <1>1. payment' = [payment EXCEPT ![a] = [payment[a] EXCEPT ![n] = status]]
    BY DEF SetPayment
  <1>2. /\ payment[a] \in [Attempts -> PaymentStatuses]
        /\ [payment[a] EXCEPT ![n] = status] \in [Attempts -> PaymentStatuses]
    OBVIOUS
  <1>3. \A b \in Applications :
           payment'[b] = IF b = a THEN [payment[a] EXCEPT ![n] = status] ELSE payment[b]
    BY <1>1
  <1>4. \A m \in Attempts :
           [payment[a] EXCEPT ![n] = status][m] = IF m = n THEN status ELSE payment[a][m]
    BY <1>2
  <1> QED
    BY <1>1, <1>2, <1>3, <1>4

LEMMA TypeContinue ==
    ASSUME TypeOK, EscrowAssumption, NEW p \in Workers, Continue(p)
    PROVE  TypeOK'
  <1>1. 1 \in Attempts
    BY DEF EscrowAssumption, Attempts
  <1>2. WorkerTypes /\ RowTypes
    BY TypeSplit
  <1>3. ASSUME NEW a \in Applications, NEW status \in {"APPLIED", "REJECTED"},
               updateEmployerApplicationStatus(p, a, status)
        PROVE  TypeOK'
    BY <1>1, <1>3 DEF TypeOK, updateEmployerApplicationStatus, Idle, selection, money
  <1>4. CASE WriteApplicationStatus(p)
    <2>1. worker[p].app \in Applications /\ worker[p].value \in ApplicationStatuses
      BY <1>4, WorkerFacts DEF WriteApplicationStatus, At, ApplicationStatuses
    <2>2. RowTypes'
      BY <1>2, <1>4, <2>1 DEF RowTypes, WriteApplicationStatus, SetApplication, money
    <2> QED
      BY <1>2, <1>4, <2>2, FinishKeepsWorkerTypes, EscrowAssumption
      DEF WriteApplicationStatus, TypeOK, WorkerTypes, RowTypes
  <1>5. CASE VerifyCharge(p)
    <2>1. \A c : Verification(c) \in Outcomes /\ "PROCESSING" \in Outcomes
      BY DEF Verification, Outcomes
    <2>2. PICK outcome \in Outcomes :
             worker' = [worker EXCEPT ![p].pc = "record", ![p].value = outcome]
      BY <1>5, <2>1 DEF VerifyCharge
    <2>3. worker[p].app \in Applications
      BY <1>5, WorkerFacts DEF VerifyCharge, At
    <2>4. WorkerTypes'
      BY <1>2, <2>2, <2>3 DEF WorkerTypes
    <2>5. RowTypes'
      BY <1>2, <1>5 DEF RowTypes, VerifyCharge, selection, money
    <2> QED
      BY <2>4, <2>5 DEF TypeOK, WorkerTypes, RowTypes
  <1>6. CASE TransitionPaymentStatus(p)
    <2>1. PICK a \in Applications, n \in Attempts, value \in {"PROCESSING", "FAILED"} :
             a = worker[p].app /\ n = worker[p].attempt /\ value = worker[p].value
      BY <1>6, WorkerFacts DEF TransitionPaymentStatus, At, Outcomes
    <2>2. SetPayment(a, n, value) \/ UNCHANGED payment
      BY <1>6, <2>1 DEF TransitionPaymentStatus
    <2>3. payment' \in [Applications -> [Attempts -> PaymentStatuses]]
      BY <1>2, <2>2, PaymentWritten DEF RowTypes, PaymentStatuses, Live
    <2>4. RowTypes'
      BY <1>2, <1>6, <2>3 DEF RowTypes, TransitionPaymentStatus, selection
    <2> QED
      BY <1>2, <1>6, <2>4, FinishKeepsWorkerTypes, EscrowAssumption
      DEF TransitionPaymentStatus, TypeOK, WorkerTypes, RowTypes
  <1>7. CASE FundEscrow(p)
    <2>1. PICK a \in Applications, n \in Attempts : a = worker[p].app /\ n = worker[p].attempt
      BY <1>7, WorkerFacts DEF FundEscrow, At
    <2>2. SetPayment(a, n, "SUCCESSFUL") \/ UNCHANGED payment
      BY <1>7, <2>1 DEF FundEscrow
    <2>3. payment' \in [Applications -> [Attempts -> PaymentStatuses]]
      BY <1>2, <2>2, PaymentWritten DEF RowTypes, PaymentStatuses
    <2>4. RowTypes'
      BY <1>2, <1>7, <2>1, <2>3 DEF RowTypes, FundEscrow, SetEscrow, SetContract, SetWork,
         SetApplication, EscrowStatuses, Held, ContractStatuses, WorkStatuses,
         ApplicationStatuses
    <2> QED
      BY <1>2, <1>7, <2>4, FinishKeepsWorkerTypes, EscrowAssumption
      DEF FundEscrow, TypeOK, WorkerTypes, RowTypes
  <1>8. CASE Crash(p)
    <2>1. RowTypes'
      BY <1>2, <1>8 DEF RowTypes, Crash, selection, money
    <2> QED
      BY <1>2, <1>8, <2>1, FinishKeepsWorkerTypes, EscrowAssumption
      DEF Crash, TypeOK, WorkerTypes, RowTypes
  <1> QED
    BY <1>3, <1>4, <1>5, <1>6, <1>7, <1>8 DEF Continue

\* Next, sorted by what the actions touch.
LEMMA NextCases ==
    ASSUME Next
    PROVE  \/ \E j \in Jobs, k \in Kinds : EditJob(j, k)
           \/ \E a \in Applications :
                AcceptFreelanceApplication(a) \/ selectContractJobApplication(a) \/ Administration(a)
           \/ \E a \in Applications, n \in Attempts : OnAttempt(a, n)
           \/ \E p \in Workers : Continue(p)
  BY DEF Next, OnContract, Administration

\* Every variable keeps its type: in particular a worker that is to write an answer has one.
THEOREM TypeOKHolds == Spec => []TypeOK
  <1>1. Init => TypeOK
    BY EscrowAssumption, TypeInit
  <1>2. TypeOK /\ [Next]_vars => TypeOK'
    <2>1. ASSUME TypeOK, Next PROVE TypeOK'
      BY <2>1, EscrowAssumption, NextCases, TypeEdit, TypeSelection,
         TypeAdministration, TypeAttempt, TypeContinue
    <2>2. ASSUME TypeOK, UNCHANGED vars PROVE TypeOK'
      BY <2>2 DEF TypeOK, vars
    <2> QED
      BY <2>1, <2>2
  <1> QED
    BY <1>1, <1>2, PTL DEF Spec

-----------------------------------------------------------------------------
(* The inductive invariant *)

\* One application: what its contract, escrow, payments, charges and dispute say of each
\* other.
Sound(a) ==
    /\ contract[a] = "none" <=> escrow[a] = "none"
    /\ contract[a] = "CANCELLED" <=> escrow[a] = "CANCELLED"
    /\ contract[a] \in {"none", "CANCELLED"} => NoAttempt(a)
    /\ escrow[a] \in Secured => contract[a] = "ACTIVE"
    /\ escrow[a] \in Secured <=> Paid(a)
    /\ \A n, m \in Attempts :
         payment[a][n] = "SUCCESSFUL" /\ payment[a][m] = "SUCCESSFUL" => n = m
    /\ \A n \in Attempts : payment[a][n] = "SUCCESSFUL" => charge[a][n] = "PAID"
    /\ \A n \in Attempts : charge[a][n] # "none" => payment[a][n] # "none"
    /\ credits[a] = IF escrow[a] = "RELEASED" THEN 1 ELSE 0
    /\ escrow[a] = "RELEASED" => work[a] = "RELEASED"
    /\ dispute[a] # "none" => escrow[a] = "DISPUTED"
    /\ a \in archived => \/ escrow[a] \in {"UNFUNDED", "CANCELLED"} /\ NoAttempt(a)
                         \/ escrow[a] = "RELEASED" /\ ~LiveAttempt(a)

\* One worker: the attempt it verifies exists, and a success it is to record was paid.
Remembers(p) ==
    /\ worker[p].pc \in {"verify", "record"} =>
          payment[worker[p].app][worker[p].attempt] # "none"
    /\ worker[p].pc = "record" /\ worker[p].value = "SUCCESSFUL" =>
          charge[worker[p].app][worker[p].attempt] = "PAID"

Inv ==
    /\ \A a \in Applications : Sound(a)
    /\ \A p \in Workers : Remembers(p)

\* What no step does: an attempt disappear, or a paid charge change.
Monotone ==
    \A a \in Applications, n \in Attempts :
        /\ payment[a][n] # "none" => payment'[a][n] # "none"
        /\ charge[a][n] = "PAID" => charge'[a][n] = "PAID"

Untouched(a) ==
    /\ contract'[a] = contract[a]
    /\ escrow'[a] = escrow[a]
    /\ payment'[a] = payment[a]
    /\ charge'[a] = charge[a]
    /\ credits'[a] = credits[a]
    /\ work'[a] = work[a]
    /\ dispute'[a] = dispute[a]
    /\ a \in archived' <=> a \in archived

LEMMA UntouchedIsSound ==
    ASSUME NEW a \in Applications, Sound(a), Untouched(a)
    PROVE  Sound(a)'
  BY DEF Sound, Untouched, NoAttempt, Paid, LiveAttempt

LEMMA MonotoneRemembers ==
    ASSUME TypeOK, NEW p \in Workers, Remembers(p), Monotone,
           worker'[p] = worker[p] \/ worker'[p] = Idle
    PROVE  Remembers(p)'
  <1>1. CASE worker'[p] = Idle
    BY <1>1 DEF Remembers, Idle
  <1>2. CASE worker'[p] = worker[p]
    <2>1. worker[p].pc # "idle" => worker[p].app \in Applications /\ worker[p].attempt \in Attempts
      BY DEF TypeOK
    <2> QED
      BY <1>2, <2>1 DEF Remembers, Monotone
  <1> QED
    BY <1>1, <1>2

\* A step of the parties on one contract.
LEMMA SelectionIsSound ==
    ASSUME TypeOK, Inv, NEW a \in Applications,
           AcceptFreelanceApplication(a) \/ selectContractJobApplication(a)
    PROVE  /\ Sound(a)'
           /\ \A b \in Applications \ {a} : Untouched(b)
           /\ Monotone
           /\ UNCHANGED worker
  <1>1. /\ contract[a] = "none" /\ contract' = [contract EXCEPT ![a] = "PENDING"]
        /\ escrow' = [escrow EXCEPT ![a] = "UNFUNDED"]
        /\ UNCHANGED <<archived, work, dispute, payment, charge, credits, worker>>
    BY DEF AcceptFreelanceApplication, selectContractJobApplication, CreateContract, SetContract,
       SetEscrow
  <1>2. contract'[a] = "PENDING" /\ escrow'[a] = "UNFUNDED" /\ escrow[a] = "none" /\ NoAttempt(a)
    BY <1>1 DEF TypeOK, Inv, Sound
  <1>3. Sound(a)'
    BY <1>1, <1>2 DEF Inv, Sound, NoAttempt, Paid, LiveAttempt, Secured, Held
  <1>4. ASSUME NEW b \in Applications \ {a} PROVE Untouched(b)
    BY <1>1 DEF TypeOK, Untouched
  <1> QED
    BY <1>1, <1>3, <1>4 DEF Monotone

LEMMA AdministrationIsSound ==
    ASSUME TypeOK, Inv, NEW a \in Applications, Administration(a)
    PROVE  /\ Sound(a)'
           /\ \A b \in Applications \ {a} : Untouched(b)
           /\ Monotone
           /\ UNCHANGED worker
  <1>0. Sound(a)
    BY DEF Inv
  <1>1. ASSUME NEW party \in Parties, confirmContract(a, party)
        PROVE  Sound(a)' /\ \A b \in Applications \ {a} : Untouched(b)
    <2>1. /\ contract[a] = "PENDING" /\ contract'[a] \in {"PENDING", "ACTIVE"}
          /\ UNCHANGED <<archived, work, escrow, payment, credits, dispute, charge>>
          /\ \A b \in Applications \ {a} : contract'[b] = contract[b]
      BY <1>1 DEF confirmContract, SetContract, TypeOK, money
    <2> QED
      BY <1>0, <2>1 DEF Sound, Untouched, NoAttempt, Paid, LiveAttempt
  <1>2. ASSUME cancelEmployerFreelanceContract(a)
        PROVE  Sound(a)' /\ \A b \in Applications \ {a} : Untouched(b)
    <2>1. /\ escrow[a] = "UNFUNDED" /\ NoAttempt(a) /\ dispute[a] = "none"
          /\ contract'[a] = "CANCELLED" /\ escrow'[a] = "CANCELLED"
          /\ UNCHANGED <<archived, dispute, payment, charge, credits>>
          /\ \A b \in Applications \ {a} : /\ contract'[b] = contract[b]
                                           /\ escrow'[b] = escrow[b]
                                           /\ work'[b] = work[b]
      BY <1>2 DEF cancelEmployerFreelanceContract, PossiblyCancellable, NothingAttempted,
         SetContract, SetEscrow, SetWork, TypeOK
    <2> QED
      BY <1>0, <2>1 DEF Sound, Untouched, NoAttempt, Paid, LiveAttempt, Secured, Held
  <1>3. ASSUME archiveEmployerContract(a)
        PROVE  Sound(a)' /\ \A b \in Applications \ {a} : Untouched(b)
    <2>1. /\ archived' = archived \cup {a}
          /\ UNCHANGED <<contract, work, escrow, payment, credits, dispute, charge>>
          /\ \/ escrow[a] \in {"UNFUNDED", "CANCELLED"} /\ NoAttempt(a)
             \/ escrow[a] = "RELEASED" /\ ~LiveAttempt(a)
      BY <1>3 DEF archiveEmployerContract, SafelyCancelled, PossiblyCancellable, SafelyReleased,
         money
    <2> QED
      BY <1>0, <2>1 DEF Sound, Untouched, NoAttempt, Paid, LiveAttempt
  <1>4. ASSUME submitContractCompletion(a)
        PROVE  Sound(a)' /\ \A b \in Applications \ {a} : Untouched(b)
    <2>1. /\ escrow[a] = "FUNDED"
          /\ UNCHANGED <<archived, contract, escrow, payment, credits, dispute, charge>>
          /\ \A b \in Applications \ {a} : work'[b] = work[b]
      BY <1>4 DEF submitContractCompletion, SetWork, TypeOK, selection, money
    <2> QED
      BY <1>0, <2>1 DEF Sound, Untouched, NoAttempt, Paid, LiveAttempt
  <1>5. ASSUME confirmContractCompletion(a)
        PROVE  Sound(a)' /\ \A b \in Applications \ {a} : Untouched(b)
    <2>1. /\ escrow[a] = "FUNDED" /\ escrow'[a] = "RELEASE_ELIGIBLE"
          /\ UNCHANGED <<archived, contract, payment, credits, dispute, charge>>
          /\ \A b \in Applications \ {a} : work'[b] = work[b] /\ escrow'[b] = escrow[b]
      BY <1>5 DEF confirmContractCompletion, Confirmable, SetWork, SetEscrow, TypeOK, selection
    <2> QED
      BY <1>0, <2>1 DEF Sound, Untouched, NoAttempt, Paid, LiveAttempt, Secured, Held
  <1>6. ASSUME submitContractDispute(a)
        PROVE  Sound(a)' /\ \A b \in Applications \ {a} : Untouched(b)
    <2>1. /\ escrow[a] \in {"FUNDED", "RELEASE_ELIGIBLE"} /\ escrow'[a] = "DISPUTED"
          /\ UNCHANGED <<archived, contract, work, payment, credits, charge>>
          /\ \A b \in Applications \ {a} : dispute'[b] = dispute[b] /\ escrow'[b] = escrow[b]
      BY <1>6 DEF submitContractDispute, SetEscrow, TypeOK, selection
    <2> QED
      BY <1>0, <2>1 DEF Sound, Untouched, NoAttempt, Paid, LiveAttempt, Secured, Held
  <1>7. ASSUME NEW status \in {"UNDER_REVIEW", "RESOLVED"}, resolveContractDispute(a, status)
        PROVE  Sound(a)' /\ \A b \in Applications \ {a} : Untouched(b)
    <2>1. /\ dispute[a] # "none"
          /\ UNCHANGED <<archived, contract, work, escrow, payment, credits, charge>>
          /\ \A b \in Applications \ {a} : dispute'[b] = dispute[b]
      BY <1>7 DEF resolveContractDispute, Unresolved, TypeOK, selection, money
    <2> QED
      BY <1>0, <2>1 DEF Sound, Untouched, NoAttempt, Paid, LiveAttempt
  <1>8. ASSUME releaseContractFunds(a)
        PROVE  Sound(a)' /\ \A b \in Applications \ {a} : Untouched(b)
    <2>1. /\ dispute[a] = "none" /\ escrow[a] = "RELEASE_ELIGIBLE" /\ escrow'[a] = "RELEASED"
          /\ work'[a] = "RELEASED" /\ credits'[a] = credits[a] + 1
          /\ UNCHANGED <<archived, contract, dispute, payment, charge>>
          /\ \A b \in Applications \ {a} : /\ work'[b] = work[b]
                                           /\ escrow'[b] = escrow[b]
                                           /\ credits'[b] = credits[b]
      BY <1>8 DEF releaseContractFunds, ReleaseEligible, SetEscrow, SetWork, TypeOK, selection
    <2>2. credits'[a] = 1
      BY <1>0, <2>1 DEF Sound
    <2> QED
      BY <1>0, <2>1, <2>2 DEF Sound, Untouched, NoAttempt, Paid, LiveAttempt, Secured, Held
  <1>9. ASSUME AcceptMonthlyApplication(a)
         PROVE  Sound(a)' /\ \A b \in Applications : Untouched(b)
    <2>1. UNCHANGED <<archived, contract, work, escrow, payment, credits, dispute, charge>>
      BY <1>9 DEF AcceptMonthlyApplication, money
    <2> QED
      BY <1>0, <2>1 DEF Sound, Untouched, NoAttempt, Paid, LiveAttempt
  <1>10. UNCHANGED <<payment, charge, worker>>
    BY DEF Administration, AcceptMonthlyApplication, confirmContract,
       cancelEmployerFreelanceContract, archiveEmployerContract, submitContractCompletion,
       confirmContractCompletion, submitContractDispute, resolveContractDispute,
       releaseContractFunds, selection, money
  <1> QED
    BY <1>1, <1>2, <1>3, <1>4, <1>5, <1>6, <1>7, <1>8, <1>9, <1>10 DEF Administration, Monotone

\* Writing a status that is not SUCCESSFUL over one that is not either keeps what the
\* successes say.
LEMMA UnpaidStatusIsSound ==
    ASSUME TypeOK, NEW a \in Applications, NEW n \in Attempts, Sound(a),
           NEW status \in {"PENDING", "PROCESSING", "FAILED"},
           SetPayment(a, n, status),
           payment[a][n] # "SUCCESSFUL", escrow[a] = "UNFUNDED", a \notin archived,
           contract[a] \notin {"none", "CANCELLED"},
           UNCHANGED <<contract, escrow, charge, credits, work, dispute, archived>>
    PROVE  /\ Sound(a)'
           /\ \A b \in Applications \ {a} : Untouched(b)
           /\ Monotone
  <1>1. /\ payment' \in [Applications -> [Attempts -> PaymentStatuses]]
        /\ \A b \in Applications, m \in Attempts :
             payment'[b][m] = IF b = a /\ m = n THEN status ELSE payment[b][m]
    BY PaymentWritten DEF TypeOK, PaymentStatuses, Live
  <1>2. \A b \in Applications \ {a} : payment'[b] = payment[b]
    BY DEF SetPayment, TypeOK
  <1>3. ~Paid(a) /\ ~Paid(a)'
    BY <1>1 DEF Sound, Paid, Secured, Held
  <1>4. \A m \in Attempts : charge[a][m] # "none" => payment'[a][m] # "none"
    BY <1>1 DEF Sound
  <1>5. \A m \in Attempts : payment'[a][m] # "SUCCESSFUL"
    BY <1>3 DEF Paid
  <1>6. escrow[a] \notin Secured
    BY DEF Secured, Held
  <1>7. Sound(a)'
    BY <1>3, <1>4, <1>5, <1>6 DEF Sound
  <1>8. \A b \in Applications \ {a} : Untouched(b)
    BY <1>2 DEF Untouched
  <1>9. Monotone
    BY <1>1 DEF Monotone
  <1> QED
    BY <1>7, <1>8, <1>9

LEMMA AttemptIsSound ==
    ASSUME TypeOK, Inv, NEW a \in Applications, NEW n \in Attempts, OnAttempt(a, n)
    PROVE  Inv'
  <1>0. Sound(a) /\ 1 \in Attempts
    BY EscrowAssumption DEF Inv, EscrowAssumption, Attempts
  <1>1. CASE initializeContractPayment(a, n)
    <2>1. /\ payment[a][n] \in {"none", "FAILED"} /\ SetPayment(a, n, "PENDING")
          /\ contract[a] \notin {"none", "CANCELLED"} /\ escrow[a] = "UNFUNDED" /\ a \notin archived
          /\ UNCHANGED <<contract, escrow, charge, credits, work, dispute, archived, worker>>
      BY <1>1 DEF initializeContractPayment, Fundable, selection
    <2>2. Sound(a)' /\ (\A b \in Applications \ {a} : Untouched(b)) /\ Monotone
      BY <1>0, <2>1, UnpaidStatusIsSound
    <2> QED
      BY <2>1, <2>2, UntouchedIsSound, MonotoneRemembers DEF Inv
  <1>2. ASSUME NEW state \in {"PENDING", "FAILED", "PAID"}, ChargeMoves(a, n, state)
        PROVE  Inv'
    <2>1. /\ payment[a][n] # "none" /\ charge[a][n] # "PAID"
          /\ charge' = [charge EXCEPT ![a] = [charge[a] EXCEPT ![n] = state]]
          /\ UNCHANGED <<contract, escrow, payment, credits, work, dispute, archived, worker>>
      BY <1>2 DEF ChargeMoves, selection, money
    <2>2. /\ \A b \in Applications \ {a} : charge'[b] = charge[b]
          /\ \A m \in Attempts : charge'[a][m] = IF m = n THEN state ELSE charge[a][m]
      BY <2>1 DEF TypeOK
    <2>3. payment[a][n] # "SUCCESSFUL"
      BY <1>0, <2>1 DEF Sound
    <2>4. /\ \A m \in Attempts : payment[a][m] = "SUCCESSFUL" => charge'[a][m] = "PAID"
          /\ \A m \in Attempts : charge'[a][m] # "none" => payment[a][m] # "none"
      BY <1>0, <2>1, <2>2, <2>3 DEF Sound
    <2>5. Sound(a)'
      BY <1>0, <2>1, <2>4 DEF Sound, NoAttempt, Paid, LiveAttempt
    <2>6. \A b \in Applications \ {a} : Untouched(b)
      BY <2>1, <2>2 DEF Untouched
    <2>7. Monotone
      BY <2>1, <2>2 DEF Monotone
    <2> QED
      BY <2>1, <2>5, <2>6, <2>7, UntouchedIsSound, MonotoneRemembers DEF Inv
  <1>3. ASSUME NEW p \in Workers, verifyContractPayment(p, a, n)
        PROVE  Inv'
    <2> DEFINE Begun == [Idle EXCEPT !.pc = "verify", !.app = a, !.attempt = n]
    <2>0. /\ Begun.pc = "verify" /\ Begun.app = a /\ Begun.attempt = n /\ Begun.value = "none"
      BY DEF Idle
    <2>1. /\ payment[a][n] # "none"
          /\ worker' = [worker EXCEPT ![p] = Begun]
          /\ UNCHANGED <<contract, escrow, payment, charge, credits, work, dispute, archived>>
      BY <1>3 DEF verifyContractPayment, selection, money
    <2>2. (\A b \in Applications : Untouched(b)) /\ Monotone
      BY <2>1 DEF Untouched, Monotone
    <2> HIDE DEF Begun
    <2>3. Remembers(p)'
      BY <2>0, <2>1 DEF Remembers, TypeOK
    <2>4. \A q \in Workers \ {p} : worker'[q] = worker[q]
      BY <2>1 DEF TypeOK
    <2> QED
      BY <2>2, <2>3, <2>4, UntouchedIsSound, MonotoneRemembers DEF Inv
  <1> QED
    BY <1>1, <1>2, <1>3 DEF OnAttempt

LEMMA FundingIsSound ==
    ASSUME TypeOK, Inv, NEW p \in Workers, FundEscrow(p)
    PROVE  /\ \A b \in Applications : Sound(b)'
           /\ Monotone
  <1>1. PICK a \in Applications, n \in Attempts : a = worker[p].app /\ n = worker[p].attempt
    BY WorkerFacts DEF FundEscrow, At
  <1>2. Sound(a) /\ payment[a][n] # "none" /\ charge[a][n] = "PAID"
    BY <1>1 DEF Inv, Remembers, FundEscrow, At
  <1>3. UNCHANGED <<archived, credits, dispute, charge>>
    BY DEF FundEscrow
  <1>4. CASE ~MayFund(a, n)
    <2>1. UNCHANGED <<payment, escrow, contract, work>>
      BY <1>1, <1>4 DEF FundEscrow
    <2>2. (\A b \in Applications : Untouched(b)) /\ Monotone
      BY <1>3, <2>1 DEF Untouched, Monotone
    <2> QED
      BY <2>2, UntouchedIsSound DEF Inv
  <1>5. CASE MayFund(a, n)
    <2>1. /\ SetPayment(a, n, "SUCCESSFUL") /\ escrow[a] = "UNFUNDED" /\ payment[a][n] # "SUCCESSFUL"
          /\ escrow' = [escrow EXCEPT ![a] = "FUNDED"]
          /\ contract' = [contract EXCEPT ![a] = "ACTIVE"]
          /\ \A b \in Applications \ {a} : work'[b] = work[b]
      BY <1>1, <1>5 DEF FundEscrow, MayFund, AwaitsFunding, SetEscrow, SetContract, SetWork, TypeOK
    <2>2. /\ \A b \in Applications, m \in Attempts :
               payment'[b][m] = IF b = a /\ m = n THEN "SUCCESSFUL" ELSE payment[b][m]
          /\ \A b \in Applications \ {a} : payment'[b] = payment[b]
      BY <2>1, PaymentWritten DEF TypeOK, PaymentStatuses, SetPayment
    <2>3. escrow'[a] = "FUNDED" /\ contract'[a] = "ACTIVE"
      BY <2>1 DEF TypeOK
    <2>4. \A m \in Attempts : payment'[a][m] = "SUCCESSFUL" <=> m = n
      BY <1>2, <2>1, <2>2 DEF Sound, Paid, Secured, Held
    <2>5. a \notin archived
      BY <1>2, <2>1 DEF Sound, NoAttempt
    <2>6. dispute[a] = "none" /\ credits[a] = 0
      BY <1>2, <2>1 DEF Sound
    <2>7. \A m \in Attempts : charge[a][m] # "none" => payment'[a][m] # "none"
      BY <1>2, <2>2 DEF Sound
    <2>8. Paid(a)'
      BY <2>4 DEF Paid
    <2>9. Sound(a)'
      BY <1>2, <1>3, <2>3, <2>4, <2>5, <2>6, <2>7, <2>8 DEF Sound, Secured, Held
    <2>10. \A b \in Applications \ {a} : Untouched(b)
      BY <1>3, <2>1, <2>2 DEF Untouched, TypeOK
    <2>11. Monotone
      BY <1>3, <2>2 DEF Monotone
    <2> QED
      BY <2>9, <2>10, <2>11, UntouchedIsSound DEF Inv
  <1> QED
    BY <1>4, <1>5

LEMMA ContinueIsSound ==
    ASSUME TypeOK, Inv, NEW p \in Workers, Continue(p)
    PROVE  Inv'
  <1>1. ASSUME NEW a \in Applications, NEW status \in {"APPLIED", "REJECTED"},
               updateEmployerApplicationStatus(p, a, status)
        PROVE  Inv'
    <2> DEFINE Begun == [Idle EXCEPT !.pc = "update", !.app = a, !.value = status]
    <2>0. Begun.pc = "update"
      BY DEF Idle
    <2>1. /\ worker' = [worker EXCEPT ![p] = Begun]
          /\ UNCHANGED <<contract, escrow, payment, charge, credits, work, dispute, archived>>
      BY <1>1 DEF updateEmployerApplicationStatus, selection, money
    <2>2. (\A b \in Applications : Untouched(b)) /\ Monotone
      BY <2>1 DEF Untouched, Monotone
    <2> HIDE DEF Begun
    <2>3. Remembers(p)' /\ \A q \in Workers \ {p} : worker'[q] = worker[q]
      BY <2>0, <2>1 DEF Remembers, TypeOK
    <2> QED
      BY <2>2, <2>3, UntouchedIsSound, MonotoneRemembers DEF Inv
  <1>2. CASE VerifyCharge(p)
    <2>1. PICK a \in Applications, n \in Attempts : a = worker[p].app /\ n = worker[p].attempt
      BY <1>2, WorkerFacts DEF VerifyCharge, At
    <2>2. PICK outcome \in {Verification(charge[a][n]), "PROCESSING"} :
             worker' = [worker EXCEPT ![p].pc = "record", ![p].value = outcome]
      BY <1>2, <2>1 DEF VerifyCharge
    <2>3. outcome = "SUCCESSFUL" => charge[a][n] = "PAID"
      BY DEF Verification
    <2>4. worker[p] \in [pc : {"idle", "update", "verify", "record"},
                         app : Applications \cup {NoApplication},
                         attempt : Attempts,
                         value : Outcomes \cup {"none", "APPLIED", "REJECTED"}]
      BY DEF TypeOK
    <2>5. /\ worker'[p] = [worker[p] EXCEPT !.pc = "record", !.value = outcome]
          /\ \A q \in Workers \ {p} : worker'[q] = worker[q]
      BY <2>2 DEF TypeOK
    <2>6. worker'[p].app = a /\ worker'[p].attempt = n /\ worker'[p].value = outcome
      BY <2>1, <2>4, <2>5
    <2>7. UNCHANGED <<contract, escrow, payment, charge, credits, work, dispute, archived>>
      BY <1>2 DEF VerifyCharge, selection, money
    <2>8. payment[a][n] # "none"
      BY <1>2, <2>1 DEF VerifyCharge, At, Inv, Remembers
    <2>9. Remembers(p)'
      BY <2>3, <2>6, <2>7, <2>8 DEF Remembers
    <2>10. (\A b \in Applications : Untouched(b)) /\ Monotone
      BY <2>7 DEF Untouched, Monotone
    <2> QED
      BY <2>5, <2>9, <2>10, UntouchedIsSound, MonotoneRemembers DEF Inv
  <1>3. ASSUME WriteApplicationStatus(p) \/ Crash(p) \/ TransitionPaymentStatus(p) \/ FundEscrow(p)
        PROVE  Inv'
    <2>1. \A q \in Workers : worker'[q] = worker[q] \/ worker'[q] = Idle
      BY <1>3 DEF WriteApplicationStatus, Crash, TransitionPaymentStatus, FundEscrow, Finish, TypeOK
    <2>2. CASE WriteApplicationStatus(p) \/ Crash(p)
      <3>1. UNCHANGED <<contract, escrow, payment, charge, credits, work, dispute, archived>>
        BY <2>2 DEF WriteApplicationStatus, Crash, selection, money
      <3>2. (\A b \in Applications : Untouched(b)) /\ Monotone
        BY <3>1 DEF Untouched, Monotone
      <3> QED
        BY <2>1, <3>2, UntouchedIsSound, MonotoneRemembers DEF Inv
    <2>3. CASE TransitionPaymentStatus(p)
      <3>1. PICK a \in Applications, n \in Attempts, value \in {"PROCESSING", "FAILED"} :
               a = worker[p].app /\ n = worker[p].attempt /\ value = worker[p].value
        BY <2>3, WorkerFacts DEF TransitionPaymentStatus, At, Outcomes
      <3>2. UNCHANGED <<contract, escrow, charge, credits, work, dispute, archived>>
        BY <2>3 DEF TransitionPaymentStatus, selection
      <3>3. CASE payment[a][n] \in Live /\ escrow[a] = "UNFUNDED"
        <4>1. SetPayment(a, n, value)
          BY <2>3, <3>1, <3>3 DEF TransitionPaymentStatus
        <4>2. Sound(a) /\ payment[a][n] \notin {"none", "SUCCESSFUL"}
          BY <3>3 DEF Inv, Live
        <4>3. a \notin archived /\ contract[a] \notin {"none", "CANCELLED"}
          BY <3>3, <4>2 DEF Sound, NoAttempt
        <4>4. Sound(a)' /\ (\A b \in Applications \ {a} : Untouched(b)) /\ Monotone
          BY <3>2, <3>3, <4>1, <4>2, <4>3, UnpaidStatusIsSound
        <4> QED
          BY <2>1, <4>4, UntouchedIsSound, MonotoneRemembers DEF Inv
      <3>4. CASE ~(payment[a][n] \in Live /\ escrow[a] = "UNFUNDED")
        <4>1. UNCHANGED payment
          BY <2>3, <3>1, <3>4 DEF TransitionPaymentStatus
        <4>2. (\A b \in Applications : Untouched(b)) /\ Monotone
          BY <3>2, <4>1 DEF Untouched, Monotone
        <4> QED
          BY <2>1, <4>2, UntouchedIsSound, MonotoneRemembers DEF Inv
      <3> QED
        BY <3>3, <3>4
    <2>4. CASE FundEscrow(p)
      BY <2>1, <2>4, FundingIsSound, MonotoneRemembers DEF Inv
    <2> QED
      BY <1>3, <2>2, <2>3, <2>4
  <1> QED
    BY <1>1, <1>2, <1>3 DEF Continue

LEMMA SoundInit ==
    ASSUME Init
    PROVE  Inv
  BY DEF Init, Inv, Sound, Remembers, Idle, NoAttempt, Paid, LiveAttempt, Secured, Held

LEMMA SoundNext ==
    ASSUME TypeOK, Inv, [Next]_vars
    PROVE  Inv'
  <1>1. ASSUME NEW a \in Applications,
               \/ AcceptFreelanceApplication(a) \/ selectContractJobApplication(a)
               \/ Administration(a)
        PROVE  Inv'
    <2>1. Sound(a)' /\ (\A b \in Applications \ {a} : Untouched(b)) /\ Monotone /\ UNCHANGED worker
      BY <1>1, SelectionIsSound, AdministrationIsSound
    <2> QED
      BY <2>1, UntouchedIsSound, MonotoneRemembers DEF Inv
  <1>2. ASSUME UNCHANGED vars \/ \E j \in Jobs, k \in Kinds : EditJob(j, k)
        PROVE  Inv'
    <2>1. (\A a \in Applications : Untouched(a)) /\ Monotone /\ UNCHANGED worker
      BY <1>2 DEF vars, EditJob, money, Untouched, Monotone
    <2> QED
      BY <2>1, UntouchedIsSound, MonotoneRemembers DEF Inv
  <1> QED
    BY <1>1, <1>2, NextCases, AttemptIsSound, ContinueIsSound

\* Every contract, escrow, payment and dispute fit together, and every worker's answer is
\* one the provider can have given.
THEOREM InvHolds == Spec => []Inv
  <1>1. Init => Inv
    BY SoundInit
  <1>2. TypeOK /\ Inv /\ [Next]_vars => Inv'
    BY SoundNext
  <1> QED
    BY <1>1, <1>2, TypeOKHolds, PTL DEF Spec

-----------------------------------------------------------------------------
(* The properties *)

\* releaseContractFunds credits the seeker once for each released escrow and never for
\* another, whatever the other operations do meanwhile.
THEOREM ReleasedOnceHolds == Spec => []ReleasedOnce
  <1>1. Inv => ReleasedOnce
    BY DEF Inv, Sound, ReleasedOnce
  <1> QED
    BY <1>1, InvHolds, PTL

\* A dispute holds the funds: no operation leads out of a disputed escrow.
THEOREM DisputeHoldsFundsHolds == Spec => []DisputeHoldsFunds
  <1>1. Inv => DisputeHoldsFunds
    BY DEF Inv, Sound, DisputeHoldsFunds
  <1> QED
    BY <1>1, InvHolds, PTL

\* cancelEmployerFreelanceContract only cancels what nobody can have paid for, and what is
\* cancelled is not offered for payment again.
THEOREM CancelledTakesNoMoneyHolds == Spec => []CancelledTakesNoMoney
  <1>1. Inv => CancelledTakesNoMoney
    BY DEF Inv, Sound, NoAttempt, CancelledTakesNoMoney
  <1> QED
    BY <1>1, InvHolds, PTL

\* The escrow is funded by exactly one attempt, and by one the provider was paid for,
\* whatever answers arrive late or twice.
THEOREM FundedByOnePaidAttemptHolds == Spec => []FundedByOnePaidAttempt
  <1>1. ASSUME Inv, NEW a \in Applications
        PROVE  escrow[a] \in Secured
                 <=> Cardinality({n \in Attempts : payment[a][n] = "SUCCESSFUL"}) = 1
    <2> DEFINE S == {n \in Attempts : payment[a][n] = "SUCCESSFUL"}
    <2>1. Sound(a)
      BY <1>1 DEF Inv
    <2>2. CASE escrow[a] \in Secured
      <3>1. PICK n \in Attempts : payment[a][n] = "SUCCESSFUL"
        BY <2>1, <2>2 DEF Sound, Paid
      <3>2. S = {n}
        BY <2>1, <3>1 DEF Sound
      <3> QED
        BY <2>2, <3>2, FS_Singleton
    <2>3. CASE escrow[a] \notin Secured
      <3>1. S = {}
        BY <2>1, <2>3 DEF Sound, Paid
      <3>2. Cardinality(S) = 0
        BY <3>1, FS_EmptySet
      <3> QED
        BY <2>3, <3>2
    <2> QED
      BY <2>2, <2>3
  <1>2. Inv => FundedByOnePaidAttempt
    BY <1>1 DEF Inv, Sound, FundedByOnePaidAttempt, Secured
  <1> QED
    BY <1>2, InvHolds, PTL

LiveContract(a) == contract[a] \in {"PENDING", "ACTIVE"}

\* Only a selection makes a contract live, and nothing else gives it its type.
LEMMA LiveOnlyBySelection ==
    ASSUME TypeOK, [Next]_vars,
           \A a \in Applications :
               ~AcceptFreelanceApplication(a) /\ ~selectContractJobApplication(a)
    PROVE  (\A b \in Applications : LiveContract(b)' => LiveContract(b)) /\ UNCHANGED type
  <1>1. ASSUME NEW a \in Applications, Administration(a)
        PROVE  (\A b \in Applications : LiveContract(b)' => LiveContract(b)) /\ UNCHANGED type
    <2>0. UNCHANGED type
      BY <1>1 DEF Administration, AcceptMonthlyApplication, confirmContract,
         cancelEmployerFreelanceContract, archiveEmployerContract, submitContractCompletion,
         confirmContractCompletion, submitContractDispute, resolveContractDispute,
         releaseContractFunds, selection
    <2>1. \/ UNCHANGED contract
          \/ contract' = [contract EXCEPT ![a] = "CANCELLED"]
          \/ contract[a] = "PENDING" /\ contract' = [contract EXCEPT ![a] = "ACTIVE"]
      BY <1>1 DEF Administration, AcceptMonthlyApplication, confirmContract,
         cancelEmployerFreelanceContract, archiveEmployerContract, submitContractCompletion,
         confirmContractCompletion, submitContractDispute, resolveContractDispute,
         releaseContractFunds, SetContract, selection
    <2> QED
      BY <2>0, <2>1 DEF TypeOK, LiveContract
  <1>2. ASSUME NEW a \in Applications, NEW n \in Attempts, OnAttempt(a, n)
        PROVE  UNCHANGED <<contract, type>>
    BY <1>2 DEF OnAttempt, initializeContractPayment, ChargeMoves, verifyContractPayment, selection
  <1>3. ASSUME NEW p \in Workers, Continue(p)
        PROVE  (\A b \in Applications : LiveContract(b)' => LiveContract(b)) /\ UNCHANGED type
    <2>1. CASE FundEscrow(p)
      <3>1. worker[p].app \in Applications
        BY <2>1, WorkerFacts DEF FundEscrow, At
      <3>2. \/ UNCHANGED contract
            \/ /\ contract[worker[p].app] \in {"PENDING", "ACTIVE"}
               /\ contract' = [contract EXCEPT ![worker[p].app] = "ACTIVE"]
        BY <2>1 DEF FundEscrow, MayFund, SetContract
      <3>3. UNCHANGED type
        BY <2>1 DEF FundEscrow
      <3> QED
        BY <3>1, <3>2, <3>3 DEF TypeOK, LiveContract
    <2>2. ASSUME ~FundEscrow(p)
          PROVE  UNCHANGED <<contract, type>>
      BY <1>3, <2>2 DEF Continue, updateEmployerApplicationStatus, WriteApplicationStatus,
         VerifyCharge, TransitionPaymentStatus, Crash, selection
    <2> QED
      BY <2>1, <2>2 DEF LiveContract
  <1>4. ASSUME UNCHANGED vars \/ \E j \in Jobs, k \in Kinds : EditJob(j, k)
        PROVE  UNCHANGED <<contract, type>>
    BY <1>4 DEF vars, EditJob
  <1> QED
    BY <1>1, <1>2, <1>3, <1>4, NextCases DEF LiveContract

LEMMA SelectionFindsNoLiveRival ==
    ASSUME TypeOK, OneContractOfEachType, NEW a \in Applications,
           AcceptFreelanceApplication(a) \/ selectContractJobApplication(a)
    PROVE  OneContractOfEachType'
  <1>1. /\ contract' = [contract EXCEPT ![a] = "PENDING"]
        /\ type' = [type EXCEPT ![a] = kindOf(a)]
    BY DEF AcceptFreelanceApplication, selectContractJobApplication, CreateContract, SetContract
  <1>2. \A b \in Rivals(a) : type[b] = kindOf(a) => ~LiveContract(b)
    <2>1. \A b \in Rivals(a) : contractTypeMatchesJob(b) => ~Blocks(b)
      BY DEF AcceptFreelanceApplication, selectContractJobApplication, RivalsBlock
    <2>2. \A b \in Rivals(a) : contractTypeMatchesJob(b) <=> type[b] = kindOf(a)
      BY DEF Rivals, contractTypeMatchesJob, kindOf
    <2> QED
      BY <2>1, <2>2 DEF Blocks, SafelyCancelled, LiveContract
  <1>3. type'[a] = kindOf(a)
    BY <1>1 DEF TypeOK
  <1>4. \A b \in Applications : b # a => contract'[b] = contract[b] /\ type'[b] = type[b]
    BY <1>1 DEF TypeOK
  <1>5. \A b \in Applications :
           b # a /\ JobOf[b] = JobOf[a] /\ LiveContract(b)' => type'[b] # type'[a]
    BY <1>2, <1>3, <1>4 DEF Rivals, LiveContract
  <1> QED
    BY <1>4, <1>5 DEF OneContractOfEachType, Standing, LiveContract

\* A job has at most one live contract of each type, although each selection looks only at
\* the contracts that exist when it holds the Job's row lock, and only at those of the type
\* the job calls for after the edits it has seen.
THEOREM OneContractOfEachTypeHolds == Spec => []OneContractOfEachType
  <1>1. Init => OneContractOfEachType
    BY DEF Init, OneContractOfEachType, Standing
  <1>2. TypeOK /\ OneContractOfEachType /\ [Next]_vars => OneContractOfEachType'
    <2>1. ASSUME TypeOK, OneContractOfEachType, [Next]_vars,
                 \A a \in Applications :
                     ~AcceptFreelanceApplication(a) /\ ~selectContractJobApplication(a)
          PROVE  OneContractOfEachType'
      BY <2>1, LiveOnlyBySelection DEF OneContractOfEachType, Standing, LiveContract
    <2> QED
      BY <2>1, SelectionFindsNoLiveRival
  <1> QED
    BY <1>1, <1>2, TypeOKHolds, PTL DEF Spec

\* What ArchivedKeepsStill says of one step.
KeepsStill(a) ==
    /\ payment'[a] = payment[a]
    /\ credits'[a] = credits[a]
    /\ escrow'[a] # escrow[a] => escrow[a] = "UNFUNDED" /\ escrow'[a] = "CANCELLED"

LEMMA UntouchedKeepsStill ==
    ASSUME NEW a \in Applications, Untouched(a)
    PROVE  KeepsStill(a)
  BY DEF Untouched, KeepsStill

LEMMA AdministrationKeepsStill ==
    ASSUME TypeOK, Inv, NEW a \in archived, NEW b \in Applications, Administration(b)
    PROVE  KeepsStill(a)
  <1>1. a \in Applications
    BY DEF TypeOK
  <1>2. Sound(a) /\ escrow[a] \in {"UNFUNDED", "CANCELLED", "RELEASED"}
    BY <1>1 DEF Inv, Sound
  <1>3. UNCHANGED payment
    BY DEF Administration, AcceptMonthlyApplication, confirmContract,
       cancelEmployerFreelanceContract, archiveEmployerContract, submitContractCompletion,
       confirmContractCompletion, submitContractDispute, resolveContractDispute, releaseContractFunds, selection, money
  <1>4. \/ UNCHANGED <<escrow, credits>>
        \/ /\ escrow[b] = "UNFUNDED" /\ escrow' = [escrow EXCEPT ![b] = "CANCELLED"]
           /\ UNCHANGED credits
        \/ /\ escrow[b] \in {"FUNDED", "RELEASE_ELIGIBLE"}
           /\ \E status \in EscrowStatuses : escrow' = [escrow EXCEPT ![b] = status]
           /\ credits' = credits \/ credits' = [credits EXCEPT ![b] = @ + 1]
    BY DEF Administration, AcceptMonthlyApplication, confirmContract,
       cancelEmployerFreelanceContract, PossiblyCancellable,
       archiveEmployerContract, submitContractCompletion, confirmContractCompletion, Confirmable,
       submitContractDispute, resolveContractDispute, releaseContractFunds, ReleaseEligible,
       SetEscrow, EscrowStatuses, Held, selection, money
  <1> QED
    BY <1>1, <1>2, <1>3, <1>4 DEF TypeOK, KeepsStill

LEMMA WorkersKeepStill ==
    ASSUME TypeOK, Inv, NEW a \in archived, NEW p \in Workers, Continue(p)
    PROVE  KeepsStill(a)
  <1>1. a \in Applications
    BY DEF TypeOK
  <1>2. Sound(a)
    BY <1>1 DEF Inv
  <1>3. CASE TransitionPaymentStatus(p) \/ FundEscrow(p)
    <2>1. PICK b \in Applications, n \in Attempts : b = worker[p].app /\ n = worker[p].attempt
      BY <1>3, WorkerFacts DEF TransitionPaymentStatus, FundEscrow, At
    <2>2. payment[b][n] # "none" /\ Sound(b)
      BY <1>3, <2>1 DEF Inv, Remembers, TransitionPaymentStatus, FundEscrow, At
    <2>3. a = b => escrow[b] # "UNFUNDED"
      BY <2>2 DEF Sound, NoAttempt
    <2>4. UNCHANGED credits
      BY <1>3 DEF TransitionPaymentStatus, FundEscrow
    <2>5. \/ UNCHANGED <<payment, escrow>>
          \/ /\ escrow[b] = "UNFUNDED"
             /\ \E status \in PaymentStatuses :
                   payment' = [payment EXCEPT ![b] = [payment[b] EXCEPT ![n] = status]]
             /\ escrow' = escrow \/ escrow' = [escrow EXCEPT ![b] = "FUNDED"]
      <3>1. WorkerTypes
        BY TypeSplit
      <3>2. CASE TransitionPaymentStatus(p)
        <4>1. worker[p].value \in PaymentStatuses
          BY <3>2, WorkerFacts DEF TransitionPaymentStatus, At, Outcomes, PaymentStatuses, Live
        <4> QED
          BY <2>1, <3>2, <4>1 DEF TransitionPaymentStatus, SetPayment
      <3>3. CASE FundEscrow(p)
        BY <2>1, <3>3 DEF FundEscrow, MayFund, AwaitsFunding, SetPayment, SetEscrow,
           PaymentStatuses
      <3> QED
        BY <1>3, <3>2, <3>3
    <2> QED
      BY <1>1, <2>3, <2>4, <2>5 DEF TypeOK, KeepsStill
  <1>4. ASSUME ~TransitionPaymentStatus(p), ~FundEscrow(p)
        PROVE  KeepsStill(a)
    BY <1>4 DEF Continue, updateEmployerApplicationStatus, WriteApplicationStatus, VerifyCharge,
       Crash, KeepsStill, money
  <1> QED
    BY <1>3, <1>4

\* No money of an archived contract moves: not even a verification that was begun before
\* the contract was archived finds anything to record.
THEOREM ArchivedKeepsStillHolds == Spec => ArchivedKeepsStill
  <1>1. TypeOK /\ Inv /\ [Next]_vars => [\A a \in archived : KeepsStill(a)]_vars
    <2>1. ASSUME TypeOK, Inv, Next, NEW a \in archived
          PROVE  KeepsStill(a)
      <3>0. a \in Applications /\ Sound(a)
        BY <2>1 DEF TypeOK, Inv
      <3>1. ASSUME NEW b \in Applications,
                   AcceptFreelanceApplication(b) \/ selectContractJobApplication(b)
            PROVE  KeepsStill(a)
        <4>1. Untouched(a) \/ a = b
          BY <2>1, <3>0, <3>1, SelectionIsSound
        <4>2. contract[b] = "none"
          BY <3>1 DEF AcceptFreelanceApplication, selectContractJobApplication
        <4>3. a # b
          BY <3>0, <4>2 DEF Sound
        <4> QED
          BY <3>0, <4>1, <4>3, UntouchedKeepsStill
      <3>2. ASSUME NEW b \in Applications, NEW n \in Attempts, OnAttempt(b, n)
            PROVE  KeepsStill(a)
        <4>1. UNCHANGED <<escrow, credits>>
          BY <3>2 DEF OnAttempt, initializeContractPayment, ChargeMoves, verifyContractPayment, money
        <4>2. UNCHANGED payment \/ (b \notin archived /\ SetPayment(b, n, "PENDING"))
          BY <3>2 DEF OnAttempt, initializeContractPayment, Fundable, ChargeMoves,
             verifyContractPayment, money
        <4> QED
          BY <2>1, <3>0, <4>1, <4>2 DEF TypeOK, SetPayment, KeepsStill
      <3>3. ASSUME NEW j \in Jobs, NEW k \in Kinds, EditJob(j, k)
            PROVE  KeepsStill(a)
        BY <3>3 DEF EditJob, money, KeepsStill
      <3> QED
        BY <2>1, <3>1, <3>2, <3>3, NextCases, AdministrationKeepsStill, WorkersKeepStill
    <2> QED
      BY <2>1
  <1> QED
    BY <1>1, TypeOKHolds, InvHolds, PTL DEF Spec, ArchivedKeepsStill, KeepsStill

-----------------------------------------------------------------------------
(* The promise to the two parties *)

\* What the promise allows a step to do; one that leaves types, escrow, charges, credits and archive
\* alone is a stutter of it.
Promises == [Promise!Next]_(Promise!vars)

LEMMA QuietPromises ==
    ASSUME UNCHANGED <<type, escrow, charge, credits, archived>>
    PROVE  Promises
  BY DEF Promises, Promise!vars, Paying

\* Without an attempt nobody has paid.
LEMMA PaidMeansAttempted ==
    ASSUME Inv, NEW a \in Applications, NoAttempt(a)
    PROVE  a \notin Paying
  BY DEF Inv, Sound, NoAttempt, Paying

LEMMA SelectionPromises ==
    ASSUME TypeOK, Inv, NEW a \in Applications,
           AcceptFreelanceApplication(a) \/ selectContractJobApplication(a)
    PROVE  Promises
  <1>1. /\ contract[a] = "none" /\ escrow' = [escrow EXCEPT ![a] = "UNFUNDED"]
        /\ type' = [type EXCEPT ![a] = kindOf(a)] /\ kindOf(a) \in ContractTypes
        /\ UNCHANGED <<charge, credits, archived>>
    BY DEF AcceptFreelanceApplication, selectContractJobApplication, CreateContract, SetEscrow,
       ContractTypes
  <1>2. escrow[a] = "none"
    BY <1>1 DEF Inv, Sound
  <1>3. \A b \in Rivals(a) : type[b] = kindOf(a) => escrow[b] \in {"none", "CANCELLED"}
    <2>1. \A b \in Rivals(a) : contractTypeMatchesJob(b) => ~Blocks(b)
      BY DEF AcceptFreelanceApplication, selectContractJobApplication, RivalsBlock
    <2>2. \A b \in Rivals(a) : contractTypeMatchesJob(b) <=> type[b] = kindOf(a)
      BY DEF Rivals, contractTypeMatchesJob, kindOf
    <2> QED
      BY <2>1, <2>2 DEF Blocks, SafelyCancelled, Inv, Sound, Rivals
  <1>4. \A b \in Applications \ {a} :
           JobOf[b] = JobOf[a] /\ type[b] = kindOf(a) => ~Promise!Stands(b)
    BY <1>3 DEF Rivals, Promise!Stands
  <1>5. Promise!Agree(a, kindOf(a))
    BY <1>1, <1>2, <1>4 DEF Promise!Agree, Promise!Moves, Paying
  <1> QED
    BY <1>1, <1>5 DEF Promises, Promise!Next

LEMMA AdministrationPromises ==
    ASSUME TypeOK, Inv, NEW a \in Applications, Administration(a)
    PROVE  Promises
  <1>1. ASSUME \/ AcceptMonthlyApplication(a)
               \/ \E party \in Parties : confirmContract(a, party)
               \/ submitContractCompletion(a)
               \/ \E status \in {"UNDER_REVIEW", "RESOLVED"} : resolveContractDispute(a, status)
        PROVE  Promises
    BY <1>1, QuietPromises DEF AcceptMonthlyApplication, confirmContract, submitContractCompletion, resolveContractDispute,
       selection, money
  <1>2. CASE cancelEmployerFreelanceContract(a)
    <2>1. a \notin Paying
      BY <1>2, PaidMeansAttempted DEF cancelEmployerFreelanceContract, NothingAttempted
    <2>2. Promise!Cancel(a)
      BY <1>2, <2>1 DEF cancelEmployerFreelanceContract, PossiblyCancellable, SetEscrow,
         Promise!Cancel, Promise!Moves, Paying
    <2> QED
      BY <2>2 DEF Promises, Promise!Next
  <1>3. CASE archiveEmployerContract(a)
    <2>1. escrow[a] \in {"CANCELLED", "RELEASED"} \/ (escrow[a] = "UNFUNDED" /\ a \notin Paying)
      BY <1>3, PaidMeansAttempted DEF archiveEmployerContract, SafelyCancelled, SafelyReleased,
         PossiblyCancellable
    <2>2. Promise!Archive(a)
      BY <1>3, <2>1 DEF archiveEmployerContract, money, Promise!Archive, Paying
    <2> QED
      BY <2>2 DEF Promises, Promise!Next
  <1>4. CASE confirmContractCompletion(a)
    <2>1. Promise!Approve(a)
      BY <1>4 DEF confirmContractCompletion, Confirmable, SetEscrow, selection, Promise!Approve,
         Promise!Moves, Paying
    <2> QED
      BY <2>1 DEF Promises, Promise!Next
  <1>5. CASE submitContractDispute(a)
    <2>1. Promise!Dispute(a)
      BY <1>5 DEF submitContractDispute, SetEscrow, selection, Promise!Dispute, Promise!Moves,
         Paying
    <2> QED
      BY <2>1 DEF Promises, Promise!Next
  <1>6. CASE releaseContractFunds(a)
    <2>1. Promise!Release(a)
      BY <1>6 DEF releaseContractFunds, ReleaseEligible, SetEscrow, selection, Promise!Release,
         Promise!Moves, Paying
    <2> QED
      BY <2>1 DEF Promises, Promise!Next
  <1> QED
    BY <1>1, <1>2, <1>3, <1>4, <1>5, <1>6 DEF Administration

LEMMA AttemptPromises ==
    ASSUME TypeOK, Inv, NEW a \in Applications, NEW n \in Attempts, OnAttempt(a, n)
    PROVE  Promises
  <1>1. ASSUME initializeContractPayment(a, n) \/ \E p \in Workers : verifyContractPayment(p, a, n)
        PROVE  Promises
    BY <1>1, QuietPromises DEF initializeContractPayment, verifyContractPayment, selection, money
  <1>2. ASSUME NEW state \in {"PENDING", "FAILED", "PAID"}, ChargeMoves(a, n, state)
        PROVE  Promises
    <2>1. /\ payment[a][n] # "none" /\ charge[a][n] # "PAID"
          /\ charge' = [charge EXCEPT ![a] = [charge[a] EXCEPT ![n] = state]]
          /\ UNCHANGED <<type, escrow, credits, archived>>
      BY <1>2 DEF ChargeMoves, selection, money
    <2>2. Sound(a) /\ ~NoAttempt(a)
      BY <2>1 DEF Inv, NoAttempt
    <2>3. \A b \in Applications, m \in Attempts :
            charge'[b][m] = IF b = a /\ m = n THEN state ELSE charge[b][m]
      BY <2>1 DEF TypeOK
    <2>4. Paying' = IF state = "PAID" THEN Paying \cup {a} ELSE Paying
      BY <2>1, <2>3 DEF Paying
    <2>5. Promise!Stands(a) /\ (a \in archived => escrow[a] = "RELEASED")
      BY <2>2 DEF Sound, Promise!Stands
    <2>6. CASE state = "PAID"
      BY <2>1, <2>4, <2>5, <2>6 DEF Promises, Promise!Next, Promise!Pay
    <2>7. CASE state # "PAID"
      BY <2>1, <2>4, <2>7 DEF Promises, Promise!vars
    <2> QED
      BY <2>6, <2>7
  <1> QED
    BY <1>1, <1>2 DEF OnAttempt

LEMMA WorkersPromise ==
    ASSUME TypeOK, Inv, NEW p \in Workers, Continue(p)
    PROVE  Promises
  <1>1. CASE FundEscrow(p)
    <2>1. PICK a \in Applications, n \in Attempts : a = worker[p].app /\ n = worker[p].attempt
      BY <1>1, WorkerFacts DEF FundEscrow, At
    <2>2. Sound(a) /\ payment[a][n] # "none" /\ charge[a][n] = "PAID"
      BY <1>1, <2>1 DEF Inv, Remembers, FundEscrow, At
    <2>3. UNCHANGED <<type, charge, credits, archived>>
      BY <1>1 DEF FundEscrow
    <2>4. CASE MayFund(a, n)
      <3>1. escrow[a] = "UNFUNDED" /\ escrow' = [escrow EXCEPT ![a] = "FUNDED"]
        BY <1>1, <2>1, <2>4 DEF FundEscrow, MayFund, AwaitsFunding, SetEscrow
      <3>2. a \in Paying \ archived
        BY <2>2, <3>1 DEF Paying, Sound, NoAttempt
      <3> QED
        BY <2>3, <3>1, <3>2 DEF Promises, Promise!Next, Promise!Fund, Promise!Moves, Paying
    <2>5. CASE ~MayFund(a, n)
      BY <1>1, <2>1, <2>3, <2>5, QuietPromises DEF FundEscrow
    <2> QED
      BY <2>4, <2>5
  <1>2. ASSUME ~FundEscrow(p)
        PROVE  Promises
    BY <1>2, QuietPromises DEF Continue, updateEmployerApplicationStatus, WriteApplicationStatus,
       VerifyCharge, TransitionPaymentStatus, Crash, selection, money
  <1> QED
    BY <1>1, <1>2

\* ContractEscrow implements EscrowPromise: whatever attempts, answers, disputes, releases and
\* archivings interleave, the money of a contract moves only as the two parties were told.
THEOREM ImplementsPromiseHolds == Spec => ImplementsPromise
  <1>1. Init => Promise!Init
    BY EscrowAssumption DEF Init, Promise!Init, Paying, EscrowAssumption, Attempts
  <1>2. TypeOK /\ Inv /\ [Next]_vars => [Promise!Next]_(Promise!vars)
    <2>1. ASSUME TypeOK, Inv, Next PROVE Promises
      <3>1. ASSUME NEW j \in Jobs, NEW k \in Kinds, EditJob(j, k) PROVE Promises
        BY <3>1, QuietPromises DEF EditJob, money
      <3> QED
        BY <2>1, <3>1, NextCases, SelectionPromises, AdministrationPromises, AttemptPromises,
           WorkersPromise
    <2>2. ASSUME UNCHANGED vars PROVE Promises
      BY <2>2, QuietPromises DEF vars
    <2> QED
      BY <2>1, <2>2 DEF Promises
  <1> QED
    BY <1>1, <1>2, TypeOKHolds, InvHolds, PTL DEF Spec, ImplementsPromise, Promise!Spec
=============================================================================
