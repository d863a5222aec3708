------------------------- MODULE Withdrawal_proofs -------------------------
(***************************************************************************)
(* Proofs about Withdrawal for every set of wallets, withdrawals, workers  *)
(* and amounts: one transfer request a row, outcomes that are true, what a *)
(* wallet's pending balance holds, that no credit is lost or made, and     *)
(* that the detailed withdrawal implements WithdrawalLedger.               *)
(***************************************************************************)
EXTENDS Withdrawal, FiniteSetTheorems, TLAPS

-----------------------------------------------------------------------------
(* Totals: a total is the number of units of a finite set of rows *)

\* The units and the total of rows D with the amounts a, as an operator of constants, so
\* that it can be used for the state before a step and for the state after it.
UnitsOf(a, D) == UNION {{d} \X (1 .. a[d]) : d \in D}
TotalOf(a, D) == Cardinality(UnitsOf(a, D))
amounts == [d \in Withdrawals |-> amountOf(d)]

LEMMA UnitsFinite ==
    ASSUME NEW D, IsFiniteSet(D), NEW a, \A d \in D : a[d] \in Nat
    PROVE  IsFiniteSet(UnitsOf(a, D)) /\ TotalOf(a, D) \in Nat
  <1> DEFINE f == [d \in D |-> {d} \X (1 .. a[d])]
             Images == {{d} \X (1 .. a[d]) : d \in D}
  <1>1. f \in Surjection(D, Images)
    BY DEF Surjection
  <1>2. IsFiniteSet(Images)
    BY <1>1, FS_Surjection
  <1>3. \A d \in D : IsFiniteSet({d} \X (1 .. a[d]))
    <2> TAKE d \in D
    <2>1. IsFiniteSet({d})
      BY FS_Singleton
    <2>2. IsFiniteSet(1 .. a[d])
      BY FS_Interval
    <2> QED
      BY <2>1, <2>2, FS_Product
  <1>4. IsFiniteSet(UnitsOf(a, D))
    BY <1>2, <1>3, FS_UNION DEF UnitsOf
  <1> QED
    BY <1>4, FS_CardinalityType DEF TotalOf

\* A row that joins a set of rows adds its amount to the total.
LEMMA TotalAdd ==
    ASSUME NEW D, IsFiniteSet(D), NEW d, d \notin D,
           NEW a, \A e \in D \cup {d} : a[e] \in Nat
    PROVE  TotalOf(a, D \cup {d}) = TotalOf(a, D) + a[d]
  <1>1. UnitsOf(a, D \cup {d}) = UnitsOf(a, D) \cup ({d} \X (1 .. a[d]))
    BY DEF UnitsOf
  <1>2. UnitsOf(a, D) \cap ({d} \X (1 .. a[d])) = {}
    BY DEF UnitsOf
  <1>3. /\ IsFiniteSet({d} \X (1 .. a[d]))
        /\ Cardinality({d} \X (1 .. a[d])) = a[d]
    <2>1. IsFiniteSet({d}) /\ Cardinality({d}) = 1
      BY FS_Singleton
    <2>2. IsFiniteSet(1 .. a[d]) /\ Cardinality(1 .. a[d]) = a[d]
      BY FS_Interval
    <2> QED
      BY <2>1, <2>2, FS_Product
  <1>4. IsFiniteSet(UnitsOf(a, D)) /\ Cardinality(UnitsOf(a, D)) \in Nat
    BY UnitsFinite DEF TotalOf
  <1> DEFINE U == UnitsOf(a, D)
             V == {d} \X (1 .. a[d])
  <1>5. U \cap V = {} /\ IsFiniteSet(U) /\ IsFiniteSet(V)
    BY <1>2, <1>3, <1>4
  <1> HIDE DEF U, V
  <1>6. Cardinality(U \cup V) = Cardinality(U) + Cardinality(V) - Cardinality(U \cap V)
    BY <1>5, FS_Union
  <1>7. Cardinality(U \cap V) = 0
    BY <1>5, FS_EmptySet
  <1>8. Cardinality(U) \in Nat /\ Cardinality(V) = a[d] /\ a[d] \in Nat
    BY <1>3, <1>4 DEF U, V
  <1>9. Cardinality(U \cup V) = Cardinality(U) + a[d]
    BY <1>6, <1>7, <1>8
  <1> QED
    BY <1>1, <1>9 DEF TotalOf, U, V

\* A row that leaves a set of rows takes its amount out of the total.
LEMMA TotalRemove ==
    ASSUME NEW D, IsFiniteSet(D), NEW d \in D, NEW a, \A e \in D : a[e] \in Nat
    PROVE  TotalOf(a, D \ {d}) = TotalOf(a, D) - a[d]
  <1>1. IsFiniteSet(D \ {d}) /\ (D \ {d}) \cup {d} = D
    BY FS_RemoveElement
  <1>2. TotalOf(a, D) = TotalOf(a, D \ {d}) + a[d]
    BY <1>1, TotalAdd
  <1>3. TotalOf(a, D \ {d}) \in Nat
    BY <1>1, UnitsFinite
  <1> QED
    BY <1>2, <1>3

\* Only the amounts of the rows themselves count.
LEMMA TotalSame ==
    ASSUME NEW D, NEW a, NEW b, \A d \in D : a[d] = b[d]
    PROVE  TotalOf(a, D) = TotalOf(b, D)
  BY DEF TotalOf, UnitsOf

\* The totals of the model are totals of the amounts that the rows hold.
LEMMA TotalIsTotalOf ==
    ASSUME NEW D, D \subseteq Withdrawals
    PROVE  Total(D) = TotalOf(amounts, D)
  BY DEF Total, Units, TotalOf, UnitsOf, amounts

-----------------------------------------------------------------------------
(* Types *)

\* Every reachable state has the types TypeOK states.  That a pending balance is
\* never negative is left to the accounting below.
Types ==
    /\ wallet \in [Wallets -> [available : Nat, pending : Int]]
    /\ withdrawal \in [Withdrawals -> [status : Statuses, amount : Nat]]
    /\ processingAt \in [Withdrawals -> Nat]
    /\ attempt \in [Withdrawals -> {"none", "PROCESSING"} \cup Final]
    /\ associated \subseteq Withdrawals
    /\ ledger \subseteq Withdrawals \X EntryTypes
    /\ transfer \in [Withdrawals -> TransferStates]
    /\ worker \in [Workers -> [pc : Steps, wd : Withdrawals \cup {NoWithdrawal},
                               outcome : Outcomes]]
    /\ \A p \in Workers : worker[p].pc # "idle" => worker[p].wd \in Withdrawals
    /\ credited \in [Wallets -> Nat]
    /\ requests \in [Withdrawals -> Nat]

\* Every action writes the worker's record through one of these four operators.
LEMMA WorkerTypes ==
    ASSUME Types,
           NEW p \in Workers, NEW d \in Withdrawals,
           NEW step \in Steps, NEW outcome \in Outcomes,
           \/ Start(p, step, d)
           \/ Finish(p)
           \/ ~At(p, "idle") /\ Goto(p, step)
           \/ ~At(p, "idle") /\ GotoWith(p, step, outcome)
    PROVE  /\ worker' \in [Workers -> [pc : Steps, wd : Withdrawals \cup {NoWithdrawal},
                                       outcome : Outcomes]]
           /\ \A q \in Workers : worker'[q].pc # "idle" => worker'[q].wd \in Withdrawals
  <1>1. Idle \in [pc : Steps, wd : Withdrawals \cup {NoWithdrawal}, outcome : Outcomes]
    BY DEF Idle, Steps, Outcomes
  <1>2. CASE Start(p, step, d)
    BY <1>1, <1>2 DEF Types, Start, Idle, At
  <1>3. CASE Finish(p)
    BY <1>1, <1>3 DEF Types, Finish, Idle
  <1>4. CASE ~At(p, "idle") /\ Goto(p, step)
    BY <1>4 DEF Types, Goto, At
  <1>5. CASE ~At(p, "idle") /\ GotoWith(p, step, outcome)
    BY <1>5 DEF Types, GotoWith, At
  <1> QED
    BY <1>2, <1>3, <1>4, <1>5


\* What these operators do to each worker.
LEMMA WorkerMoves ==
    ASSUME Types, NEW p \in Workers, NEW d, NEW step, NEW outcome
    PROVE  /\ Start(p, step, d) \/ Finish(p) \/ Goto(p, step) \/ GotoWith(p, step, outcome)
                => \A q \in Workers \ {p} : worker'[q] = worker[q]
           /\ Start(p, step, d) => worker'[p].pc = step /\ worker'[p].wd = d
           /\ Finish(p) => worker'[p].pc = "idle"
           /\ Goto(p, step) => /\ worker'[p].pc = step
                               /\ worker'[p].wd = worker[p].wd
                               /\ worker'[p].outcome = worker[p].outcome
           /\ GotoWith(p, step, outcome) => /\ worker'[p].pc = step
                                            /\ worker'[p].wd = worker[p].wd
                                            /\ worker'[p].outcome = outcome
  <1>1. Start(p, step, d) => /\ \A q \in Workers \ {p} : worker'[q] = worker[q]
                             /\ worker'[p].pc = step /\ worker'[p].wd = d
    BY DEF Types, Start, Idle
  <1>2. Finish(p) => /\ \A q \in Workers \ {p} : worker'[q] = worker[q]
                     /\ worker'[p].pc = "idle"
    BY DEF Types, Finish, Idle
  <1>3. Goto(p, step) => /\ \A q \in Workers \ {p} : worker'[q] = worker[q]
                         /\ worker'[p] = [worker[p] EXCEPT !.pc = step]
    BY DEF Types, Goto
  <1>4. GotoWith(p, step, outcome) =>
            /\ \A q \in Workers \ {p} : worker'[q] = worker[q]
            /\ worker'[p] = [worker[p] EXCEPT !.pc = step, !.outcome = outcome]
    BY DEF Types, GotoWith
  <1>5. worker[p] \in [pc : Steps, wd : Withdrawals \cup {NoWithdrawal}, outcome : Outcomes]
    BY DEF Types
  <1> QED
    BY <1>1, <1>2, <1>3, <1>4, <1>5

\* A step that writes only the worker's record.
LEMMA OnlyWorker ==
    ASSUME Types,
           UNCHANGED <<database, outside>>,
           NEW p \in Workers, NEW d \in Withdrawals,
           NEW step \in Steps, NEW outcome \in Outcomes,
           \/ Start(p, step, d)
           \/ Finish(p)
           \/ ~At(p, "idle") /\ Goto(p, step)
           \/ ~At(p, "idle") /\ GotoWith(p, step, outcome)
    PROVE  Types'
  BY WorkerTypes DEF Types, database, outside

\* Writing a status keeps the type of the rows, and nothing else of them changes.
LEMMA StatusWritten ==
    ASSUME Types, NEW d \in Withdrawals, NEW s \in Statuses,
           withdrawal' = [withdrawal EXCEPT ![d].status = s]
    PROVE  /\ withdrawal' \in [Withdrawals -> [status : Statuses, amount : Nat]]
           /\ \A e \in Withdrawals : /\ status(e)' = IF e = d THEN s ELSE status(e)
                                     /\ amountOf(e)' = amountOf(e)
  BY DEF Types, status, amountOf

\* Applying any outcome keeps the types of the wallet and of the row's records.
LEMMA AppliedTypes ==
    ASSUME Types, ConstantsAssumption, NEW d \in Withdrawals, NEW outcome \in Outcomes,
           Applied(d, outcome)
    PROVE  /\ wallet' \in [Wallets -> [available : Nat, pending : Int]]
           /\ withdrawal' \in [Withdrawals -> [status : Statuses, amount : Nat]]
           /\ attempt' \in [Withdrawals -> {"none", "PROCESSING"} \cup Final]
           /\ ledger' \subseteq Withdrawals \X EntryTypes
  <1>1. WalletOf[d] \in Wallets /\ amountOf(d) \in Nat
    BY DEF Types, ConstantsAssumption, amountOf
  <1>2. ASSUME NEW x \in Nat, NEW y \in Nat, Settle(d, x, y)
        PROVE  wallet' \in [Wallets -> [available : Nat, pending : Int]]
    <2> DEFINE w == WalletOf[d]
    <2>1. wallet[w].available + y \in Nat /\ wallet[w].pending - x \in Int
      BY <1>1, <1>2 DEF Types
    <2>2. wallet' = [wallet EXCEPT ![w].pending = wallet[w].pending - x,
                                   ![w].available = wallet[w].available + y]
      BY <1>2, <1>1 DEF Settle, Types
    <2> HIDE DEF w
    <2> QED
      BY <2>1, <2>2 DEF Types
  <1>3. wallet' \in [Wallets -> [available : Nat, pending : Int]]
    BY <1>1, <1>2 DEF Applied, ApplySuccess, ApplyFailure, ApplyReversal, ReleasedByReversal
  <1>4. \E s \in Final, e \in EntryTypes :
           /\ withdrawal' = [withdrawal EXCEPT ![d].status = s]
           /\ attempt' = [attempt EXCEPT ![d] = s]
           /\ ledger' = ledger \cup {<<d, e>>}
    BY DEF Applied, ApplySuccess, ApplyFailure, ApplyReversal, Final, EntryTypes
  <1>5. withdrawal' \in [Withdrawals -> [status : Statuses, amount : Nat]]
    BY <1>4 DEF Types, Statuses
  <1>6. attempt' \in [Withdrawals -> {"none", "PROCESSING"} \cup Final]
    BY <1>4 DEF Types
  <1>7. ledger' \subseteq Withdrawals \X EntryTypes
    BY <1>4 DEF Types
  <1> QED
    BY <1>3, <1>5, <1>6, <1>7

LEMMA TypesInit ==
    ASSUME ConstantsAssumption, Init
    PROVE  Types
  <1>1. withdrawal \in [Withdrawals -> [status : Statuses, amount : Nat]]
    BY DEF Init, Statuses, Open, ConstantsAssumption
  <1>2. \A w : Total(RowsOf(w, {"PENDING"})) \in Nat
    <2>1. SUFFICES ASSUME NEW w PROVE Total(RowsOf(w, {"PENDING"})) \in Nat
      OBVIOUS
    <2>2. RowsOf(w, {"PENDING"}) \subseteq Withdrawals /\ IsFiniteSet(RowsOf(w, {"PENDING"}))
      BY FS_Subset DEF RowsOf, ConstantsAssumption
    <2>3. \A d \in Withdrawals : amounts[d] \in Nat
      BY <1>1 DEF amounts, amountOf
    <2> QED
      BY <2>2, <2>3, UnitsFinite, TotalIsTotalOf
  <1>3. /\ wallet \in [Wallets -> [available : Nat, pending : Int]]
        /\ credited \in [Wallets -> Nat]
    BY <1>2 DEF Init
  <1>4. /\ worker \in [Workers -> [pc : Steps, wd : Withdrawals \cup {NoWithdrawal},
                                    outcome : Outcomes]]
        /\ \A p \in Workers : worker[p].pc = "idle"
    BY DEF Init, Idle, Steps, Outcomes
  <1> QED
    BY <1>1, <1>3, <1>4 DEF Init, Types, TransferStates, EntryTypes, Legacy

\* A worker that takes a step is working on a row.
LEMMA ContinueFacts ==
    ASSUME Types, NEW p \in Workers, Continue(p) \/ Crash(p)
    PROVE  /\ ~At(p, "idle")
           /\ worker[p].wd \in Withdrawals
           /\ worker[p].outcome \in Outcomes
           /\ transfer[worker[p].wd] \in TransferStates
           /\ transfer[worker[p].wd] # "none" => Normalized(transfer[worker[p].wd]) \in Outcomes
  BY DEF Types, Continue, Crash, At, claimWithdrawal, ClaimRefused, SendTransfer,
     ReplyWithTransfer, ReplyWithoutId, ReplyRejected, ReplyUnknown,
     associateAttemptTransfer, RecordUnknownOutcome, applyOutcome, applyRejection,
     reconcileWithdrawal, LookUpTransfer, RecoverLookUp, RecoverAssociate,
     Normalized, TransferStates, Outcomes

LEMMA TypesNext ==
    ASSUME Types, ConstantsAssumption, Next
    PROVE  Types'
  <1>1. ASSUME NEW w \in Wallets, NEW a \in Amounts, CreditWallet(w, a)
        PROVE  Types'
    BY <1>1 DEF Types, CreditWallet, ConstantsAssumption
  <1>2. ASSUME NEW d \in Withdrawals, NEW a \in Amounts, CreateSeekerWithdrawal(d, a)
        PROVE  Types'
    BY <1>2 DEF Types, CreateSeekerWithdrawal, outside, CanReserve, ConstantsAssumption, Statuses,
                Open, EntryTypes
  <1>3. ASSUME NEW d \in Withdrawals, NEW o \in {"SUCCESSFUL", "FAILED"}, ProviderSettles(d, o)
        PROVE  Types'
    BY <1>3 DEF Types, ProviderSettles, database, TransferStates
  <1>4. ASSUME NEW d \in Withdrawals, ProviderReverses(d)
        PROVE  Types'
    BY <1>4 DEF Types, ProviderReverses, database, TransferStates
  <1>5. ASSUME NEW p \in Workers, NEW d \in Withdrawals, StartOn(p, d)
        PROVE  Types'
    <2>1. {"claim", "reconcile", "recover"} \subseteq Steps /\ "PROCESSING" \in Outcomes
      BY DEF Steps, Outcomes
    <2>2. CASE FlutterwaveWithdrawalWebhook(p, d)
      BY <2>1, <2>2, WorkerTypes DEF Types, FlutterwaveWithdrawalWebhook, outside
    <2> QED
      BY <1>5, <2>1, <2>2, OnlyWorker
      DEF StartOn, BeginExecute, BeginReconcile, reconcilePendingWithdrawals,
         recoverFlutterwaveTransfer
  <1>6. ASSUME NEW p \in Workers, Continue(p) \/ Crash(p)
        PROVE  Types'
    <2> DEFINE d == worker[p].wd
               outcome == worker[p].outcome
    <2>1. /\ ~At(p, "idle")
          /\ d \in Withdrawals
          /\ outcome \in Outcomes
          /\ transfer[d] \in TransferStates
          /\ transfer[d] # "none" => Normalized(transfer[d]) \in Outcomes
      BY <1>6, ContinueFacts
    <2>2. /\ {"send", "await", "associate", "reject", "unknown", "lookup", "recovered",
              "apply"} \subseteq Steps
          /\ {"PROCESSING", "FAILED"} \subseteq Outcomes
      BY DEF Steps, Outcomes
    <2>3. CASE claimWithdrawal(p)
      <3>1. \/ Finish(p)
            \/ ~At(p, "idle") /\ Goto(p, "send")
        BY <2>1, <2>3 DEF claimWithdrawal
      <3>2. withdrawal' \in [Withdrawals -> [status : Statuses, amount : Nat]]
        <4>1. \/ withdrawal' = [withdrawal EXCEPT ![d].status = "PROCESSING"]
              \/ UNCHANGED withdrawal
          BY <2>3 DEF claimWithdrawal
        <4> QED
          BY <2>1, <4>1, StatusWritten DEF Types, Statuses, Open
      <3>3. attempt' \in [Withdrawals -> {"none", "PROCESSING"} \cup Final]
        BY <2>1, <2>3 DEF Types, claimWithdrawal
      <3>4. associated' \subseteq Withdrawals
        BY <2>1, <2>3 DEF Types, claimWithdrawal
      <3>5. processingAt' \in [Withdrawals -> Nat]
        <4>1. Cardinality(Claimed) \in Nat
          BY FS_Subset, FS_CardinalityType DEF Claimed, ConstantsAssumption
        <4> QED
          BY <2>1, <2>3, <4>1 DEF Types, claimWithdrawal
      <3>6. /\ worker' \in [Workers -> [pc : Steps, wd : Withdrawals \cup {NoWithdrawal},
                                      outcome : Outcomes]]
            /\ \A q \in Workers : worker'[q].pc # "idle" => worker'[q].wd \in Withdrawals
        BY <2>1, <2>2, <3>1, WorkerTypes
      <3>7. UNCHANGED <<wallet, ledger, outside>>
        BY <2>3 DEF claimWithdrawal
      <3> QED
        BY <3>2, <3>3, <3>4, <3>5, <3>6, <3>7 DEF Types, outside
    <2>4. CASE SendTransfer(p)
      <3>1. ~At(p, "idle") /\ Goto(p, "await")
        BY <2>1, <2>4 DEF SendTransfer
      <3>2. transfer' \in [Withdrawals -> TransferStates] /\ requests' \in [Withdrawals -> Nat]
        BY <2>1, <2>4 DEF Types, SendTransfer, TransferStates
      <3>3. UNCHANGED <<database, credited>>
        BY <2>4 DEF SendTransfer
      <3>4. /\ worker' \in [Workers -> [pc : Steps, wd : Withdrawals \cup {NoWithdrawal},
                                      outcome : Outcomes]]
            /\ \A q \in Workers : worker'[q].pc # "idle" => worker'[q].wd \in Withdrawals
        BY <2>1, <2>2, <3>1, WorkerTypes
      <3> QED
        BY <3>2, <3>3, <3>4 DEF Types, database
    <2>5. CASE associateAttemptTransfer(p)
      <3>1. \/ Finish(p)
            \/ ~At(p, "idle") /\ Goto(p, "apply")
            \/ ~At(p, "idle") /\ Goto(p, "unknown")
        BY <2>1, <2>5 DEF associateAttemptTransfer
      <3>2. associated' \subseteq Withdrawals
        BY <2>1, <2>5 DEF Types, associateAttemptTransfer
      <3> QED
        BY <2>1, <2>2, <2>5, <3>1, <3>2, WorkerTypes DEF Types, associateAttemptTransfer, outside
    <2>6. CASE RecordUnknownOutcome(p)
      BY <2>1, <2>2, <2>6, WorkerTypes DEF Types, RecordUnknownOutcome, AwaitingReconciliation, outside
    <2>7. CASE applyOutcome(p)
      BY <2>1, <2>2, <2>7, WorkerTypes, AppliedTypes DEF Types, applyOutcome, outside
    <2>8. CASE applyRejection(p)
      <3>1. ApplyFailure(d) => Applied(d, "FAILED")
        BY DEF Applied
      <3> QED
        BY <2>1, <2>2, <2>8, <3>1, WorkerTypes, AppliedTypes DEF Types, applyRejection, outside
    <2>9. CASE RecoverAssociate(p)
      <3>1. Finish(p) \/ (~At(p, "idle") /\ Goto(p, "apply"))
        BY <2>1, <2>9 DEF RecoverAssociate
      <3> QED
        BY <2>1, <2>2, <2>9, <3>1, WorkerTypes DEF Types, RecoverAssociate, outside
    <2>10. CASE ReplyWithTransfer(p) \/ LookUpTransfer(p) \/ RecoverLookUp(p)
      BY <2>1, <2>2, <2>10, OnlyWorker DEF ReplyWithTransfer, LookUpTransfer, RecoverLookUp
    <2>11. CASE \/ ClaimRefused(p) \/ ReplyWithoutId(p) \/ ReplyRejected(p)
                \/ ReplyUnknown(p) \/ reconcileWithdrawal(p) \/ Crash(p)
      BY <2>1, <2>2, <2>11, OnlyWorker DEF ClaimRefused, ReplyWithoutId, ReplyRejected,
         ReplyUnknown, reconcileWithdrawal, Crash
    <2> QED
      BY <1>6, <2>3, <2>4, <2>5, <2>6, <2>7, <2>8, <2>9, <2>10, <2>11 DEF Continue
  <1> QED
    BY <1>1, <1>2, <1>3, <1>4, <1>5, <1>6 DEF Next, Environment

THEOREM TypesHold == Spec => []Types
  <1>1. Init => Types
    BY ConstantsAssumption, TypesInit
  <1>2. Types /\ [Next]_vars => Types'
    BY ConstantsAssumption, TypesNext DEF Types, vars
  <1> QED
    BY <1>1, <1>2, PTL DEF Spec

-----------------------------------------------------------------------------
(* At most one transfer request *)

\* A row's one request is sent by the worker that claimed it: until the claim there was
\* none, the claiming worker holds the only right to send, and afterwards the row never
\* becomes PENDING again.
Unclaimed == {"none", "PENDING"}

OneRequest ==
    /\ \A p \in Workers : worker[p].pc # "idle" => status(worker[p].wd) # "none"
    /\ \A d \in Withdrawals :
         /\ requests[d] <= 1
         /\ status(d) \in Unclaimed => requests[d] = 0
         /\ transfer[d] # "none" => requests[d] = 1
    /\ \A p \in Workers :
         At(p, "send") => /\ requests[worker[p].wd] = 0
                          /\ status(worker[p].wd) \notin Unclaimed
    /\ \A p, q \in Workers :
         At(p, "send") /\ At(q, "send") /\ worker[p].wd = worker[q].wd => p = q

\* Only creating a row, claiming it and sending its request matter to OneRequest.
LEMMA OneRequestKept ==
    ASSUME Types, OneRequest, NEW p \in Workers,
           UNCHANGED requests,
           \A d \in Withdrawals : transfer'[d] # "none" => transfer[d] # "none",
           \A d \in Withdrawals : status(d)' = status(d) \/ status(d)' \in Final,
           \A q \in Workers \ {p} : worker'[q] = worker[q],
           worker'[p].pc # "send",
           worker'[p].pc # "idle" => /\ worker'[p].wd \in Withdrawals
                                     /\ status(worker'[p].wd) # "none"
    PROVE  OneRequest'
  <1>1. \A d \in Withdrawals : /\ status(d)' \in Unclaimed => status(d) \in Unclaimed
                               /\ status(d)' = "none" => status(d) = "none"
    BY DEF Unclaimed, Final, status
  <1>2. \A q \in Workers : /\ At(q, "send")' => At(q, "send") /\ worker'[q] = worker[q]
                           /\ worker'[q].pc # "idle" => worker'[q].wd \in Withdrawals
    BY DEF At, Types
  <1>3. \A q \in Workers : worker'[q].pc # "idle" => status(worker[q].wd)' # "none"
    BY <1>1, <1>2 DEF OneRequest, status, At
  <1>4. \A d \in Withdrawals :
           /\ requests'[d] <= 1
           /\ status(d)' \in Unclaimed => requests'[d] = 0
           /\ transfer'[d] # "none" => requests'[d] = 1
    BY <1>1 DEF OneRequest, status
  <1>5. \A q \in Workers :
           At(q, "send")' => /\ requests'[worker'[q].wd] = 0
                             /\ status(worker[q].wd)' \notin Unclaimed
    BY <1>1, <1>2 DEF OneRequest, At, status
  <1>6. \A q, r \in Workers :
           At(q, "send")' /\ At(r, "send")' /\ worker'[q].wd = worker'[r].wd => q = r
    BY <1>2 DEF OneRequest, At
  <1> QED
    BY <1>3, <1>4, <1>5, <1>6 DEF OneRequest, At, status

LEMMA OneRequestNext ==
    ASSUME Types, ConstantsAssumption, OneRequest, Next
    PROVE  OneRequest'
  <1>1. ASSUME NEW w \in Wallets, NEW a \in Amounts, CreditWallet(w, a)
        PROVE  OneRequest'
    BY <1>1 DEF OneRequest, CreditWallet, At, status
  <1>2. ASSUME NEW d \in Withdrawals, NEW a \in Amounts, CreateSeekerWithdrawal(d, a)
        PROVE  OneRequest'
    <2>1. /\ status(d) = "none" /\ status(d)' = "PENDING"
          /\ \A e \in Withdrawals \ {d} : status(e)' = status(e)
      BY <1>2 DEF Types, CreateSeekerWithdrawal, status
    <2> QED
      BY <1>2, <2>1 DEF Types, OneRequest, CreateSeekerWithdrawal, outside, At, Unclaimed
  <1>3. ASSUME NEW d \in Withdrawals, NEW o \in {"SUCCESSFUL", "FAILED"}, ProviderSettles(d, o)
        PROVE  OneRequest'
    BY <1>3 DEF Types, OneRequest, ProviderSettles, database, At, status
  <1>4. ASSUME NEW d \in Withdrawals, ProviderReverses(d)
        PROVE  OneRequest'
    BY <1>4 DEF Types, OneRequest, ProviderReverses, database, At, status
  <1>5. ASSUME NEW p \in Workers, NEW d \in Withdrawals, StartOn(p, d)
        PROVE  OneRequest'
    <2>1. status(d) # "none" /\ UNCHANGED <<withdrawal, transfer, requests>>
      BY <1>5 DEF StartOn, BeginExecute, BeginReconcile, reconcilePendingWithdrawals,
         FlutterwaveWithdrawalWebhook,
         InOldestBatch, recoverFlutterwaveTransfer, Recoverable, database, outside
    <2>2. \E step \in {"claim", "reconcile", "recover"} : Start(p, step, d)
      BY <1>5 DEF StartOn, BeginExecute, BeginReconcile, reconcilePendingWithdrawals,
         FlutterwaveWithdrawalWebhook, recoverFlutterwaveTransfer
    <2> QED
      <3>1. PICK step \in {"claim", "reconcile", "recover"} : Start(p, step, d)
        BY <2>2
      <3>2. /\ \A q \in Workers \ {p} : worker'[q] = worker[q]
            /\ worker'[p].pc = step /\ worker'[p].wd = d
        BY <3>1, WorkerMoves
      <3> QED
        BY <2>1, <3>1, <3>2, OneRequestKept DEF status
  <1>6. ASSUME NEW p \in Workers, Continue(p) \/ Crash(p)
        PROVE  OneRequest'
    <2>0. PICK d \in Withdrawals : d = worker[p].wd
      BY <1>6, ContinueFacts
    <2>1. ~At(p, "idle") /\ d \in Withdrawals /\ status(d) # "none" /\ worker[p].wd = d
      BY <1>6, <2>0, ContinueFacts DEF OneRequest, At
    <2>2. CASE claimWithdrawal(p) /\ ~Claimable(d)
      BY <2>1, <2>2, WorkerMoves, OneRequestKept DEF claimWithdrawal, outside, status
    <2>3. CASE claimWithdrawal(p) /\ Claimable(d)
      <3>1. /\ status(d) = "PENDING" /\ status(d)' = "PROCESSING"
            /\ \A e \in Withdrawals \ {d} : status(e)' = status(e)
        <4>1. status(d) = "PENDING" /\ withdrawal' = [withdrawal EXCEPT ![d].status = "PROCESSING"]
          BY <2>1, <2>3 DEF claimWithdrawal, Claimable
        <4>2. "PROCESSING" \in Statuses
          BY DEF Statuses, Open
        <4> QED
          BY <2>1, <4>1, <4>2, StatusWritten
      <3>2. /\ requests[d] = 0
            /\ \A q \in Workers : At(q, "send") => worker[q].wd # d
        BY <2>1, <3>1 DEF OneRequest, Unclaimed
      <3>3. /\ \A q \in Workers \ {p} : worker'[q] = worker[q]
            /\ worker'[p].pc = "send" /\ worker'[p].wd = d
            /\ UNCHANGED <<requests, transfer>>
        BY <2>1, <2>3, WorkerMoves DEF claimWithdrawal, outside
      <3>4. \A e \in Withdrawals : /\ requests'[e] <= 1
                                   /\ status(e)' \in Unclaimed => requests'[e] = 0
                                   /\ transfer'[e] # "none" => requests'[e] = 1
        BY <3>1, <3>2, <3>3 DEF OneRequest, Unclaimed, status
      <3>5. \A q \in Workers : worker'[q].pc # "idle" => withdrawal'[worker'[q].wd].status # "none"
        BY <2>1, <3>1, <3>3 DEF OneRequest, Types, status
      <3>6. \A q \in Workers :
               At(q, "send")' => /\ requests'[worker'[q].wd] = 0
                                 /\ withdrawal'[worker'[q].wd].status \notin Unclaimed
        BY <2>1, <3>1, <3>2, <3>3 DEF OneRequest, Types, At, Unclaimed, status
      <3>7. \A q, r \in Workers :
               At(q, "send")' /\ At(r, "send")' /\ worker'[q].wd = worker'[r].wd => q = r
        BY <3>2, <3>3 DEF OneRequest, At
      <3> QED
        BY <3>4, <3>5, <3>6, <3>7 DEF OneRequest, status, At
    <2>4. CASE SendTransfer(p)
      <3>1. /\ \A q \in Workers \ {p} : worker'[q] = worker[q]
            /\ worker'[p].pc = "await" /\ worker'[p].wd = d
            /\ requests' = [requests EXCEPT ![d] = @ + 1]
            /\ \A e \in Withdrawals \ {d} : transfer'[e] = transfer[e]
            /\ UNCHANGED withdrawal
            /\ At(p, "send")
        BY <2>1, <2>4, WorkerMoves DEF SendTransfer, database, Types
      <3>2. /\ requests[d] = 0 /\ status(d) \notin Unclaimed
            /\ \A q \in Workers \ {p} : At(q, "send") => worker[q].wd # d
        BY <2>1, <3>1 DEF OneRequest
      <3>3. \A e \in Withdrawals : status(e)' = status(e)
        BY <3>1 DEF status
      <3>4. requests'[d] = 1 /\ \A e \in Withdrawals \ {d} : requests'[e] = requests[e]
        BY <2>1, <3>1, <3>2 DEF Types
      <3>5. \A e \in Withdrawals : /\ requests'[e] <= 1
                                   /\ status(e)' \in Unclaimed => requests'[e] = 0
                                   /\ transfer'[e] # "none" => requests'[e] = 1
        BY <3>1, <3>2, <3>3, <3>4 DEF OneRequest, status
      <3>6. \A q \in Workers : worker'[q].pc # "idle" => withdrawal'[worker'[q].wd].status # "none"
        BY <2>1, <3>1, <3>3 DEF OneRequest, Types, status
      <3>7. \A q \in Workers :
               At(q, "send")' => /\ requests'[worker'[q].wd] = 0
                                 /\ withdrawal'[worker'[q].wd].status \notin Unclaimed
        BY <2>1, <3>1, <3>2, <3>4 DEF OneRequest, Types, At, status
      <3>8. \A q, r \in Workers :
               At(q, "send")' /\ At(r, "send")' /\ worker'[q].wd = worker'[r].wd => q = r
        BY <3>1 DEF OneRequest, At
      <3> QED
        BY <3>5, <3>6, <3>7, <3>8 DEF OneRequest, status, At
    <2>5. CASE applyOutcome(p) \/ applyRejection(p)
      <3>1. \A e \in Withdrawals : status(e)' = status(e) \/ status(e)' \in Final
        <4>1. \/ UNCHANGED withdrawal
              \/ \E s \in Final : withdrawal' = [withdrawal EXCEPT ![d].status = s]
          BY <2>1, <2>5 DEF applyOutcome, applyRejection, Applied, ApplySuccess, ApplyFailure,
                      ApplyReversal, Final
        <4>2. ASSUME NEW s \in Final, withdrawal' = [withdrawal EXCEPT ![d].status = s]
              PROVE  \A e \in Withdrawals : status(e)' = status(e) \/ status(e)' \in Final
          <5>1. s \in Statuses
            BY <4>2 DEF Statuses
          <5> QED
            BY <2>1, <4>2, <5>1, StatusWritten
        <4> QED
          BY <4>1, <4>2 DEF status
      <3> QED
        BY <2>1, <2>5, <3>1, WorkerMoves, OneRequestKept
        DEF applyOutcome, applyRejection, outside
    <2>6. ASSUME UNCHANGED <<withdrawal, transfer, requests>>,
                 NEW outcome,
                 \/ Finish(p)
                 \/ \E step \in Steps \ {"idle", "send"} : Goto(p, step) \/ GotoWith(p, step, outcome)
          PROVE  OneRequest'
      BY <2>1, <2>6, WorkerMoves, OneRequestKept DEF status
    <2>7. CASE \/ ClaimRefused(p) \/ ReplyWithTransfer(p) \/ ReplyWithoutId(p)
               \/ ReplyRejected(p) \/ ReplyUnknown(p) \/ associateAttemptTransfer(p)
               \/ RecordUnknownOutcome(p) \/ reconcileWithdrawal(p) \/ LookUpTransfer(p)
               \/ RecoverLookUp(p) \/ RecoverAssociate(p) \/ Crash(p)
      BY <2>6, <2>7 DEF ClaimRefused, ReplyWithTransfer, ReplyWithoutId, ReplyRejected,
         ReplyUnknown, associateAttemptTransfer, RecordUnknownOutcome, reconcileWithdrawal,
         LookUpTransfer, RecoverLookUp, RecoverAssociate, Crash, database, outside, Steps
    <2> QED
      BY <1>6, <2>2, <2>3, <2>4, <2>5, <2>7 DEF Continue
  <1> QED
    BY <1>1, <1>2, <1>3, <1>4, <1>5, <1>6 DEF Next, Environment

THEOREM OneRequestHolds == Spec => []OneRequest
  <1>1. Init => OneRequest
    BY ConstantsAssumption DEF Init, OneRequest, Unclaimed, Idle, At, status
  <1>2. Types /\ OneRequest /\ [Next]_vars => OneRequest'
    BY ConstantsAssumption, OneRequestNext DEF OneRequest, vars, At, status
  <1> QED
    BY <1>1, <1>2, TypesHold, PTL DEF Spec

\* The provider is asked for the transfer of a withdrawal at most once, whatever the
\* number of workers that execute, retry, reconcile or crash (claimWithdrawal).
THEOREM AtMostOneTransferRequestHolds == Spec => []AtMostOneTransferRequest
  <1>1. OneRequest => AtMostOneTransferRequest
    BY DEF OneRequest, AtMostOneTransferRequest
  <1> QED
    BY <1>1, OneRequestHolds, PTL

-----------------------------------------------------------------------------
(* What a worker knows, and what a settled row says, is true of the provider *)

\* A settled transfer keeps its state, except that a success may be reversed.
TrueOf(outcome, d) ==
    /\ transfer[d] # "none"
    /\ outcome = "SUCCESSFUL" => transfer[d] \in {"SUCCESSFUL", "REVERSED"}
    /\ outcome \in {"FAILED", "REVERSED"} => transfer[d] = outcome

\* What worker p knows is true of the provider.
Knows(p) ==
    LET d == worker[p].wd
        outcome == worker[p].outcome IN
    /\ worker[p].pc \in {"associate", "recovered", "apply"} => TrueOf(outcome, d)
    /\ At(p, "apply") => outcome # "PROCESSING"
    /\ At(p, "await") => requests[d] = 1
    /\ At(p, "reject") =>
         /\ requests[d] = 1
         /\ ProviderOf[d] = "FLUTTERWAVE" => transfer[d] = "none"

\* What row d says is true of the provider.
Says(d) ==
    /\ status(d) = "SUCCESSFUL" => transfer[d] \in {"SUCCESSFUL", "REVERSED"}
    /\ ProviderOf[d] = "FLUTTERWAVE" /\ status(d) = "FAILED" =>
         /\ requests[d] = 1
         /\ transfer[d] \in {"none", "FAILED", "REVERSED"}

OutcomesAreTrue == (\A p \in Workers : Knows(p)) /\ (\A d \in Withdrawals : Says(d))

\* A step of worker p that leaves the provider alone.
LEMMA TruthKept ==
    ASSUME Types, OutcomesAreTrue, NEW p \in Workers,
           UNCHANGED <<transfer, requests>>,
           \A q \in Workers \ {p} : worker'[q] = worker[q],
           Knows(p)',
           \A d \in Withdrawals : status(d)' \notin Final \/ status(d)' = status(d) \/ Says(d)'
    PROVE  OutcomesAreTrue'
  <1>1. \A q \in Workers : Knows(q)'
    BY DEF OutcomesAreTrue, Knows, At, TrueOf
  <1>2. \A d \in Withdrawals : Says(d)'
    BY DEF OutcomesAreTrue, Says, Final, status
  <1> QED
    BY <1>1, <1>2 DEF OutcomesAreTrue

\* A step of the provider that keeps what was true: none stays none, and a settled
\* transfer changes from SUCCESSFUL to REVERSED only.
LEMMA ProviderKeepsTruth ==
    ASSUME OutcomesAreTrue, Types, UNCHANGED <<withdrawal, worker, requests>>,
           NEW d \in Withdrawals, NEW s \in {"SUCCESSFUL", "FAILED", "REVERSED"},
           transfer' = [transfer EXCEPT ![d] = s],
           \/ transfer[d] = "NEW"
           \/ transfer[d] = "SUCCESSFUL" /\ s = "REVERSED"
    PROVE  OutcomesAreTrue'
  <1>1. \A e \in Withdrawals : /\ e # d => transfer'[e] = transfer[e]
                               /\ transfer'[d] = s
    BY DEF Types
  <1>2. ASSUME NEW q \in Workers PROVE Knows(q)'
    <2>1. Knows(q) /\ (worker[q].pc # "idle" => worker[q].wd \in Withdrawals)
      BY DEF OutcomesAreTrue, Types
    <2>2. CASE worker[q].wd = d
      BY <1>1, <2>1, <2>2 DEF Knows, At, TrueOf
    <2>3. CASE worker[q].wd # d
      BY <1>1, <2>1, <2>3 DEF Knows, At, TrueOf
    <2> QED
      BY <2>2, <2>3
  <1>3. ASSUME NEW e \in Withdrawals PROVE Says(e)'
    <2>1. Says(e)
      BY DEF OutcomesAreTrue
    <2> QED
      BY <1>1, <2>1 DEF Says, status
  <1> QED
    BY <1>2, <1>3 DEF OutcomesAreTrue

LEMMA OutcomesNext ==
    ASSUME Types, ConstantsAssumption, OneRequest, OutcomesAreTrue, Next
    PROVE  OutcomesAreTrue'
  <1>1. ASSUME NEW w \in Wallets, NEW a \in Amounts, CreditWallet(w, a)
        PROVE  OutcomesAreTrue'
    BY <1>1 DEF OutcomesAreTrue, Knows, Says, TrueOf, CreditWallet, At, status
  <1>2. ASSUME NEW d \in Withdrawals, NEW a \in Amounts, CreateSeekerWithdrawal(d, a)
        PROVE  OutcomesAreTrue'
    <2>1. /\ status(d)' = "PENDING"
          /\ \A e \in Withdrawals \ {d} : status(e)' = status(e)
          /\ UNCHANGED <<transfer, worker, requests>>
      BY <1>2 DEF Types, CreateSeekerWithdrawal, status, outside
    <2>2. \A q \in Workers : Knows(q)'
      BY <2>1 DEF OutcomesAreTrue, Knows, TrueOf, At
    <2>3. \A e \in Withdrawals : Says(e)'
      BY <2>1 DEF OutcomesAreTrue, Says, status
    <2> QED
      BY <2>2, <2>3 DEF OutcomesAreTrue
  <1>3. ASSUME NEW d \in Withdrawals, NEW o \in {"SUCCESSFUL", "FAILED"}, ProviderSettles(d, o)
        PROVE  OutcomesAreTrue'
    BY <1>3, ProviderKeepsTruth DEF ProviderSettles, database
  <1>4. ASSUME NEW d \in Withdrawals, ProviderReverses(d)
        PROVE  OutcomesAreTrue'
    BY <1>4, ProviderKeepsTruth DEF ProviderReverses, database
  <1>5. ASSUME NEW p \in Workers, NEW d \in Withdrawals, StartOn(p, d)
        PROVE  OutcomesAreTrue'
    <2>1. /\ UNCHANGED <<withdrawal, transfer, requests>>
          /\ \E step \in {"claim", "reconcile", "recover"} : Start(p, step, d)
      BY <1>5 DEF StartOn, BeginExecute, BeginReconcile, reconcilePendingWithdrawals,
         FlutterwaveWithdrawalWebhook,
         recoverFlutterwaveTransfer, database, outside
    <2>2. /\ \A q \in Workers \ {p} : worker'[q] = worker[q]
          /\ worker'[p].pc \in {"claim", "reconcile", "recover"}
      BY <2>1, WorkerMoves
    <2>3. Knows(p)'
      BY <2>2 DEF Knows, At
    <2> QED
      BY <2>1, <2>2, <2>3, TruthKept DEF status
  <1>6. ASSUME NEW p \in Workers, Continue(p) \/ Crash(p)
        PROVE  OutcomesAreTrue'
    <2>0. PICK d \in Withdrawals : d = worker[p].wd
      BY <1>6, ContinueFacts
    <2>1. /\ ~At(p, "idle") /\ worker[p].wd = d /\ Knows(p)
          /\ transfer[d] \in TransferStates
      BY <1>6, <2>0, ContinueFacts DEF OutcomesAreTrue
    <2>2. CASE claimWithdrawal(p)
      <3>1. /\ \A q \in Workers \ {p} : worker'[q] = worker[q]
            /\ worker'[p].pc \in {"idle", "send"}
            /\ UNCHANGED <<requests, transfer>>
        BY <2>2, WorkerMoves DEF claimWithdrawal, outside
      <3>2. Knows(p)'
        BY <3>1 DEF Knows, At
      <3>3. \A e \in Withdrawals : status(e)' \notin Final \/ status(e)' = status(e)
        <4>1. CASE ~Claimable(d)
          BY <2>1, <2>2, <4>1 DEF claimWithdrawal, status
        <4>2. CASE withdrawal' = [withdrawal EXCEPT ![d].status = "PROCESSING"]
          <5>1. "PROCESSING" \in Statuses /\ "PROCESSING" \notin Final
            BY DEF Statuses, Open, Final
          <5> QED
            BY <4>2, <5>1, StatusWritten
        <4> QED
          BY <2>1, <2>2, <4>1, <4>2 DEF claimWithdrawal
      <3> QED
        BY <3>1, <3>2, <3>3, TruthKept
    <2>3. CASE SendTransfer(p)
      <3>1. /\ \A q \in Workers \ {p} : worker'[q] = worker[q]
            /\ worker'[p].pc = "await" /\ worker'[p].wd = d
            /\ requests'[d] = requests[d] + 1
            /\ \A e \in Withdrawals \ {d} : /\ requests'[e] = requests[e]
                                            /\ transfer'[e] = transfer[e]
            /\ UNCHANGED withdrawal
        BY <2>1, <2>3, WorkerMoves DEF SendTransfer, database, Types
      <3>2. requests[d] = 0 /\ requests'[d] = 1 /\ transfer[d] = "none"
        BY <2>1, <2>3, <3>1 DEF OneRequest, SendTransfer
      <3>3. ASSUME NEW q \in Workers PROVE Knows(q)'
        <4>1. CASE q = p
          BY <3>1, <3>2, <4>1 DEF Knows, At
        <4>2. CASE q # p /\ worker[q].wd # d
          <5>1. Knows(q) /\ worker'[q] = worker[q]
                /\ (worker[q].pc # "idle" => worker[q].wd \in Withdrawals)
            BY <3>1, <4>2 DEF OutcomesAreTrue, Types
          <5> QED
            BY <3>1, <4>2, <5>1 DEF Knows, At, TrueOf
        <4>3. CASE q # p /\ worker[q].wd = d
          <5>1. Knows(q) /\ worker'[q] = worker[q]
            BY <3>1, <4>3 DEF OutcomesAreTrue
          <5>2. worker[q].pc \notin {"associate", "recovered", "apply", "await", "reject"}
            BY <3>2, <4>3, <5>1 DEF Knows, TrueOf, At
          <5> QED
            BY <5>1, <5>2 DEF Knows, At
        <4> QED
          BY <4>1, <4>2, <4>3
      <3>4. ASSUME NEW e \in Withdrawals PROVE Says(e)'
        <4>1. Says(e)
          BY DEF OutcomesAreTrue
        <4>2. CASE e # d
          BY <3>1, <4>1, <4>2 DEF Says, status
        <4>3. CASE e = d
          BY <3>1, <3>2, <4>1, <4>3 DEF Says, status
        <4>4. QED
          BY <4>2, <4>3
      <3> QED
        BY <3>3, <3>4 DEF OutcomesAreTrue
    <2>4. CASE applyOutcome(p) \/ applyRejection(p)
      <3>1. /\ \A q \in Workers \ {p} : worker'[q] = worker[q]
            /\ worker'[p].pc = "idle"
            /\ UNCHANGED <<requests, transfer>>
        BY <2>4, WorkerMoves DEF applyOutcome, applyRejection, outside
      <3>2. Knows(p)'
        BY <3>1 DEF Knows, At
      <3>3. \A e \in Withdrawals :
               status(e)' \notin Final \/ status(e)' = status(e) \/ Says(e)'
        <4>1. CASE UNCHANGED withdrawal
          BY <4>1 DEF status
        <4>2. CASE ~UNCHANGED withdrawal
          <5>1. /\ transfer[d] # "none" => requests[d] = 1
                /\ \/ At(p, "apply") /\ Applied(d, worker[p].outcome)
                   \/ At(p, "reject") /\ ApplyFailure(d)
            BY <2>1, <2>4, <4>2 DEF applyOutcome, applyRejection, OneRequest
          <5>2. PICK s \in Final : withdrawal' = [withdrawal EXCEPT ![d].status = s]
            BY <5>1 DEF Applied, ApplySuccess, ApplyFailure, ApplyReversal, Final
          <5>3. \A e \in Withdrawals : status(e)' = IF e = d THEN s ELSE status(e)
            <6>1. s \in Statuses
              BY DEF Statuses
            <6> QED
              BY <5>2, <6>1, StatusWritten
          <5>4. \/ At(p, "reject") /\ s = "FAILED"
                \/ At(p, "apply") /\ worker[p].outcome = "SUCCESSFUL" /\ s = "SUCCESSFUL"
                \/ At(p, "apply") /\ worker[p].outcome = "FAILED" /\ s = "FAILED"
                \/ At(p, "apply") /\ worker[p].outcome = "REVERSED" /\ s = "FAILED"
            BY <5>1, <5>2 DEF Applied, ApplySuccess, ApplyFailure, ApplyReversal, Types
          <5>5. Says(d)'
            BY <2>1, <3>1, <5>1, <5>3, <5>4 DEF Says, Knows, At, TrueOf, status
          <5> QED
            BY <5>3, <5>5
        <4> QED
          BY <4>1, <4>2
      <3> QED
        BY <3>1, <3>2, <3>3, TruthKept
    <2>5. ASSUME UNCHANGED <<withdrawal, transfer, requests>>,
                 \A q \in Workers \ {p} : worker'[q] = worker[q],
                 Knows(p)'
          PROVE  OutcomesAreTrue'
      BY <2>5, TruthKept DEF status
    <2>6. CASE ReplyWithTransfer(p) \/ LookUpTransfer(p) \/ RecoverLookUp(p)
      <3>1. /\ UNCHANGED <<withdrawal, transfer, requests>>
            /\ \A q \in Workers \ {p} : worker'[q] = worker[q]
            /\ \/ worker'[p].pc = "idle"
               \/ /\ worker'[p].wd = d
                  /\ transfer[d] # "none"
                  /\ worker'[p].outcome = Normalized(transfer[d])
                  /\ \/ worker'[p].pc \in {"associate", "recovered"}
                     \/ worker'[p].pc = "apply" /\ Normalized(transfer[d]) # "PROCESSING"
        <4>1. /\ UNCHANGED <<withdrawal, transfer, requests>>
              /\ \/ Finish(p)
                 \/ /\ transfer[d] # "none"
                    /\ \/ GotoWith(p, "associate", Normalized(transfer[d]))
                       \/ GotoWith(p, "recovered", Normalized(transfer[d]))
                       \/ /\ GotoWith(p, "apply", Normalized(transfer[d]))
                          /\ Normalized(transfer[d]) # "PROCESSING"
          BY <2>1, <2>6 DEF ReplyWithTransfer, LookUpTransfer, RecoverLookUp, database, outside
        <4>2. \A step, outcome : GotoWith(p, step, outcome) =>
                 /\ \A q \in Workers \ {p} : worker'[q] = worker[q]
                 /\ worker'[p].pc = step /\ worker'[p].wd = d /\ worker'[p].outcome = outcome
          BY <2>1, WorkerMoves
        <4>3. Finish(p) => /\ \A q \in Workers \ {p} : worker'[q] = worker[q]
                           /\ worker'[p].pc = "idle"
          BY WorkerMoves
        <4> QED
          BY <4>1, <4>2, <4>3
      <3>2. Knows(p)'
        BY <2>1, <3>1 DEF Knows, At, TrueOf, Normalized, TransferStates
      <3> QED
        BY <2>5, <3>1, <3>2
    <2>7. CASE associateAttemptTransfer(p) \/ RecoverAssociate(p)
      <3>1. /\ UNCHANGED <<withdrawal, transfer, requests>>
            /\ \A q \in Workers \ {p} : worker'[q] = worker[q]
            /\ worker[p].pc \in {"associate", "recovered"}
            /\ \/ worker'[p].pc \in {"idle", "unknown"}
               \/ /\ worker'[p].pc = "apply" /\ worker'[p].wd = d
                  /\ worker'[p].outcome = worker[p].outcome
                  /\ worker[p].outcome # "PROCESSING"
        BY <2>1, <2>7, WorkerMoves DEF associateAttemptTransfer, RecoverAssociate, outside, At
      <3>2. Knows(p)'
        BY <2>1, <3>1 DEF Knows, At, TrueOf
      <3> QED
        BY <2>5, <3>1, <3>2
    <2>8. CASE ReplyRejected(p)
      <3>1. /\ UNCHANGED <<withdrawal, transfer, requests>>
            /\ \A q \in Workers \ {p} : worker'[q] = worker[q]
            /\ worker'[p].pc = "reject" /\ worker'[p].wd = d
            /\ At(p, "await") /\ TakenForRejection(d)
        BY <2>1, <2>8, WorkerMoves DEF ReplyRejected, database, outside
      <3>2. Knows(p)'
        BY <2>1, <3>1 DEF Knows, At, TakenForRejection
      <3> QED
        BY <2>5, <3>1, <3>2
    <2>9. CASE \/ ClaimRefused(p) \/ ReplyWithoutId(p) \/ ReplyUnknown(p)
               \/ RecordUnknownOutcome(p) \/ reconcileWithdrawal(p) \/ Crash(p)
      <3>1. /\ UNCHANGED <<withdrawal, transfer, requests>>
            /\ \A q \in Workers \ {p} : worker'[q] = worker[q]
            /\ worker'[p].pc \in {"idle", "unknown", "lookup"}
        BY <2>9, WorkerMoves DEF ClaimRefused, ReplyWithoutId, ReplyUnknown,
           RecordUnknownOutcome, reconcileWithdrawal, Crash, database, outside
      <3>2. Knows(p)'
        BY <3>1 DEF Knows, At
      <3> QED
        BY <2>5, <3>1, <3>2
    <2> QED
      BY <1>6, <2>2, <2>3, <2>4, <2>6, <2>7, <2>8, <2>9 DEF Continue
  <1> QED
    BY <1>1, <1>2, <1>3, <1>4, <1>5, <1>6 DEF Next, Environment

THEOREM OutcomesHold == Spec => []OutcomesAreTrue
  <1>1. Init => OutcomesAreTrue
    BY ConstantsAssumption DEF Init, OutcomesAreTrue, Knows, Says, Idle, At, status
  <1>2. Types /\ OneRequest /\ OutcomesAreTrue /\ [Next]_vars => OutcomesAreTrue'
    BY ConstantsAssumption, OutcomesNext DEF OutcomesAreTrue, Knows, Says, TrueOf, vars, At, status
  <1> QED
    BY <1>1, <1>2, TypesHold, OneRequestHolds, PTL DEF Spec

\* A seeker whose Flutterwave withdrawal FAILED, and who has the money back, is not paid
\* as well: the transfer was never made, failed, or was reversed (applyOutcome).
THEOREM NoRefundOfLivePayoutHolds == Spec => []NoRefundOfLivePayout
  <1>1. OutcomesAreTrue => NoRefundOfLivePayout
    BY DEF OutcomesAreTrue, Says, NoRefundOfLivePayout
  <1> QED
    BY <1>1, OutcomesHold, PTL

\* A withdrawal reported as SUCCESSFUL was paid by the provider (applyOutcome).
THEOREM SuccessIsRealHolds == Spec => []SuccessIsReal
  <1>1. OutcomesAreTrue => SuccessIsReal
    BY DEF OutcomesAreTrue, Says, SuccessIsReal
  <1> QED
    BY <1>1, OutcomesHold, PTL

-----------------------------------------------------------------------------
(* The rows behind the two balances *)

PendingRows(w) == RowsOf(w, Open) \cup Stranded(w)
CreditRows(w) == RowsOf(w, Open \cup {"SUCCESSFUL"})

\* The ledger tells which rows are settled, and how.
LedgerTellsStatus ==
    \A d \in Withdrawals :
        /\ <<d, "SUCCESSFUL">> \in ledger => status(d) \in Final
        /\ <<d, "REVERSED">> \in ledger => status(d) = "FAILED"
        /\ status(d) = "SUCCESSFUL" => <<d, "SUCCESSFUL">> \in ledger

Money == LedgerTellsStatus /\ PendingIsReserved /\ CreditIsConserved

LEMMA RowsFinite ==
    ASSUME ConstantsAssumption, Types, NEW w
    PROVE  /\ IsFiniteSet(PendingRows(w)) /\ PendingRows(w) \subseteq Withdrawals
           /\ IsFiniteSet(CreditRows(w)) /\ CreditRows(w) \subseteq Withdrawals
           /\ \A d \in Withdrawals : amounts[d] = amountOf(d) /\ amounts[d] \in Nat
  <1>1. PendingRows(w) \subseteq Withdrawals /\ CreditRows(w) \subseteq Withdrawals
    BY DEF PendingRows, CreditRows, RowsOf, Stranded
  <1>2. IsFiniteSet(PendingRows(w)) /\ IsFiniteSet(CreditRows(w))
    BY <1>1, FS_Subset DEF ConstantsAssumption
  <1>3. \A d \in Withdrawals : amounts[d] = amountOf(d) /\ amounts[d] \in Nat
    BY DEF amounts, amountOf, Types
  <1> QED
    BY <1>1, <1>2, <1>3

\* Money, and Money after a step, in terms of totals of constants.
LEMMA MoneyIsTotals ==
    Money <=>
        /\ LedgerTellsStatus
        /\ \A w \in Wallets : wallet[w].pending = TotalOf(amounts, PendingRows(w))
        /\ \A w \in Wallets :
             credited[w] = wallet[w].available + TotalOf(amounts, CreditRows(w))
  <1>1. \A w \in Wallets : /\ Total(PendingRows(w)) = TotalOf(amounts, PendingRows(w))
                           /\ Total(CreditRows(w)) = TotalOf(amounts, CreditRows(w))
    BY TotalIsTotalOf DEF PendingRows, CreditRows, RowsOf, Stranded
  <1> QED
    BY <1>1 DEF Money, PendingIsReserved, CreditIsConserved, PendingRows, CreditRows

LEMMA MoneyIsTotalsAfter ==
    ASSUME LedgerTellsStatus',
           \A w \in Wallets : wallet'[w].pending = TotalOf(amounts', PendingRows(w)'),
           \A w \in Wallets :
               credited'[w] = wallet'[w].available + TotalOf(amounts', CreditRows(w)')
    PROVE  Money'
  <1>1. \A w \in Wallets : /\ Total(PendingRows(w))' = TotalOf(amounts', PendingRows(w)')
                           /\ Total(CreditRows(w))' = TotalOf(amounts', CreditRows(w)')
    BY DEF Total, Units, TotalOf, UnitsOf, amounts, amountOf, PendingRows, CreditRows,
           RowsOf, Stranded
  <1> QED
    BY <1>1 DEF Money, PendingIsReserved, CreditIsConserved, PendingRows, CreditRows

-----------------------------------------------------------------------------
(* The four kinds of step *)

\* A step that moves no money may take a row from PENDING to PROCESSING.
LEMMA QuietKeepsMoney ==
    ASSUME Money, UNCHANGED <<wallet, credited, ledger>>,
           \A e \in Withdrawals :
               /\ amountOf(e)' = amountOf(e)
               /\ status(e)' = status(e) \/ (status(e) \in Open /\ status(e)' \in Open)
    PROVE  Money'
  <1>1. amounts' = amounts
    BY DEF amounts
  <1>2. \A w \in Wallets : PendingRows(w)' = PendingRows(w) /\ CreditRows(w)' = CreditRows(w)
    BY DEF PendingRows, CreditRows, RowsOf, Stranded, status, Open
  <1>3. LedgerTellsStatus'
    BY DEF Money, LedgerTellsStatus, status, Open, Final
  <1> QED
    BY <1>1, <1>2, <1>3, MoneyIsTotals, MoneyIsTotalsAfter

LEMMA CreditKeepsMoney ==
    ASSUME Money, Types, ConstantsAssumption,
           NEW w \in Wallets, NEW a \in Amounts, CreditWallet(w, a)
    PROVE  Money'
  <1>1. UNCHANGED <<withdrawal, ledger>>
    BY DEF CreditWallet
  <1>2. /\ amounts' = amounts
        /\ \A v \in Wallets : PendingRows(v)' = PendingRows(v) /\ CreditRows(v)' = CreditRows(v)
        /\ LedgerTellsStatus'
    BY <1>1 DEF amounts, amountOf, PendingRows, CreditRows, RowsOf, Stranded, status, Money,
                LedgerTellsStatus
  <1>3. /\ credited'[w] = credited[w] + a /\ wallet'[w].available = wallet[w].available + a
        /\ wallet'[w].pending = wallet[w].pending
        /\ \A v \in Wallets \ {w} : wallet'[v] = wallet[v] /\ credited'[v] = credited[v]
        /\ a \in Nat
    BY DEF CreditWallet, Types, ConstantsAssumption
  <1>4. \A v \in Wallets : /\ TotalOf(amounts, CreditRows(v)) \in Nat
                           /\ wallet[v].available \in Nat
    BY RowsFinite, UnitsFinite DEF Types
  <1>5. \A v \in Wallets : wallet'[v].pending = TotalOf(amounts', PendingRows(v)')
    BY <1>2, <1>3, MoneyIsTotals
  <1>6. \A v \in Wallets :
           credited'[v] = wallet'[v].available + TotalOf(amounts', CreditRows(v)')
    BY <1>2, <1>3, <1>4, MoneyIsTotals
  <1> QED
    BY <1>2, <1>5, <1>6, MoneyIsTotalsAfter

LEMMA ReservationKeepsMoney ==
    ASSUME Money, Types, ConstantsAssumption,
           NEW d \in Withdrawals, NEW a \in Amounts, CreateSeekerWithdrawal(d, a)
    PROVE  Money'
  <1> DEFINE w == WalletOf[d]
  <1>1. w \in Wallets /\ a \in Nat
    BY DEF ConstantsAssumption
  <1>2. /\ status(d) = "none" /\ status(d)' = "PENDING" /\ amountOf(d)' = a
        /\ \A e \in Withdrawals \ {d} : status(e)' = status(e) /\ amountOf(e)' = amountOf(e)
        /\ ledger' = ledger \cup {<<d, "RESERVED">>}
    BY DEF CreateSeekerWithdrawal, Types, status, amountOf
  <1>3. /\ <<d, "SUCCESSFUL">> \notin ledger /\ <<d, "REVERSED">> \notin ledger
        /\ LedgerTellsStatus'
    BY <1>2 DEF Money, LedgerTellsStatus, status, Final
  <1>4. /\ PendingRows(w)' = PendingRows(w) \cup {d} /\ d \notin PendingRows(w)
        /\ CreditRows(w)' = CreditRows(w) \cup {d} /\ d \notin CreditRows(w)
        /\ \A v \in Wallets \ {w} : /\ PendingRows(v)' = PendingRows(v)
                                    /\ CreditRows(v)' = CreditRows(v)
                                    /\ d \notin PendingRows(v) /\ d \notin CreditRows(v)
    BY <1>2, <1>3 DEF PendingRows, CreditRows, RowsOf, Stranded, status, Open
  <1>5. amounts'[d] = a /\ (\A e \in Withdrawals \ {d} : amounts'[e] = amounts[e])
    BY <1>2 DEF amounts
  <1>6. \A v \in Wallets : /\ TotalOf(amounts', PendingRows(v)) = TotalOf(amounts, PendingRows(v))
                           /\ TotalOf(amounts', CreditRows(v)) = TotalOf(amounts, CreditRows(v))
    BY <1>4, <1>5, RowsFinite, TotalSame
  <1>7. \A e \in Withdrawals : amounts'[e] \in Nat
    BY <1>1, <1>5, RowsFinite
  <1>8. /\ TotalOf(amounts', PendingRows(w) \cup {d}) = TotalOf(amounts', PendingRows(w)) + a
        /\ TotalOf(amounts', CreditRows(w) \cup {d}) = TotalOf(amounts', CreditRows(w)) + a
    BY <1>4, <1>5, <1>7, RowsFinite, TotalAdd
  <1>9. /\ wallet'[w].available = wallet[w].available - a
        /\ wallet'[w].pending = wallet[w].pending + a
        /\ \A v \in Wallets \ {w} : wallet'[v] = wallet[v]
        /\ credited' = credited
    BY <1>1 DEF CreateSeekerWithdrawal, Types, outside
  <1>10. \A v \in Wallets : /\ TotalOf(amounts, CreditRows(v)) \in Nat
                            /\ wallet[v].available \in Nat
    BY RowsFinite, UnitsFinite DEF Types
  <1> HIDE DEF w
  <1>11. \A v \in Wallets : wallet'[v].pending = TotalOf(amounts', PendingRows(v)')
    BY <1>4, <1>6, <1>8, <1>9, MoneyIsTotals
  <1>12. \A v \in Wallets :
            credited'[v] = wallet'[v].available + TotalOf(amounts', CreditRows(v)')
    <2>1. \A v \in Wallets : credited[v] = wallet[v].available + TotalOf(amounts, CreditRows(v))
      BY MoneyIsTotals
    <2>2. credited'[w] = wallet'[w].available + TotalOf(amounts', CreditRows(w)')
      BY <1>1, <1>4, <1>6, <1>8, <1>9, <1>10, <2>1
    <2>3. \A v \in Wallets \ {w} :
             credited'[v] = wallet'[v].available + TotalOf(amounts', CreditRows(v)')
      BY <1>4, <1>6, <1>9, <2>1
    <2> QED
      BY <2>2, <2>3
  <1> QED
    BY <1>3, <1>11, <1>12, MoneyIsTotalsAfter

\* What settling does to the balances of the wallets.
LEMMA SettledBalances ==
    ASSUME Types, ConstantsAssumption, NEW d \in Withdrawals,
           NEW x \in Nat, NEW y \in Nat, Settle(d, x, y)
    PROVE  /\ WalletOf[d] \in Wallets
           /\ wallet'[WalletOf[d]].pending = wallet[WalletOf[d]].pending - x
           /\ wallet'[WalletOf[d]].available = wallet[WalletOf[d]].available + y
           /\ \A v \in Wallets \ {WalletOf[d]} : wallet'[v] = wallet[v]
  BY DEF Settle, Types, ConstantsAssumption

\* A row d that gets the final status s and the ledger entry e: the total that backs each
\* balance loses the amount of d exactly when d leaves the rows behind it.
LEMMA SettlementKeepsMoney ==
    ASSUME Money, Types, ConstantsAssumption, NEW d \in Withdrawals,
           NEW s \in Final, NEW e \in EntryTypes, NEW x \in Nat, NEW y \in Nat,
           withdrawal' = [withdrawal EXCEPT ![d].status = s],
           ledger' = ledger \cup {<<d, e>>},
           UNCHANGED credited,
           Settle(d, x, y),
           \/ /\ s = "SUCCESSFUL" /\ e = "SUCCESSFUL" /\ status(d) \in Open
              /\ x = amountOf(d) /\ y = 0
           \/ /\ s = "FAILED" /\ e = "RELEASED" /\ status(d) \in Open
              /\ x = amountOf(d) /\ y = amountOf(d)
           \/ /\ s = "FAILED" /\ e = "REVERSED" /\ status(d) \in Open \cup {"SUCCESSFUL"}
              /\ x = 0 /\ y = amountOf(d)
    PROVE  Money'
  <1> DEFINE w == WalletOf[d]
             LeavesPending == x = amountOf(d)
             LeavesCredit == s = "FAILED"
  <1>1. /\ status(d)' = s
        /\ \A f \in Withdrawals \ {d} : status(f)' = status(f)
        /\ amounts' = amounts
    BY StatusWritten DEF Statuses, amounts
  <1>2. LedgerTellsStatus
    BY DEF Money
  <1>3. LedgerTellsStatus'
    BY <1>1, <1>2 DEF LedgerTellsStatus, status, Final, Open
  <1>4. /\ amountOf(d) \in Nat /\ amounts[d] = amountOf(d)
        /\ \A f \in Withdrawals : amounts[f] \in Nat
    BY RowsFinite
  <1>5. /\ PendingRows(w)' = IF e = "REVERSED" THEN PendingRows(w) ELSE PendingRows(w) \ {d}
        /\ e # "REVERSED" => d \in PendingRows(w)
    <2>1. w \in Wallets
      BY SettledBalances
    <2>2. CASE e = "REVERSED" /\ status(d) \in Open
      BY <1>1, <1>2, <2>2 DEF PendingRows, RowsOf, Stranded, status, Open, LedgerTellsStatus, Final
    <2>3. CASE e = "REVERSED" /\ status(d) = "SUCCESSFUL"
      BY <1>1, <1>2, <2>3 DEF PendingRows, RowsOf, Stranded, status, Open, LedgerTellsStatus, Final
    <2>4. CASE e # "REVERSED"
      BY <1>1, <1>2, <2>4 DEF PendingRows, RowsOf, Stranded, status, Open, LedgerTellsStatus, Final
    <2> QED
      BY <2>2, <2>3, <2>4
  <1>6. /\ CreditRows(w)' = IF s = "FAILED" THEN CreditRows(w) \ {d} ELSE CreditRows(w)
        /\ d \in CreditRows(w)
    BY <1>1 DEF CreditRows, RowsOf, status, Open, Final
  <1>7. \A v \in Wallets \ {w} : /\ PendingRows(v)' = PendingRows(v)
                                 /\ CreditRows(v)' = CreditRows(v)
    BY <1>1 DEF PendingRows, CreditRows, RowsOf, Stranded, status
  <1>8. /\ e # "REVERSED" => TotalOf(amounts, PendingRows(w) \ {d})
                                = TotalOf(amounts, PendingRows(w)) - amountOf(d)
        /\ TotalOf(amounts, CreditRows(w) \ {d}) = TotalOf(amounts, CreditRows(w)) - amountOf(d)
    BY <1>4, <1>5, <1>6, RowsFinite, TotalRemove
  <1>9. /\ w \in Wallets
        /\ wallet'[w].pending = wallet[w].pending - x
        /\ wallet'[w].available = wallet[w].available + y
        /\ \A v \in Wallets \ {w} : wallet'[v] = wallet[v]
    BY SettledBalances
  <1>10. /\ \A v \in Wallets : wallet[v].pending = TotalOf(amounts, PendingRows(v))
         /\ \A v \in Wallets :
              credited[v] = wallet[v].available + TotalOf(amounts, CreditRows(v))
         /\ wallet[w].pending \in Int /\ wallet[w].available \in Nat
         /\ TotalOf(amounts, CreditRows(w)) \in Nat
    BY <1>9, MoneyIsTotals, RowsFinite, UnitsFinite DEF Types
  <1> HIDE DEF w
  <1>11. \A v \in Wallets : wallet'[v].pending = TotalOf(amounts', PendingRows(v)')
    <2>1. wallet'[w].pending = TotalOf(amounts', PendingRows(w)')
      BY <1>1, <1>4, <1>5, <1>8, <1>9, <1>10
    <2> QED
      BY <1>1, <1>7, <1>9, <1>10, <2>1
  <1>12. \A v \in Wallets :
            credited'[v] = wallet'[v].available + TotalOf(amounts', CreditRows(v)')
    <2>1. credited'[w] = wallet'[w].available + TotalOf(amounts', CreditRows(w)')
      BY <1>1, <1>4, <1>6, <1>8, <1>9, <1>10
    <2> QED
      BY <1>1, <1>7, <1>9, <1>10, <2>1
  <1> QED
    BY <1>3, <1>11, <1>12, MoneyIsTotalsAfter

-----------------------------------------------------------------------------
(* Which steps move money *)

\* applyOutcome and applyRejection settle a row that is open, or reverse a success.
LEMMA SettlesOpenRow ==
    ASSUME Types, OneRequest, NEW p \in Workers, applyOutcome(p) \/ applyRejection(p)
    PROVE  \/ UNCHANGED <<wallet, withdrawal, ledger>>
           \/ \E d \in Withdrawals :
                \/ ApplySuccess(d) /\ status(d) \in Open
                \/ ApplyFailure(d) /\ status(d) \in Open
                \/ ApplyReversal(d) /\ status(d) \in Open \cup {"SUCCESSFUL"}
  <1>1. PICK d \in Withdrawals : d = worker[p].wd
    BY ContinueFacts DEF Continue
  <1>2. status(d) \in Statuses /\ status(d) # "none"
    BY <1>1, ContinueFacts DEF Types, status, OneRequest, Continue, At
  <1>3. CASE applyOutcome(p)
    BY <1>1, <1>2, <1>3 DEF applyOutcome, Applied, AlreadySettled, Statuses, Final, Open
  <1>4. CASE applyRejection(p)
    BY <1>1, <1>2, <1>4 DEF applyRejection, AlreadySettled, Statuses, Final, Open
  <1> QED
    BY <1>3, <1>4

LEMMA AppliedKeepsMoney ==
    ASSUME Money, Types, ConstantsAssumption, NEW d \in Withdrawals, UNCHANGED credited,
           \/ ApplySuccess(d) /\ status(d) \in Open
           \/ ApplyFailure(d) /\ status(d) \in Open
           \/ ApplyReversal(d) /\ status(d) \in Open \cup {"SUCCESSFUL"}
    PROVE  Money'
  <1>1. amountOf(d) \in Nat /\ 0 \in Nat
    BY DEF amountOf, Types
  <1>2. CASE ApplySuccess(d) /\ status(d) \in Open
    BY <1>1, <1>2, SettlementKeepsMoney DEF ApplySuccess, Final, EntryTypes
  <1>3. CASE ApplyFailure(d) /\ status(d) \in Open
    BY <1>1, <1>3, SettlementKeepsMoney DEF ApplyFailure, Final, EntryTypes
  <1>4. CASE ApplyReversal(d) /\ status(d) \in Open \cup {"SUCCESSFUL"}
    BY <1>1, <1>4, SettlementKeepsMoney DEF ApplyReversal, ReleasedByReversal, Final, EntryTypes
  <1> QED
    BY <1>2, <1>3, <1>4

\* Every other step of a worker moves no money; the claim is the only one among them that
\* changes a row.
LEMMA WorkersAreQuiet ==
    ASSUME Types, NEW p \in Workers,
           \/ \E d \in Withdrawals : StartOn(p, d)
           \/ Crash(p)
           \/ Continue(p) /\ ~applyOutcome(p) /\ ~applyRejection(p)
    PROVE  /\ UNCHANGED <<wallet, credited, ledger>>
           /\ \/ UNCHANGED withdrawal
              \/ \E d \in Withdrawals :
                   /\ status(d) = "PENDING"
                   /\ withdrawal' = [withdrawal EXCEPT ![d].status = "PROCESSING"]
  <1>1. CASE \E d \in Withdrawals : StartOn(p, d)
    BY <1>1 DEF StartOn, BeginExecute, BeginReconcile, reconcilePendingWithdrawals,
         FlutterwaveWithdrawalWebhook,
       recoverFlutterwaveTransfer, database, outside
  <1>2. CASE claimWithdrawal(p)
    <2>1. worker[p].wd \in Withdrawals
      BY <1>2, ContinueFacts DEF Continue
    <2> QED
      BY <1>2, <2>1 DEF claimWithdrawal, Claimable, outside
  <1>3. CASE Crash(p) \/ (Continue(p) /\ ~applyOutcome(p) /\ ~applyRejection(p) /\ ~claimWithdrawal(p))
    BY <1>3 DEF Crash, Continue, ClaimRefused, SendTransfer, ReplyWithTransfer, ReplyWithoutId,
       ReplyRejected, ReplyUnknown, associateAttemptTransfer, RecordUnknownOutcome,
       reconcileWithdrawal, LookUpTransfer, RecoverLookUp, RecoverAssociate, database, outside
  <1> QED
    BY <1>1, <1>2, <1>3

LEMMA QuietStep ==
    ASSUME Money, Types, UNCHANGED <<wallet, credited, ledger>>,
           \/ UNCHANGED withdrawal
           \/ \E d \in Withdrawals :
                /\ status(d) = "PENDING"
                /\ withdrawal' = [withdrawal EXCEPT ![d].status = "PROCESSING"]
    PROVE  Money'
  <1>1. "PROCESSING" \in Statuses /\ {"PENDING", "PROCESSING"} \subseteq Open
    BY DEF Statuses, Open
  <1>2. \A e \in Withdrawals :
           /\ amountOf(e)' = amountOf(e)
           /\ status(e)' = status(e) \/ (status(e) \in Open /\ status(e)' \in Open)
    <2>1. CASE UNCHANGED withdrawal
      BY <2>1 DEF amountOf, status
    <2>2. ASSUME NEW d \in Withdrawals, status(d) = "PENDING",
                 withdrawal' = [withdrawal EXCEPT ![d].status = "PROCESSING"]
          PROVE  \A e \in Withdrawals :
                    /\ amountOf(e)' = amountOf(e)
                    /\ status(e)' = status(e) \/ (status(e) \in Open /\ status(e)' \in Open)
      BY <1>1, <2>2, StatusWritten
    <2> QED
      BY <2>1, <2>2
  <1> QED
    BY <1>2, QuietKeepsMoney

LEMMA MoneyNext ==
    ASSUME Money, Types, OneRequest, ConstantsAssumption, Next
    PROVE  Money'
  <1>1. ASSUME NEW w \in Wallets, NEW a \in Amounts, CreditWallet(w, a)
        PROVE  Money'
    BY <1>1, CreditKeepsMoney
  <1>2. ASSUME NEW d \in Withdrawals, NEW a \in Amounts, CreateSeekerWithdrawal(d, a)
        PROVE  Money'
    BY <1>2, ReservationKeepsMoney
  <1>3. ASSUME NEW d \in Withdrawals,
               (\E o \in {"SUCCESSFUL", "FAILED"} : ProviderSettles(d, o)) \/ ProviderReverses(d)
        PROVE  Money'
    BY <1>3, QuietStep DEF ProviderSettles, ProviderReverses, database
  <1>4. ASSUME NEW p \in Workers, applyOutcome(p) \/ applyRejection(p)
        PROVE  Money'
    <2>1. UNCHANGED credited
      BY <1>4 DEF applyOutcome, applyRejection, outside
    <2> QED
      BY <1>4, <2>1, SettlesOpenRow, AppliedKeepsMoney, QuietStep
  <1>5. ASSUME NEW p \in Workers,
               \/ \E d \in Withdrawals : StartOn(p, d)
               \/ Crash(p)
               \/ Continue(p) /\ ~applyOutcome(p) /\ ~applyRejection(p)
        PROVE  Money'
    BY <1>5, WorkersAreQuiet, QuietStep
  <1> QED
    BY <1>1, <1>2, <1>3, <1>4, <1>5 DEF Next, Environment

LEMMA MoneyInit ==
    ASSUME Init, ConstantsAssumption
    PROVE  Money
  <1>1. LedgerTellsStatus
    BY DEF Init, LedgerTellsStatus, status, Legacy
  <1>2. ASSUME NEW w \in Wallets
        PROVE  /\ RowsOf(w, Open) \cup Stranded(w) = RowsOf(w, {"PENDING"})
               /\ RowsOf(w, Open \cup {"SUCCESSFUL"}) = RowsOf(w, {"PENDING"})
    <2>1. \A d \in Withdrawals : status(d) \in {"none", "PENDING"} /\ <<d, "REVERSED">> \notin ledger
      BY DEF Init, status, Legacy
    <2> QED
      BY <2>1 DEF RowsOf, Stranded, Open
  <1>3. \A w \in Wallets : Total(RowsOf(w, {"PENDING"})) \in Nat
    <2>1. Types
      BY TypesInit
    <2> QED
      BY <2>1, TypesInit DEF Init, Types
  <1>4. \A w \in Wallets : /\ wallet[w].pending = Total(RowsOf(w, {"PENDING"}))
                           /\ wallet[w].available = 0
                           /\ credited[w] = Total(RowsOf(w, {"PENDING"}))
    BY DEF Init
  <1>5. PendingIsReserved
    BY <1>2, <1>4 DEF PendingIsReserved
  <1>6. CreditIsConserved
    <2> SUFFICES ASSUME NEW w \in Wallets
                 PROVE  credited[w] = wallet[w].available
                                        + Total(RowsOf(w, Open \cup {"SUCCESSFUL"}))
      BY DEF CreditIsConserved
    <2>1. Total(RowsOf(w, Open \cup {"SUCCESSFUL"})) = Total(RowsOf(w, {"PENDING"}))
      BY <1>2
    <2> QED
      BY <1>3, <1>4, <2>1
  <1> QED
    BY <1>1, <1>5, <1>6 DEF Money

THEOREM MoneyHolds == Spec => []Money
  <1>1. Init => Money
    BY ConstantsAssumption, MoneyInit
  <1>2. Money /\ Types /\ OneRequest /\ [Next]_vars => Money'
    <2>1. ASSUME Money, UNCHANGED vars PROVE Money'
      <3>1. UNCHANGED <<wallet, credited, ledger, withdrawal>>
        BY <2>1 DEF vars
      <3> QED
        BY <2>1, <3>1, QuietKeepsMoney DEF amountOf, status
    <2> QED
      BY <2>1, ConstantsAssumption, MoneyNext
  <1> QED
    BY <1>1, <1>2, TypesHold, OneRequestHolds, PTL DEF Spec

\* A wallet's pending balance is exactly the reservations of its open withdrawals and
\* those that a reversal stranded (createSeekerWithdrawal, applyOutcome).
THEOREM PendingIsReservedHolds == Spec => []PendingIsReserved
  <1>1. Money => PendingIsReserved
    BY DEF Money
  <1> QED
    BY <1>1, MoneyHolds, PTL

\* Whatever is credited to a wallet is available, reserved or paid out, once.
THEOREM CreditIsConservedHolds == Spec => []CreditIsConserved
  <1>1. Money => CreditIsConserved
    BY DEF Money
  <1> QED
    BY <1>1, MoneyHolds, PTL

\* Types with the accounting: a pending balance is a total, so it is never negative.
THEOREM TypeOKHolds == Spec => []TypeOK
  <1>1. Types /\ Money => TypeOK
    <2>1. ASSUME Types, Money, NEW w \in Wallets
          PROVE  wallet[w] \in [available : Nat, pending : Nat]
      <3>1. wallet[w].pending = TotalOf(amounts, PendingRows(w))
        BY <2>1, MoneyIsTotals
      <3>2. TotalOf(amounts, PendingRows(w)) \in Nat
        BY <2>1, ConstantsAssumption, RowsFinite, UnitsFinite
      <3>3. wallet[w] \in [available : Nat, pending : Int]
        BY <2>1 DEF Types
      <3> QED
        BY <3>1, <3>2, <3>3
    <2>2. ASSUME Types, Money
          PROVE  wallet \in [Wallets -> [available : Nat, pending : Nat]]
      <3>1. wallet = [w \in Wallets |-> wallet[w]]
        BY <2>2 DEF Types
      <3> QED
        BY <2>1, <2>2, <3>1
    <2>3. ASSUME Types, Money PROVE TypeOK
      BY <2>2, <2>3 DEF Types, TypeOK
    <2> QED
      BY <2>3
  <1> QED
    BY <1>1, TypesHold, MoneyHolds, PTL

-----------------------------------------------------------------------------
(* A settled row stays settled *)

\* A settled withdrawal changes only from SUCCESSFUL to FAILED, and only when the provider
\* reversed its transfer: late replies, duplicate webhooks and stale lookups change nothing
\* (the already-final check of applyOutcome, under the row's lock).
SettledStep ==
    \A d \in Withdrawals :
        status(d) \in Final /\ status(d)' # status(d) =>
            /\ status(d) = "SUCCESSFUL"
            /\ status(d)' = "FAILED"
            /\ transfer[d] = "REVERSED"

LEMMA SettledNext ==
    ASSUME Types, ConstantsAssumption, OneRequest, OutcomesAreTrue, Next
    PROVE  SettledStep
  <1>1. ASSUME UNCHANGED withdrawal PROVE SettledStep
    BY <1>1 DEF SettledStep, status
  <1>2. ASSUME NEW e \in Withdrawals, NEW a \in Amounts, CreateSeekerWithdrawal(e, a)
        PROVE  SettledStep
    <2>1. status(e) = "none" /\ \A d \in Withdrawals \ {e} : status(d)' = status(d)
      BY <1>2 DEF CreateSeekerWithdrawal, Types, status
    <2> QED
      BY <2>1 DEF SettledStep, Final
  <1>3. ASSUME NEW p \in Workers, applyOutcome(p) \/ applyRejection(p)
        PROVE  SettledStep
    <2>0. PICK e \in Withdrawals : e = worker[p].wd
      BY <1>3, ContinueFacts DEF Continue
    <2>1. CASE UNCHANGED withdrawal
      BY <1>1, <2>1
    <2>2. CASE ~UNCHANGED withdrawal
      <3>1. /\ ~AlreadySettled(e, IF At(p, "reject") THEN "FAILED" ELSE worker[p].outcome)
            /\ \/ At(p, "apply") /\ Applied(e, worker[p].outcome)
               \/ At(p, "reject") /\ ApplyFailure(e)
        BY <1>3, <2>0, <2>2 DEF applyOutcome, applyRejection, At
      <3>2. PICK s \in Final : withdrawal' = [withdrawal EXCEPT ![e].status = s]
        BY <3>1 DEF Applied, ApplySuccess, ApplyFailure, ApplyReversal, Final
      <3>3. \A d \in Withdrawals : status(d)' = IF d = e THEN s ELSE status(d)
        <4>1. s \in Statuses
          BY DEF Statuses
        <4> QED
          BY <3>2, <4>1, StatusWritten
      <3>4. CASE status(e) \in Final
        <4>1. worker[p].outcome = "REVERSED" /\ status(e) = "SUCCESSFUL" /\ At(p, "apply")
          BY <3>1, <3>4 DEF AlreadySettled, Final
        <4>2. transfer[e] = "REVERSED"
          BY <2>0, <4>1 DEF OutcomesAreTrue, Knows, TrueOf, At
        <4>3. s = "FAILED"
          BY <2>0, <3>1, <3>2, <4>1 DEF Applied, ApplyReversal, Types, At
        <4> QED
          BY <3>3, <4>1, <4>2, <4>3 DEF SettledStep
      <3>5. CASE status(e) \notin Final
        BY <3>3, <3>5 DEF SettledStep
      <3> QED
        BY <3>4, <3>5
    <2> QED
      BY <2>1, <2>2
  <1>4. ASSUME NEW p \in Workers,
               \/ \E d \in Withdrawals : StartOn(p, d)
               \/ Crash(p)
               \/ Continue(p) /\ ~applyOutcome(p) /\ ~applyRejection(p)
        PROVE  SettledStep
    <2>1. ASSUME NEW e \in Withdrawals, status(e) = "PENDING",
                 withdrawal' = [withdrawal EXCEPT ![e].status = "PROCESSING"]
          PROVE  SettledStep
      <3>1. "PROCESSING" \in Statuses
        BY DEF Statuses, Open
      <3>2. \A d \in Withdrawals \ {e} : status(d)' = status(d)
        BY <2>1, <3>1, StatusWritten
      <3> QED
        BY <2>1, <3>2 DEF SettledStep, Final
    <2> QED
      BY <1>1, <1>4, <2>1, WorkersAreQuiet
  <1>5. ASSUME \/ \E w \in Wallets, a \in Amounts : CreditWallet(w, a)
               \/ \E d \in Withdrawals, o \in {"SUCCESSFUL", "FAILED"} : ProviderSettles(d, o)
               \/ \E d \in Withdrawals : ProviderReverses(d)
        PROVE  SettledStep
    BY <1>1, <1>5 DEF CreditWallet, ProviderSettles, ProviderReverses, database
  <1> QED
    BY <1>2, <1>3, <1>4, <1>5 DEF Next, Environment

THEOREM SettledOnlyReversedHolds == Spec => SettledOnlyReversed
  <1>1. Types /\ OneRequest /\ OutcomesAreTrue /\ [Next]_vars => [SettledStep]_vars
    BY ConstantsAssumption, SettledNext
  <1> QED
    BY <1>1, TypesHold, OneRequestHolds, OutcomesHold, PTL
    DEF Spec, SettledOnlyReversed, SettledStep

-----------------------------------------------------------------------------
(* The withdrawal implements its ledger *)

LEMMA LedgerQuiet ==
    ASSUME Types, UNCHANGED credited,
           \A w \in Wallets : wallet'[w].available = wallet[w].available,
           \A d \in Withdrawals :
               /\ amountOf(d)' = amountOf(d)
               /\ status(d)' = status(d) \/ (status(d) \in Open /\ status(d)' \in Open)
    PROVE  UNCHANGED Ledger!vars
  <1>1. [w \in Wallets |-> wallet[w].available]' = [w \in Wallets |-> wallet[w].available]
    OBVIOUS
  <1>2. [d \in Withdrawals |-> HoldingOf(d)]' = [d \in Withdrawals |-> HoldingOf(d)]
    <2>1. \A d \in Withdrawals : HoldingOf(d)' = HoldingOf(d)
      BY DEF HoldingOf, Open, status
    <2> QED
      BY <2>1
  <1>3. [d \in Withdrawals |-> amountOf(d)]' = [d \in Withdrawals |-> amountOf(d)]
    OBVIOUS
  <1> QED
    BY <1>1, <1>2, <1>3 DEF Ledger!vars

\* Settling a row pays it, or returns its amount to the balance.
LEMMA LedgerSettles ==
    ASSUME Types, ConstantsAssumption, UNCHANGED credited, NEW d \in Withdrawals,
           NEW s \in Final, NEW x \in Nat, NEW y \in Nat,
           withdrawal' = [withdrawal EXCEPT ![d].status = s],
           Settle(d, x, y),
           \/ s = "SUCCESSFUL" /\ y = 0 /\ status(d) \in Open
           \/ s = "FAILED" /\ y = amountOf(d) /\ status(d) \in Open \cup {"SUCCESSFUL"}
    PROVE  Ledger!Next
  <1>1. \A e \in Withdrawals : /\ status(e)' = IF e = d THEN s ELSE status(e)
                               /\ amountOf(e)' = amountOf(e)
    BY StatusWritten DEF Statuses
  <1>2. [e \in Withdrawals |-> amountOf(e)]' = [e \in Withdrawals |-> amountOf(e)]
    BY <1>1
  <1>3. [e \in Withdrawals |-> HoldingOf(e)]'
          = [[e \in Withdrawals |-> HoldingOf(e)] EXCEPT ![d] = HoldingOf(d)']
    <2>1. \A e \in Withdrawals \ {d} : HoldingOf(e)' = HoldingOf(e)
      BY <1>1 DEF HoldingOf, status
    <2> QED
      BY <2>1
  <1>4. [w \in Wallets |-> wallet[w].available]'
          = [[w \in Wallets |-> wallet[w].available] EXCEPT ![WalletOf[d]] = @ + y]
    <2>1. /\ WalletOf[d] \in Wallets
          /\ wallet'[WalletOf[d]].available = wallet[WalletOf[d]].available + y
          /\ \A v \in Wallets \ {WalletOf[d]} : wallet'[v] = wallet[v]
      BY SettledBalances
    <2> QED
      BY <2>1
  <1>5. /\ status(d) \in Open => HoldingOf(d) = "reserved"
        /\ status(d) = "SUCCESSFUL" => HoldingOf(d) = "paid"
        /\ s = "SUCCESSFUL" => HoldingOf(d)' = "paid"
        /\ s = "FAILED" => HoldingOf(d)' = "returned"
    BY <1>1 DEF HoldingOf, Open, status
  <1>6. CASE s = "SUCCESSFUL"
    <2>1. [w \in Wallets |-> wallet[w].available]' = [w \in Wallets |-> wallet[w].available]
      <3>1. y = 0 /\ \A w \in Wallets : wallet[w].available \in Nat
        BY <1>6 DEF Types
      <3> QED
        BY <1>4, <3>1
    <2>2. Ledger!Pay(d)
      BY <1>2, <1>3, <1>5, <1>6, <2>1 DEF Ledger!Pay
    <2> QED
      BY <2>2 DEF Ledger!Next
  <1>7. CASE s = "FAILED"
    <2>1. Ledger!Return(d)
      BY <1>2, <1>3, <1>4, <1>5, <1>7 DEF Ledger!Return
    <2> QED
      BY <2>1 DEF Ledger!Next
  <1> QED
    BY <1>6, <1>7 DEF Final

LEMMA LedgerNext ==
    ASSUME Types, ConstantsAssumption, OneRequest, Next
    PROVE  Ledger!Next \/ UNCHANGED Ledger!vars
  <1>1. ASSUME NEW w \in Wallets, NEW a \in Amounts, CreditWallet(w, a)
        PROVE  Ledger!Next
    <2>1. [v \in Wallets |-> wallet[v].available]'
            = [[v \in Wallets |-> wallet[v].available] EXCEPT ![w] = @ + a]
      <3>1. /\ wallet'[w].available = wallet[w].available + a
            /\ \A v \in Wallets \ {w} : wallet'[v] = wallet[v]
        BY <1>1 DEF CreditWallet, Types
      <3> QED
        BY <3>1
    <2>2. UNCHANGED withdrawal /\ credited' = [credited EXCEPT ![w] = @ + a]
      BY <1>1 DEF CreditWallet
    <2>3. /\ [d \in Withdrawals |-> HoldingOf(d)]' = [d \in Withdrawals |-> HoldingOf(d)]
          /\ [d \in Withdrawals |-> amountOf(d)]' = [d \in Withdrawals |-> amountOf(d)]
      BY <2>2 DEF HoldingOf, amountOf, status
    <2> QED
      BY <2>1, <2>2, <2>3 DEF Ledger!Next, Ledger!Deposit
  <1>2. ASSUME NEW d \in Withdrawals, NEW a \in Amounts, CreateSeekerWithdrawal(d, a)
        PROVE  Ledger!Next
    <2> DEFINE w == WalletOf[d]
    <2>1. /\ w \in Wallets /\ a <= wallet[w].available
          /\ wallet'[w].available = wallet[w].available - a
          /\ \A v \in Wallets \ {w} : wallet'[v] = wallet[v]
          /\ status(d) = "none" /\ status(d)' = "PENDING" /\ amountOf(d)' = a
          /\ \A e \in Withdrawals \ {d} : status(e)' = status(e) /\ amountOf(e)' = amountOf(e)
      BY <1>2 DEF CreateSeekerWithdrawal, CanReserve, Types, ConstantsAssumption, status, amountOf
    <2>2. [v \in Wallets |-> wallet[v].available]'
            = [[v \in Wallets |-> wallet[v].available] EXCEPT ![w] = @ - a]
      BY <2>1
    <2>3. /\ HoldingOf(d) = "none" /\ HoldingOf(d)' = "reserved"
          /\ \A e \in Withdrawals \ {d} : HoldingOf(e)' = HoldingOf(e)
      BY <2>1 DEF HoldingOf, Open, status
    <2>4. [e \in Withdrawals |-> HoldingOf(e)]'
            = [[e \in Withdrawals |-> HoldingOf(e)] EXCEPT ![d] = "reserved"]
      BY <2>3
    <2>5. [e \in Withdrawals |-> amountOf(e)]'
            = [[e \in Withdrawals |-> amountOf(e)] EXCEPT ![d] = a]
      BY <2>1
    <2>6. UNCHANGED credited
      BY <1>2 DEF CreateSeekerWithdrawal, outside
    <2>7. Ledger!Reserve(d, a)
      BY <2>1, <2>2, <2>3, <2>4, <2>5, <2>6 DEF Ledger!Reserve
    <2> QED
      BY <2>7 DEF Ledger!Next
  <1>3. ASSUME UNCHANGED <<wallet, credited>>,
               \/ UNCHANGED withdrawal
               \/ \E d \in Withdrawals :
                    /\ status(d) = "PENDING"
                    /\ withdrawal' = [withdrawal EXCEPT ![d].status = "PROCESSING"]
        PROVE  UNCHANGED Ledger!vars
    <2>1. "PROCESSING" \in Statuses /\ {"PENDING", "PROCESSING"} \subseteq Open
      BY DEF Statuses, Open
    <2>2. CASE UNCHANGED withdrawal
      BY <1>3, <2>2, LedgerQuiet DEF amountOf, status
    <2>3. ASSUME NEW d \in Withdrawals, status(d) = "PENDING",
                 withdrawal' = [withdrawal EXCEPT ![d].status = "PROCESSING"]
          PROVE  UNCHANGED Ledger!vars
      <3>1. \A e \in Withdrawals :
               /\ amountOf(e)' = amountOf(e)
               /\ status(e)' = status(e) \/ (status(e) \in Open /\ status(e)' \in Open)
        BY <2>1, <2>3, StatusWritten
      <3> QED
        BY <1>3, <3>1, LedgerQuiet
    <2> QED
      BY <1>3, <2>2, <2>3
  <1>4. ASSUME NEW p \in Workers, applyOutcome(p) \/ applyRejection(p)
        PROVE  Ledger!Next \/ UNCHANGED Ledger!vars
    <2>1. UNCHANGED credited
      BY <1>4 DEF applyOutcome, applyRejection, outside
    <2>2. ASSUME NEW d \in Withdrawals,
                 \/ ApplySuccess(d) /\ status(d) \in Open
                 \/ ApplyFailure(d) /\ status(d) \in Open
                 \/ ApplyReversal(d) /\ status(d) \in Open \cup {"SUCCESSFUL"}
          PROVE  Ledger!Next
      <3>1. amountOf(d) \in Nat /\ 0 \in Nat
        BY DEF Types, amountOf
      <3>2. CASE ApplySuccess(d) /\ status(d) \in Open
        BY <2>1, <3>1, <3>2, LedgerSettles DEF ApplySuccess, Final
      <3>3. CASE ApplyFailure(d) /\ status(d) \in Open
        BY <2>1, <3>1, <3>3, LedgerSettles DEF ApplyFailure, Final
      <3>4. CASE ApplyReversal(d) /\ status(d) \in Open \cup {"SUCCESSFUL"}
        BY <2>1, <3>1, <3>4, LedgerSettles DEF ApplyReversal, ReleasedByReversal, Final
      <3> QED
        BY <2>2, <3>2, <3>3, <3>4
    <2> QED
      BY <1>3, <1>4, <2>1, <2>2, SettlesOpenRow
  <1>5. ASSUME NEW p \in Workers,
               \/ \E d \in Withdrawals : StartOn(p, d)
               \/ Crash(p)
               \/ Continue(p) /\ ~applyOutcome(p) /\ ~applyRejection(p)
        PROVE  UNCHANGED Ledger!vars
    BY <1>3, <1>5, WorkersAreQuiet
  <1>6. ASSUME NEW d \in Withdrawals,
               (\E o \in {"SUCCESSFUL", "FAILED"} : ProviderSettles(d, o)) \/ ProviderReverses(d)
        PROVE  UNCHANGED Ledger!vars
    BY <1>3, <1>6 DEF ProviderSettles, ProviderReverses, database
  <1> QED
    BY <1>1, <1>2, <1>4, <1>5, <1>6 DEF Next, Environment

\* Seen from the wallet's owner, the workers, the provider, the retries and the crashes
\* implement WithdrawalLedger: one reservation, one payment, at most one return.
THEOREM ImplementsLedgerHolds == Spec => ImplementsLedger
  <1>1. Init => Ledger!Init
    <2>1. SUFFICES ASSUME Init PROVE Ledger!Init
      OBVIOUS
    <2>2. [w \in Wallets |-> wallet[w].available] = [w \in Wallets |-> 0]
      BY <2>1 DEF Init
    <2>3. \A d \in Withdrawals : HoldingOf(d) \in {"none", "reserved"} /\ amountOf(d) \in Nat
      BY <2>1, ConstantsAssumption DEF Init, HoldingOf, amountOf, status, Open
    <2>4. credited \in [Wallets -> Nat]
      BY <2>1, ConstantsAssumption, TypesInit DEF Types
    <2> QED
      BY <2>2, <2>3, <2>4 DEF Ledger!Init
  <1>2. Types /\ OneRequest /\ [Next]_vars => [Ledger!Next]_(Ledger!vars)
    <2>1. ASSUME Types, UNCHANGED vars PROVE UNCHANGED Ledger!vars
      <3>1. UNCHANGED <<wallet, withdrawal, credited>>
        BY <2>1 DEF vars
      <3> QED
        BY <2>1, <3>1, LedgerQuiet DEF amountOf, status
    <2> QED
      BY <2>1, ConstantsAssumption, LedgerNext
  <1> QED
    BY <1>1, <1>2, TypesHold, OneRequestHolds, PTL DEF Spec, ImplementsLedger, Ledger!Spec
=============================================================================
