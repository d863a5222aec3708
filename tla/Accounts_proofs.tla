-------------------------- MODULE Accounts_proofs --------------------------
(***************************************************************************)
(* Proofs about the components that Accounts composes, for every value of  *)
(* their constants: staff, the allowance of a plan, payout accounts,       *)
(* campaigns, the delivery of mail, conversations, profile files and the   *)
(* times of interviews.  AccountAccess has a module of proofs of its own.  *)
(*                                                                         *)
(* Each part has an inductive invariant, which says what a request holds   *)
(* at each point of its way: the row it has locked is as it read it, the   *)
(* key it has drawn is its own, what it read is of the version it carries. *)
(* A lemma about steps that only move the control of a request carries     *)
(* most actions; the others change a row, and have a step of their own.    *)
(* At the end the composition is shown to implement each of its parts, so  *)
(* that what is proved of them holds of it.                                *)
(***************************************************************************)
EXTENDS AccountAccess_proofs, Accounts, FiniteSetTheorems, SequenceTheorems, WellFoundedInduction, TLAPS

-----------------------------------------------------------------------------
(* Staff and permissions *)

\* A change of permissions holds the lock of the account, which exists, so the grants are as
\* it read them and no other change is under way.
PermitsInTurn ==
    /\ \A r \in Requests : staffReq[r].op = "permit" =>
         staffReq[r].pc = "locked" /\ staffReq[r].saw = grants /\ accounts > 0
    /\ \A q, r \in Requests : staffReq[q].op = "permit" /\ staffReq[r].op = "permit" => q = r

\* The inductive invariant of staff and permissions.
StaffInv == S!TypeOK /\ PermitsInTurn /\ ledger = grants

\* It holds initially.
LEMMA StaffInit ==
    ASSUME S!Init
    PROVE  StaffInv
  BY ScenesAssumption
     DEF S!Init, S!Idle, S!NotSent, S!TypeOK, S!Invitation, S!Request, StaffInv, PermitsInTurn

\* A step of a request that begins or ends leaves the others alone.
LEMMA StaffRequests ==
    ASSUME StaffInv, NEW r \in Requests, NEW q, S!Keep(r, q),
           UNCHANGED <<accounts, grants, ledger>>,
           q \in S!Request,
           q.op # "none" /\ q.op # "permit" => q.on \in Invitations,
           q.op = "permit" => /\ q.pc = "locked" /\ q.saw = grants /\ accounts > 0
                              /\ \A k \in Requests : staffReq[k].pc # "locked",
           invitation' \in [Invitations -> S!Invitation], drawn' \in 0 .. MaxTokens
    PROVE  StaffInv'
<1>1. /\ staffReq' \in [Requests -> S!Request]
      /\ staffReq'[r] = q
      /\ \A k \in Requests : k # r => staffReq'[k] = staffReq[k]
  BY DEF StaffInv, S!TypeOK, S!Keep
<1>2. S!TypeOK'
  BY <1>1 DEF StaffInv, S!TypeOK
<1>3. PermitsInTurn'
  BY <1>1 DEF StaffInv, PermitsInTurn
<1> QED
  BY <1>2, <1>3 DEF StaffInv

\* Every step of an administrator or of an invited person keeps it.
LEMMA StaffStep ==
    ASSUME StaffInv, [S!Next]_staff
    PROVE  StaffInv'
<1> USE DEF StaffInv
<1>0. CASE UNCHANGED staff
  BY <1>0 DEF staff, PermitsInTurn, S!TypeOK
<1> SUFFICES ASSUME S!Next PROVE StaffInv'
  BY <1>0
<1>idle. S!Idle \in S!Request /\ S!Idle.op = "none"
  BY DEF S!Idle, S!Request
<1>types. /\ invitation \in [Invitations -> S!Invitation] /\ drawn \in 0 .. MaxTokens
          /\ staffReq \in [Requests -> S!Request]
          /\ MaxTokens \in Nat
  BY ScenesAssumption DEF S!TypeOK
<1>1. ASSUME NEW r \in Requests, NEW i \in Invitations, NEW keys \in SUBSET Permissions,
             S!BeginCreate(r, i, keys)
      PROVE  StaffInv'
  <2> DEFINE q == [S!Idle EXCEPT !.op = "create", !.pc = "email", !.on = i, !.token = drawn + 1,
                                 !.keys = keys]
  <2>0. drawn + 1 \in Nat
    BY <1>types
  <2>1. q \in S!Request /\ q.op = "create" /\ q.on = i
    BY <2>0 DEF S!Idle, S!Request
  <2>2. /\ S!Keep(r, q) /\ UNCHANGED <<invitation, accounts, grants, ledger>>
        /\ drawn' \in 0 .. MaxTokens
    BY <1>1, <1>types DEF S!BeginCreate
  <2> QED
    BY <1>types, <2>1, <2>2, StaffRequests
<1>2. ASSUME NEW r \in Requests, NEW i \in Invitations, S!BeginResend(r, i)
      PROVE  StaffInv'
  <2> DEFINE q == [S!Idle EXCEPT !.op = "resend", !.pc = "row", !.on = i, !.token = drawn + 1]
  <2>0. drawn + 1 \in Nat
    BY <1>types
  <2>1. q \in S!Request /\ q.op = "resend" /\ q.on = i
    BY <2>0 DEF S!Idle, S!Request
  <2>2. /\ S!Keep(r, q) /\ UNCHANGED <<invitation, accounts, grants, ledger>>
        /\ drawn' \in 0 .. MaxTokens
    BY <1>2, <1>types DEF S!BeginResend
  <2> QED
    BY <1>types, <2>1, <2>2, StaffRequests
<1>3. ASSUME NEW r \in Requests, NEW i \in Invitations, S!BeginAccept(r, i)
      PROVE  StaffInv'
  <2> DEFINE q == [S!Idle EXCEPT !.op = "accept", !.pc = "read", !.on = i,
                                 !.token = invitation[i].token]
  <2>0. invitation[i].token \in Nat
    BY <1>types DEF S!Invitation
  <2>1. q \in S!Request /\ q.op = "accept" /\ q.on = i
    BY <2>0 DEF S!Idle, S!Request
  <2>2. S!Keep(r, q) /\ UNCHANGED <<invitation, drawn, accounts, grants, ledger>>
    BY <1>3 DEF S!BeginAccept
  <2> QED
    BY <1>types, <2>1, <2>2, StaffRequests
<1>4. ASSUME NEW r \in Requests, NEW keys \in SUBSET Permissions, S!BeginPermit(r, keys)
      PROVE  StaffInv'
  <2> DEFINE q == [S!Idle EXCEPT !.op = "permit", !.pc = "locked", !.keys = keys, !.saw = grants]
  <2>1. q \in S!Request /\ q.op = "permit" /\ q.pc = "locked" /\ q.saw = grants
    BY DEF S!Idle, S!Request, S!TypeOK
  <2>2. S!Keep(r, q) /\ UNCHANGED <<invitation, drawn, accounts, grants, ledger>> /\ accounts > 0
        /\ \A k \in Requests : staffReq[k].pc # "locked"
    BY <1>4 DEF S!BeginPermit, S!AccountFree
  <2> QED
    BY <1>types, <2>1, <2>2, StaffRequests
<1>5. ASSUME NEW r \in Requests, S!FinishCreate(r) \/ S!FinishResend(r) \/ S!Abort(r)
      PROVE  StaffInv'
  <2>1. S!Keep(r, S!Idle) /\ UNCHANGED <<drawn, accounts, grants, ledger>>
    BY <1>5 DEF S!FinishCreate, S!FinishResend, S!Abort, S!Answer
  <2>2. invitation' \in [Invitations -> S!Invitation]
    BY <1>5, <1>types DEF S!FinishCreate, S!FinishResend, S!Abort, S!Invitation, S!Request
  <2> QED
    BY <1>types, <1>idle, <2>1, <2>2, StaffRequests
<1>6. ASSUME NEW r \in Requests, S!LockEmail(r)
      PROVE  StaffInv'
  <2> DEFINE q == [staffReq[r] EXCEPT !.pc = "email"]
  <2>1. q \in S!Request /\ q.op = "resend" /\ q.on \in Invitations
    BY <1>6, <1>types DEF S!LockEmail, S!Request, S!TypeOK
  <2>2. S!Keep(r, q) \/ S!Keep(r, S!Idle)
    BY <1>6 DEF S!LockEmail
  <2>3. UNCHANGED <<invitation, drawn, accounts, grants, ledger>>
    BY <1>6 DEF S!LockEmail
  <2> HIDE DEF q
  <2> QED
    BY <1>types, <1>idle, <2>1, <2>2, <2>3, StaffRequests
<1>7. ASSUME NEW r \in Requests, S!FinishAccept(r)
      PROVE  StaffInv'
  <2> DEFINE q == staffReq[r]
             accepted == S!Valid(q.on, q.token) /\ accounts = 0
  <2>0. S!Keep(r, S!Idle) /\ UNCHANGED drawn /\ q.on \in Invitations
    BY <1>7 DEF S!FinishAccept, S!Answer, S!TypeOK
  <2>1. CASE ~accepted
    <3>1. UNCHANGED <<invitation, accounts, grants, ledger>>
      BY <1>7, <2>1 DEF S!FinishAccept
    <3> QED
      BY <1>types, <1>idle, <2>0, <3>1, StaffRequests
  <2>2. CASE accepted
    <3>1. /\ invitation' = [invitation EXCEPT ![q.on].status = "ACCEPTED"]
          /\ accounts' = 1
          /\ grants' = invitation[q.on].keys /\ ledger' = invitation[q.on].keys
      BY <1>7, <2>2 DEF S!FinishAccept
    <3>2. \A k \in Requests : staffReq[k].op # "permit"
      BY <2>2 DEF PermitsInTurn
    <3>3. /\ staffReq' \in [Requests -> S!Request]
          /\ staffReq'[r] = S!Idle
          /\ \A k \in Requests : k # r => staffReq'[k] = staffReq[k]
      BY <1>types, <1>idle, <2>0 DEF S!Keep
    <3>4. invitation' \in [Invitations -> S!Invitation] /\ grants' \subseteq Permissions
      BY <1>types, <2>0, <3>1 DEF S!Invitation
    <3>5. S!TypeOK'
      BY <1>idle, <2>0, <3>1, <3>3, <3>4 DEF S!TypeOK
    <3>6. PermitsInTurn'
      BY <1>idle, <3>2, <3>3 DEF PermitsInTurn
    <3> QED
      BY <3>1, <3>5, <3>6
  <2> QED
    BY <2>1, <2>2
<1>8. ASSUME NEW r \in Requests, S!FinishPermit(r)
      PROVE  StaffInv'
  <2>0. S!Keep(r, S!Idle) /\ UNCHANGED <<invitation, drawn, accounts>> /\ staffReq[r].op = "permit"
    BY <1>8 DEF S!FinishPermit, S!Answer
  <2>1. /\ staffReq' \in [Requests -> S!Request]
        /\ staffReq'[r] = S!Idle
        /\ \A k \in Requests : k # r => staffReq'[k] = staffReq[k]
    BY <1>types, <1>idle, <2>0 DEF S!Keep
  <2>2. \A k \in Requests : staffReq'[k].op # "permit"
    BY <1>idle, <2>0, <2>1 DEF PermitsInTurn
  <2>3. staffReq[r].keys \subseteq Permissions /\ grants \subseteq Permissions
    BY <1>types DEF S!Request, S!TypeOK
  <2>4. ledger' = grants' /\ grants' \subseteq Permissions
    BY <1>8, <2>3 DEF S!FinishPermit
  <2>5. S!TypeOK'
    BY <1>idle, <2>0, <2>1, <2>4 DEF S!TypeOK
  <2> QED
    BY <2>2, <2>4, <2>5 DEF PermitsInTurn
<1>9. ASSUME NEW i \in Invitations, S!Revoke(i) \/ S!Expire(i)
      PROVE  StaffInv'
  <2>1. UNCHANGED <<drawn, accounts, grants, ledger, staffReq>>
    BY <1>9 DEF S!Revoke, S!Expire
  <2>2. invitation' \in [Invitations -> S!Invitation]
    BY <1>9, <1>types DEF S!Revoke, S!Expire, S!Invitation
  <2> QED
    BY <2>1, <2>2 DEF S!TypeOK, PermitsInTurn
<1> QED
  BY <1>1, <1>2, <1>3, <1>4, <1>5, <1>6, <1>7, <1>8, <1>9 DEF S!Next, S!RequestStep

\* A change of permissions runs alone on its account: what it read is what is granted when
\* it writes, and the audit events tell what is granted (updateStaffPermissions).
THEOREM StaffInvHolds == S!Spec => []StaffInv
<1>1. S!Init => StaffInv
  BY StaffInit
<1>2. StaffInv /\ [S!Next]_S!staffVars => StaffInv'
  BY StaffStep DEF staff, S!staffVars
<1> QED
  BY <1>1, <1>2, PTL DEF S!Spec

\* Only an acceptance under the locks makes an invitation accepted.
LEMMA OnlyAcceptAccepts ==
    ASSUME StaffInv, S!Next, NEW i \in Invitations,
           invitation[i].status # "ACCEPTED", invitation'[i].status = "ACCEPTED"
    PROVE  \E r \in Requests : S!FinishAccept(r) /\ S!Valid(staffReq[r].on, staffReq[r].token)
                               /\ accounts = 0 /\ staffReq[r].on = i
<1>types. invitation \in [Invitations -> S!Invitation]
  BY DEF StaffInv, S!TypeOK
<1>1. ASSUME NEW r \in Requests, S!RequestStep(r), ~S!FinishAccept(r)
      PROVE  FALSE
  <2>1. CASE S!FinishCreate(r)
    BY <1>types, <2>1 DEF S!FinishCreate
  <2>2. CASE S!FinishResend(r)
    BY <1>types, <2>2 DEF S!FinishResend, S!Invitation
  <2>3. CASE ~S!FinishCreate(r) /\ ~S!FinishResend(r)
    <3>1. UNCHANGED invitation
      BY <1>1, <2>3 DEF S!RequestStep, S!BeginCreate, S!BeginResend, S!BeginAccept, S!LockEmail,
           S!BeginPermit, S!FinishPermit, S!Abort
    <3> QED
      BY <3>1
  <2> QED
    BY <2>1, <2>2, <2>3
<1>2. ASSUME NEW k \in Invitations, S!Revoke(k) \/ S!Expire(k)
      PROVE  FALSE
  BY <1>2, <1>types DEF S!Revoke, S!Expire, S!Invitation
<1>3. PICK r \in Requests : S!FinishAccept(r)
  BY <1>1, <1>2 DEF S!Next
<1>4. S!Valid(staffReq[r].on, staffReq[r].token) /\ accounts = 0
  BY <1>3 DEF S!FinishAccept
<1>5. invitation' = [invitation EXCEPT ![staffReq[r].on].status = "ACCEPTED"]
  BY <1>3, <1>4 DEF S!FinishAccept
<1>6. staffReq[r].on = i
  BY <1>5, <1>types
<1> QED
  BY <1>3, <1>4, <1>6

\* However invitations are sent again, accepted twice and cut off, an account is made with
\* the token that was drawn last, once for the address (acceptAdminInvitation).
THEOREM AcceptedWithLastTokenHolds == S!Spec => AcceptedWithLastToken
<1> DEFINE Accepted(i) ==
        invitation[i].status # "ACCEPTED" /\ invitation'[i].status = "ACCEPTED" =>
            /\ accounts = 0 /\ accounts' = 1
            /\ \E r \in Requests : staffReq[r].op = "accept" /\ staffReq[r].on = i
                   /\ staffReq[r].token = invitation[i].token /\ staffReq'[r] = S!Idle
<1>1. ASSUME StaffInv, S!Next, NEW i \in Invitations,
             invitation[i].status # "ACCEPTED", invitation'[i].status = "ACCEPTED"
      PROVE  /\ accounts = 0 /\ accounts' = 1
             /\ \E r \in Requests : staffReq[r].op = "accept" /\ staffReq[r].on = i
                   /\ staffReq[r].token = invitation[i].token /\ staffReq'[r] = S!Idle
  <2>1. PICK r \in Requests : S!FinishAccept(r) /\ S!Valid(staffReq[r].on, staffReq[r].token)
                               /\ accounts = 0 /\ staffReq[r].on = i
    BY <1>1, OnlyAcceptAccepts
  <2>2. staffReq \in [Requests -> S!Request]
    BY <1>1 DEF StaffInv, S!TypeOK
  <2>3. /\ accounts' = accounts + 1 /\ staffReq[r].op = "accept" /\ staffReq'[r] = S!Idle
        /\ staffReq[r].token = invitation[i].token
    BY <2>1, <2>2 DEF S!FinishAccept, S!Valid, S!Answer, S!Keep
  <2> QED
    BY <2>1, <2>3
<1>2. StaffInv /\ [S!Next]_S!staffVars => [\A i \in Invitations : Accepted(i)]_S!staffVars
  BY <1>1
<1> QED
  BY <1>2, StaffInvHolds, PTL DEF S!Spec, AcceptedWithLastToken, S!AcceptedWithLastToken

\* Whatever else is going on, a change of permissions that commits leaves exactly those that
\* were asked for, and the events that are written add up to them (updateStaffPermissions).
THEOREM PermissionsAsAskedHolds == S!Spec => PermissionsAsAsked
<1>1. ASSUME StaffInv, S!Next, NEW r \in Requests,
             staffReq[r].op = "permit", grants' # grants, staffReq'[r] = S!Idle
      PROVE  grants' = staffReq[r].keys /\ ledger' = grants'
  <2>0. staffReq \in [Requests -> S!Request] /\ S!Idle.op = "none" /\ accounts > 0
    BY <1>1 DEF StaffInv, S!TypeOK, PermitsInTurn, S!Idle
  <2>1. PICK q \in Requests : S!FinishPermit(q)
    <3>1. ASSUME NEW q \in Requests, S!FinishAccept(q)
          PROVE  FALSE
      BY <1>1, <2>0, <3>1 DEF S!FinishAccept
    <3> QED
      BY <1>1, <3>1 DEF S!Next, S!RequestStep, S!BeginCreate, S!BeginResend, S!BeginAccept,
         S!LockEmail, S!BeginPermit, S!FinishCreate, S!FinishResend, S!Abort, S!Revoke, S!Expire
  <2>2. q = r
    BY <1>1, <2>1 DEF S!FinishPermit, StaffInv, PermitsInTurn
  <2>3. staffReq[r].saw = grants /\ ledger = grants
    BY <1>1 DEF StaffInv, PermitsInTurn
  <2>4. grants' = (grants \ (grants \ staffReq[r].keys)) \cup (staffReq[r].keys \ grants)
        /\ ledger' = grants'
    BY <1>1, <2>1, <2>2, <2>3 DEF S!FinishPermit
  <2> QED
    BY <2>4
<1>2. StaffInv /\ [S!Next]_S!staffVars =>
        [\A r \in Requests :
           staffReq[r].op = "permit" /\ grants' # grants /\ staffReq'[r] = S!Idle =>
             grants' = staffReq[r].keys /\ ledger' = grants']_S!staffVars
  BY <1>1
<1> QED
  BY <1>2, StaffInvHolds, PTL DEF S!Spec, PermissionsAsAsked, S!PermissionsAsAsked

-----------------------------------------------------------------------------
(* The allowance of a plan *)

\* The Cardinality of the instance is the library's.
LEMMA UsageCardinality ==
    ASSUME NEW A
    PROVE  U!Cardinality(A) = Cardinality(A)
BY DEF U!Cardinality, Cardinality

\* A set of positions in a sequence that is not empty has a greatest one.
LEMMA GreatestExists ==
    ASSUME NEW n \in Nat, NEW A \in SUBSET (1 .. n), A # {}
    PROVE  \E x \in A : \A y \in A : y <= x
<1> DEFINE R == {n - x : x \in A}
<1>1. R \subseteq Nat /\ R # {}
  <2>1. \A x \in A : n - x \in Nat
    OBVIOUS
  <2>2. PICK x \in A : TRUE
    OBVIOUS
  <2>3. n - x \in R
    OBVIOUS
  <2> QED
    BY <2>1, <2>3
<1>2. PICK d \in R : \A e \in R : <<e, d>> \notin OpToRel(<, Nat)
  BY <1>1, NatLessThanWellFounded, WFMin
<1>3. PICK x \in A : d = n - x
  OBVIOUS
<1>4. ASSUME NEW y \in A
      PROVE  y <= x
  <2>1. n - y \in R
    OBVIOUS
  <2>2. ~(n - y < d)
    BY <1>1, <1>2, <2>1 DEF OpToRel
  <2> QED
    BY <1>3, <2>2
<1> QED
  BY <1>4

\* One request has counted the month and not yet reserved, and another record still fits.
CountedFits ==
    /\ \A q, r \in Requests : usageReq[q].pc = "counted" /\ usageReq[r].pc = "counted" => q = r
    /\ \A r \in Requests : usageReq[r].pc = "counted" =>
         Cardinality(U!UsedIn(month)) < usageReq[r].limit

\* No record is of a month to come.
RecordsArePast == \A x \in Records : record[x].month <= month

\* A request that has reserved or claimed a record names it.
RecordsAreNamed ==
    \A r \in Requests : usageReq[r].pc \in {"asking", "failed", "evaluating"} =>
        usageReq[r].record \in Records

\* What was evaluated is completed, and stays so.
EvaluatedIsCompleted ==
    \A x \in Records : evaluated[x] = 0 \/ (evaluated[x] = 1 /\ record[x].session = "COMPLETED")

UsageInv ==
    /\ U!TypeOK
    /\ CountedFits
    /\ RecordsArePast
    /\ RecordsAreNamed
    /\ EvaluatedIsCompleted

\* The allowance in force is a number: a plan in force exists (resolveEffectiveEntitlements).
LEMMA LimitType ==
    ASSUME U!TypeOK
    PROVE  U!Limit \in Nat
<1> USE DEF U!TypeOK
<1>1. U!EffectivePlan \in Plans
  <2>1. CASE U!ActiveTrials = {}
    BY <2>1 DEF U!EffectivePlan
  <2>2. CASE U!ActiveTrials # {}
    <3>1. U!ActiveTrials \in SUBSET (1 .. Len(trials)) /\ Len(trials) \in Nat
      BY DEF U!ActiveTrials
    <3>2. \E n \in U!ActiveTrials : \A k \in U!ActiveTrials : k <= n
      BY <2>2, <3>1, GreatestExists
    <3>3. (CHOOSE n \in U!ActiveTrials : \A k \in U!ActiveTrials : k <= n) \in U!ActiveTrials
      BY <3>2
    <3>4. ASSUME NEW n \in 1 .. Len(trials)
          PROVE  trials[n].plan \in Plans
      <4>1. trials[n] \in [plan : Plans, active : BOOLEAN]
        BY ElementOfSeq
      <4> QED
        BY <4>1
    <3> QED
      BY <2>2, <3>1, <3>3, <3>4 DEF U!EffectivePlan
  <2> QED
    BY <2>1, <2>2
<1> QED
  BY <1>1, ScenesAssumption DEF U!Limit

\* What a month has used can be counted.
LEMMA UsedType ==
    ASSUME NEW m
    PROVE  IsFiniteSet(U!UsedIn(m)) /\ Cardinality(U!UsedIn(m)) \in Nat
  BY ScenesAssumption, FS_Subset, FS_CardinalityType DEF U!UsedIn

\* It holds initially.
LEMMA UsageInit ==
    ASSUME U!Init
    PROVE  UsageInv
<1> USE DEF U!Init, U!Idle, U!Unused
<1>1. U!TypeOK
  BY ScenesAssumption, EmptySeq DEF U!TypeOK, U!Record, U!Request, U!MockStates
<1>2. CountedFits /\ RecordsAreNamed
  BY DEF CountedFits, RecordsAreNamed
<1>3. RecordsArePast /\ EvaluatedIsCompleted
  BY DEF RecordsArePast, EvaluatedIsCompleted
<1> QED
  BY <1>1, <1>2, <1>3 DEF UsageInv

\* A step of one request that adds nothing to a month.
LEMMA RequestMoves ==
    ASSUME UsageInv, NEW r \in Requests, NEW q \in U!Request,
           usageReq' = [usageReq EXCEPT ![r] = q],
           q.pc # "counted",
           q.pc \in {"asking", "failed", "evaluating"} => q.record \in Records,
           U!UsedIn(month)' \subseteq U!UsedIn(month), UNCHANGED month,
           U!TypeOK', RecordsArePast', EvaluatedIsCompleted'
    PROVE  UsageInv'
<1>1. /\ usageReq'[r] = q
      /\ \A k \in Requests : k # r => usageReq'[k] = usageReq[k]
  BY DEF UsageInv, U!TypeOK
<1>2. Cardinality(U!UsedIn(month)') <= Cardinality(U!UsedIn(month))
  BY UsedType, FS_Subset
<1>3. /\ IsFiniteSet(U!UsedIn(month)')
      /\ Cardinality(U!UsedIn(month)) \in Nat /\ Cardinality(U!UsedIn(month)') \in Nat
  BY UsedType, FS_Subset, FS_CardinalityType
<1>4. \A k \in Requests : usageReq[k].limit \in Nat
  BY DEF UsageInv, U!TypeOK, U!Request
<1>5. CountedFits'
  BY <1>1, <1>2, <1>3, <1>4 DEF UsageInv, CountedFits
<1>6. RecordsAreNamed'
  BY <1>1 DEF UsageInv, RecordsAreNamed
<1> QED
  BY <1>5, <1>6 DEF UsageInv
\* The months, plans and trials change.
LEMMA PlansChange ==
    ASSUME UsageInv, U!PlanStep
    PROVE  UsageInv'
<1>0. UNCHANGED <<record, delivered, evaluated, usageReq>>
  BY DEF U!PlanStep, U!EditPlan, U!ChangeSubscription, U!TrialEnds, U!NextMonth
<1>1. U!TypeOK'
  <2>1. ASSUME NEW p \in Plans, NEW n \in Allowances, U!EditPlan(p, n) PROVE U!TypeOK'
    BY <2>1 DEF UsageInv, U!TypeOK, U!EditPlan
  <2>2. ASSUME NEW p \in Plans, U!ChangeSubscription(p) PROVE U!TypeOK'
    BY <2>2 DEF UsageInv, U!TypeOK, U!ChangeSubscription
  <2>3. ASSUME NEW n \in U!ActiveTrials, U!TrialEnds(n) PROVE U!TypeOK'
    <3>1. n \in 1 .. Len(trials) /\ trials \in Seq([plan : Plans, active : BOOLEAN])
      BY DEF U!ActiveTrials, UsageInv, U!TypeOK
    <3>2. [trials[n] EXCEPT !.active = FALSE] \in [plan : Plans, active : BOOLEAN]
      <4>1. trials[n] \in [plan : Plans, active : BOOLEAN]
        BY <3>1, ElementOfSeq
      <4> QED
        BY <4>1
    <3>3. trials' \in Seq([plan : Plans, active : BOOLEAN])
      BY <2>3, <3>1, <3>2, ExceptSeq DEF U!TrialEnds
    <3> QED
      BY <2>3, <3>3 DEF UsageInv, U!TypeOK, U!TrialEnds
  <2>4. CASE U!NextMonth
    BY <2>4, ScenesAssumption DEF UsageInv, U!TypeOK, U!NextMonth
  <2> QED
    BY <2>1, <2>2, <2>3, <2>4 DEF U!PlanStep
<1>2. CASE UNCHANGED month
  BY <1>0, <1>1, <1>2 DEF UsageInv, CountedFits, U!UsedIn, RecordsArePast, RecordsAreNamed,
                          EvaluatedIsCompleted
<1>3. CASE U!NextMonth
  <2>1. month \in Nat /\ month' = month + 1 /\ \A x \in Records : record[x].month \in Nat
    BY <1>3, ScenesAssumption DEF UsageInv, U!TypeOK, U!NextMonth, U!Record
  <2>2. U!UsedIn(month)' = {}
    BY <1>0, <2>1 DEF UsageInv, RecordsArePast, U!UsedIn
  <2>3. Cardinality(U!UsedIn(month)') = 0
    BY <2>2, FS_EmptySet
  <2>4. Cardinality(U!UsedIn(month)) \in Nat /\ \A r \in Requests : usageReq[r].limit \in Nat
    BY UsedType DEF UsageInv, U!TypeOK, U!Request
  <2>5. CountedFits'
    BY <1>0, <2>3, <2>4 DEF UsageInv, CountedFits
  <2>6. RecordsArePast'
    BY <1>0, <2>1 DEF UsageInv, RecordsArePast
  <2> QED
    BY <1>0, <1>1, <2>5, <2>6 DEF UsageInv, RecordsAreNamed, EvaluatedIsCompleted
<1> QED
  BY <1>2, <1>3 DEF U!PlanStep, U!EditPlan, U!ChangeSubscription, U!TrialEnds

\* A reservation adds one record to the month, which had room for it.
LEMMA Reserved ==
    ASSUME UsageInv, NEW r \in Requests, NEW x \in Records, U!Reserve(r, x)
    PROVE  UsageInv' /\ Cardinality(U!UsedIn(month)') <= usageReq[r].limit
<1> DEFINE q == [usageReq[r] EXCEPT !.pc = "asking", !.record = x]
           made == [kept |-> TRUE, month |-> month, session |-> usageReq[r].session]
<1>1. /\ usageReq[r].pc = "counted" /\ record[x] = U!Unused
      /\ record' = [record EXCEPT ![x] = made]
      /\ usageReq' = [usageReq EXCEPT ![r] = q]
      /\ UNCHANGED <<allowance, subscribed, trials, month, delivered, evaluated>>
  BY DEF U!Reserve, U!planVars, UsageInv, U!TypeOK
<1>2. q \in U!Request /\ made \in U!Record /\ q.pc = "asking" /\ q.record = x
  <2>1. usageReq[r] \in U!Request /\ month \in 0 .. MaxMonths
    BY DEF UsageInv, U!TypeOK
  <2> QED
    BY <2>1 DEF U!Request, U!Record, U!MockStates
<1>3. /\ usageReq' \in [Requests -> U!Request] /\ usageReq'[r] = q
      /\ \A k \in Requests : k # r => usageReq'[k] = usageReq[k]
      /\ record' \in [Records -> U!Record] /\ record'[x] = made
      /\ \A y \in Records : y # x => record'[y] = record[y]
  BY <1>1, <1>2 DEF UsageInv, U!TypeOK
<1>4. U!TypeOK'
  BY <1>1, <1>3 DEF UsageInv, U!TypeOK
<1>5. U!UsedIn(month)' = U!UsedIn(month) \cup {x} /\ x \notin U!UsedIn(month)
  BY <1>1, <1>3 DEF U!UsedIn, U!Unused
<1>6. Cardinality(U!UsedIn(month)') = Cardinality(U!UsedIn(month)) + 1
  BY <1>5, UsedType, FS_AddElement
<1>7. Cardinality(U!UsedIn(month)') <= usageReq[r].limit
  <2>1. Cardinality(U!UsedIn(month)) < usageReq[r].limit /\ usageReq[r].limit \in Nat
    BY <1>1 DEF UsageInv, CountedFits, U!TypeOK, U!Request
  <2> QED
    BY <1>6, <2>1, UsedType
<1>8. CountedFits'
  <2>1. \A k \in Requests : usageReq'[k].pc # "counted"
    BY <1>1, <1>2, <1>3 DEF UsageInv, CountedFits
  <2> QED
    BY <2>1 DEF CountedFits
<1>9. RecordsArePast'
  <2>1. month \in Int /\ made.month <= month
    BY ScenesAssumption DEF UsageInv, U!TypeOK
  <2> QED
    BY <1>1, <1>3, <2>1 DEF UsageInv, RecordsArePast
<1>10. RecordsAreNamed'
  BY <1>2, <1>3 DEF UsageInv, RecordsAreNamed
<1>11. EvaluatedIsCompleted'
  BY <1>1, <1>3 DEF UsageInv, EvaluatedIsCompleted, U!Unused
<1> QED
  BY <1>4, <1>7, <1>8, <1>9, <1>10, <1>11 DEF UsageInv

\* A request that counts while no other does.
LEMMA Counted ==
    ASSUME UsageInv, NEW r \in Requests, U!CountUsage(r)
    PROVE  UsageInv'
<1>0. /\ UNCHANGED <<allowance, subscribed, trials, month, record, delivered, evaluated>>
      /\ \A k \in Requests : usageReq[k].pc # "counted"
  BY DEF U!CountUsage, U!planVars, U!UserFree
<1>1. PICK q \in U!Request :
        /\ usageReq' = [usageReq EXCEPT ![r] = q]
        /\ q.pc \in {"idle", "counted"}
        /\ q.pc = "counted" => Cardinality(U!UsedIn(month)) < q.limit
  <2> DEFINE q == [usageReq[r] EXCEPT !.pc = "counted", !.limit = U!Limit]
  <2>1. q \in U!Request /\ q.pc = "counted" /\ q.limit = U!Limit
    <3>1. usageReq[r] \in U!Request /\ U!Limit \in Nat
      BY LimitType DEF UsageInv, U!TypeOK
    <3> QED
      BY <3>1 DEF U!Request
  <2>2. U!Idle \in U!Request /\ U!Idle.pc = "idle"
    BY ScenesAssumption DEF U!Idle, U!Request
  <2>3. CASE U!MayUse
    <3>1. usageReq' = [usageReq EXCEPT ![r] = q]
      BY <2>3 DEF U!CountUsage
    <3> HIDE DEF q
    <3>2. Cardinality(U!UsedIn(month)) < q.limit
      BY <2>1, <2>3, UsageCardinality DEF U!MayUse
    <3> QED
      BY <2>1, <3>1, <3>2
  <2>4. CASE ~U!MayUse
    BY <2>2, <2>4 DEF U!CountUsage
  <2> QED
    BY <2>3, <2>4
<1>2. /\ usageReq' \in [Requests -> U!Request] /\ usageReq'[r] = q
      /\ \A k \in Requests : k # r => usageReq'[k] = usageReq[k]
  BY <1>1 DEF UsageInv, U!TypeOK
<1>3. U!TypeOK'
  BY <1>0, <1>2 DEF UsageInv, U!TypeOK
<1>4. U!UsedIn(month)' = U!UsedIn(month)
  BY <1>0 DEF U!UsedIn
<1>5. CountedFits'
  BY <1>0, <1>1, <1>2, <1>4 DEF UsageInv, CountedFits
<1>6. RecordsArePast' /\ EvaluatedIsCompleted'
  BY <1>0 DEF UsageInv, RecordsArePast, EvaluatedIsCompleted
<1>7. RecordsAreNamed'
  BY <1>1, <1>2 DEF UsageInv, RecordsAreNamed
<1> QED
  BY <1>3, <1>5, <1>6, <1>7 DEF UsageInv
\* Every step of a plan, of the calendar and of a request keeps it.
LEMMA UsageStep ==
    ASSUME UsageInv, [U!Next]_usage
    PROVE  UsageInv'
<1>0. CASE UNCHANGED usage
  BY <1>0 DEF usage, UsageInv, U!TypeOK, CountedFits, RecordsArePast, RecordsAreNamed,
              EvaluatedIsCompleted, U!UsedIn
<1> SUFFICES ASSUME U!Next PROVE UsageInv'
  BY <1>0
<1>idle. U!Idle \in U!Request /\ U!Idle.pc = "idle"
  BY ScenesAssumption DEF U!Idle, U!Request
<1>types. /\ usageReq \in [Requests -> U!Request] /\ record \in [Records -> U!Record]
          /\ evaluated \in [Records -> Nat] /\ month \in 1 .. MaxMonths
  BY DEF UsageInv, U!TypeOK
\* Steps that change neither the records nor the evaluations.
<1>keep. ASSUME NEW r \in Requests, NEW q \in U!Request,
                usageReq' = [usageReq EXCEPT ![r] = q], q.pc # "counted",
                q.pc \in {"asking", "failed", "evaluating"} => q.record \in Records,
                U!TypeOK', UNCHANGED <<month, record, evaluated>>
         PROVE  UsageInv'
  <2>1. U!UsedIn(month)' \subseteq U!UsedIn(month) /\ RecordsArePast' /\ EvaluatedIsCompleted'
    BY <1>keep DEF U!UsedIn, UsageInv, RecordsArePast, EvaluatedIsCompleted
  <2> QED
    BY <1>keep, <2>1, RequestMoves
<1>1. ASSUME NEW r \in Requests, NEW p \in Plans, U!BeginTrial(r, p)
      PROVE  UsageInv'
  <2> DEFINE q == [usageReq[r] EXCEPT !.pc = "trial", !.plan = p]
  <2>1. q \in U!Request /\ q.pc = "trial"
    BY <1>types DEF U!Request
  <2>2. usageReq' = [usageReq EXCEPT ![r] = q]
    BY <1>1, <1>types DEF U!BeginTrial
  <2>3. UNCHANGED <<allowance, subscribed, trials, month, record, delivered, evaluated>>
    BY <1>1 DEF U!BeginTrial
  <2> HIDE DEF q
  <2>4. U!TypeOK'
    BY <2>1, <2>2, <2>3 DEF UsageInv, U!TypeOK
  <2> QED
    BY <1>keep, <2>1, <2>2, <2>3, <2>4
<1>2. ASSUME NEW r \in Requests, U!CreateTrial(r)
      PROVE  UsageInv'
  <2>1. /\ usageReq' = [usageReq EXCEPT ![r] = U!Idle]
        /\ trials' = Append(trials, [plan |-> usageReq[r].plan, active |-> TRUE])
        /\ UNCHANGED <<allowance, subscribed, month, record, delivered, evaluated>>
    BY <1>2 DEF U!CreateTrial, U!Answered
  <2>2. [plan |-> usageReq[r].plan, active |-> TRUE] \in [plan : Plans, active : BOOLEAN]
    BY <1>types DEF U!Request
  <2>3. trials' \in Seq([plan : Plans, active : BOOLEAN])
    BY <2>1, <2>2, AppendProperties DEF UsageInv, U!TypeOK
  <2>4. U!TypeOK'
    BY <1>idle, <2>1, <2>3 DEF UsageInv, U!TypeOK
  <2> QED
    BY <1>idle, <1>keep, <2>1, <2>4
<1>3. ASSUME NEW r \in Requests, NEW kind \in {"none", "ACTIVE"}, U!BeginFeature(r, kind)
      PROVE  UsageInv'
  <2> DEFINE q == [usageReq[r] EXCEPT !.pc = "checked", !.session = kind]
  <2>1. q \in U!Request /\ q.pc = "checked"
    BY <1>types DEF U!Request
  <2>2. usageReq' = [usageReq EXCEPT ![r] = q]
    BY <1>3, <1>types DEF U!BeginFeature
  <2>3. UNCHANGED <<allowance, subscribed, trials, month, record, delivered, evaluated>>
    BY <1>3 DEF U!BeginFeature, U!planVars
  <2> HIDE DEF q
  <2>4. U!TypeOK'
    BY <2>1, <2>2, <2>3 DEF UsageInv, U!TypeOK
  <2> QED
    BY <1>keep, <2>1, <2>2, <2>3, <2>4
<1>4. ASSUME NEW r \in Requests, U!ProviderFails(r)
      PROVE  UsageInv'
  <2> DEFINE q == [usageReq[r] EXCEPT !.pc = "failed"]
  <2>1. q \in U!Request /\ q.pc = "failed" /\ q.record \in Records
    BY <1>4, <1>types DEF U!Request, U!ProviderFails, UsageInv, RecordsAreNamed
  <2>2. usageReq' = [usageReq EXCEPT ![r] = q]
    BY <1>4, <1>types DEF U!ProviderFails
  <2>3. UNCHANGED <<allowance, subscribed, trials, month, record, delivered, evaluated>>
    BY <1>4 DEF U!ProviderFails, U!planVars
  <2> HIDE DEF q
  <2>4. U!TypeOK'
    BY <2>1, <2>2, <2>3 DEF UsageInv, U!TypeOK
  <2> QED
    BY <1>keep, <2>1, <2>2, <2>3, <2>4
<1>5. ASSUME NEW r \in Requests, U!Deliver(r) \/ U!Abort(r)
      PROVE  UsageInv'
  <2>1. /\ usageReq' = [usageReq EXCEPT ![r] = U!Idle]
        /\ UNCHANGED <<allowance, subscribed, trials, month, record, evaluated>>
    BY <1>5 DEF U!Deliver, U!Abort, U!Answered, U!planVars
  <2>2. delivered' \subseteq Records
    BY <1>5 DEF U!Deliver, U!Abort, UsageInv, U!TypeOK, RecordsAreNamed
  <2>3. U!TypeOK'
    BY <1>idle, <2>1, <2>2 DEF UsageInv, U!TypeOK
  <2> QED
    BY <1>idle, <1>keep, <2>1, <2>3
<1>6. ASSUME NEW r \in Requests, U!Release(r)
      PROVE  UsageInv'
  <2>1. /\ usageReq' = [usageReq EXCEPT ![r] = U!Idle]
        /\ UNCHANGED <<allowance, subscribed, trials, month, delivered, evaluated>>
    BY <1>6 DEF U!Release, U!Answered, U!planVars
  <2>2. /\ record' \in [Records -> U!Record]
        /\ \A x \in Records :
             /\ record'[x].month = record[x].month
             /\ record'[x].session = record[x].session
             /\ record'[x].kept => record[x].kept
    <3>1. ASSUME NEW x \in Records
          PROVE  /\ [record[x] EXCEPT !.kept = FALSE] \in U!Record
                 /\ [record[x] EXCEPT !.kept = FALSE].kept = FALSE
                 /\ [record[x] EXCEPT !.kept = FALSE].month = record[x].month
                 /\ [record[x] EXCEPT !.kept = FALSE].session = record[x].session
      <4>1. record[x] \in U!Record
        BY <1>types
      <4> QED
        BY <4>1 DEF U!Record
    <3>2. record' = [x \in Records |-> IF x \in U!Released(usageReq[r].record)
                                       THEN [record[x] EXCEPT !.kept = FALSE] ELSE record[x]]
      BY <1>6 DEF U!Release
    <3> QED
      BY <1>types, <3>1, <3>2
  <2>3. U!TypeOK'
    BY <1>idle, <2>1, <2>2 DEF UsageInv, U!TypeOK
  <2>4. U!UsedIn(month)' \subseteq U!UsedIn(month)
    <3>1. ASSUME NEW x \in Records, record'[x].kept, record'[x].month = month
          PROVE  record[x].kept /\ record[x].month = month
      <4>1. record[x].kept
        BY <2>2, <3>1, Zenon
      <4>2. record[x].month = month
        BY <2>2, <3>1, Zenon
      <4> QED
        BY <4>1, <4>2
    <3>2. month' = month
      BY <2>1 DEF U!planVars
    <3> QED
      BY <3>1, <3>2, Zenon DEF U!UsedIn
  <2>5. RecordsArePast'
    <3>1. ASSUME NEW x \in Records
          PROVE  record'[x].month <= month
      <4>1. record'[x].month = record[x].month
        BY <2>2, Zenon
      <4> QED
        BY <4>1 DEF UsageInv, RecordsArePast
    <3> QED
      BY <2>1, <3>1 DEF RecordsArePast, U!planVars
  <2>6. EvaluatedIsCompleted'
    BY <2>1, <2>2 DEF UsageInv, EvaluatedIsCompleted
  <2> QED
    BY <1>idle, <2>1, <2>3, <2>4, <2>5, <2>6, RequestMoves
\* Steps of an evaluation: one record changes its session.
<1>eval. ASSUME NEW r \in Requests, NEW q \in U!Request, NEW x \in Records,
                NEW state \in U!MockStates,
                usageReq' = [usageReq EXCEPT ![r] = q], q.pc # "counted",
                q.pc \in {"asking", "failed", "evaluating"} => q.record \in Records,
                record' = [record EXCEPT ![x].session = state],
                evaluated' \in [Records -> Nat],
                \A y \in Records \ {x} : evaluated'[y] = evaluated[y],
                evaluated'[x] = 0 \/ (evaluated'[x] = 1 /\ state = "COMPLETED"),
                delivered' \subseteq Records,
                UNCHANGED <<allowance, subscribed, trials, month>>
         PROVE  UsageInv'
  <2>1. /\ record' \in [Records -> U!Record]
        /\ record'[x].session = state
        /\ \A y \in Records : /\ record'[y].month = record[y].month
                             /\ record'[y].kept = record[y].kept
                             /\ y # x => record'[y] = record[y]
    <3>1. [record[x] EXCEPT !.session = state] \in U!Record
      BY <1>types DEF U!Record
    <3>2. /\ [record[x] EXCEPT !.session = state].session = state
          /\ [record[x] EXCEPT !.session = state].month = record[x].month
          /\ [record[x] EXCEPT !.session = state].kept = record[x].kept
      BY <1>types DEF U!Record
    <3> QED
      BY <1>eval, <1>types, <3>1, <3>2
  <2>2. U!TypeOK'
    BY <1>eval, <2>1 DEF UsageInv, U!TypeOK
  <2>3. U!UsedIn(month)' \subseteq U!UsedIn(month)
    BY <1>eval, <2>1 DEF U!UsedIn
  <2>4. RecordsArePast'
    BY <1>eval, <2>1 DEF UsageInv, RecordsArePast
  <2>5. EvaluatedIsCompleted'
    BY <1>eval, <2>1 DEF UsageInv, EvaluatedIsCompleted
  <2> QED
    BY <1>eval, <2>2, <2>3, <2>4, <2>5, RequestMoves
<1>7. ASSUME NEW r \in Requests, NEW x \in Records, U!BeginEvaluation(r, x)
      PROVE  UsageInv'
  <2> DEFINE q == [usageReq[r] EXCEPT !.pc = "evaluating", !.record = x]
  <2>1. q \in U!Request /\ q.pc = "evaluating" /\ q.record = x
    BY <1>types DEF U!Request
  <2>2. usageReq' = [usageReq EXCEPT ![r] = q]
    BY <1>7, <1>types DEF U!BeginEvaluation
  <2>3. /\ record' = [record EXCEPT ![x].session = "EVALUATING"]
        /\ UNCHANGED <<allowance, subscribed, trials, month, delivered, evaluated>>
    BY <1>7 DEF U!BeginEvaluation, U!planVars
  <2>4. evaluated[x] = 0
    BY <1>7 DEF U!BeginEvaluation, U!Claimable, UsageInv, EvaluatedIsCompleted
  <2>5. "EVALUATING" \in U!MockStates /\ delivered \subseteq Records
    BY DEF U!MockStates, UsageInv, U!TypeOK
  <2> HIDE DEF q
  <2> QED
    BY <1>eval, <1>types, <2>1, <2>2, <2>3, <2>4, <2>5
<1>8. ASSUME NEW r \in Requests, NEW heard \in BOOLEAN, U!CompleteEvaluation(r, heard)
      PROVE  UsageInv'
  <2> DEFINE x == usageReq[r].record
  <2>1. x \in Records /\ evaluated[x] = 0
    BY <1>8 DEF U!CompleteEvaluation, UsageInv, RecordsAreNamed, EvaluatedIsCompleted
  <2>2. /\ usageReq' = [usageReq EXCEPT ![r] = U!Idle]
        /\ record' = [record EXCEPT ![x].session = "COMPLETED"]
        /\ evaluated' = IF heard THEN [evaluated EXCEPT ![x] = evaluated[x] + 1] ELSE evaluated
        /\ UNCHANGED <<allowance, subscribed, trials, month, delivered>>
    BY <1>8 DEF U!CompleteEvaluation, U!Answered, U!planVars
  <2>3. "COMPLETED" \in U!MockStates /\ delivered \subseteq Records
    BY DEF U!MockStates, UsageInv, U!TypeOK
  <2> HIDE DEF x
  <2>4. /\ evaluated' \in [Records -> Nat]
        /\ \A y \in Records \ {x} : evaluated'[y] = evaluated[y]
        /\ evaluated'[x] = 0 \/ evaluated'[x] = 1
    BY <1>types, <2>1, <2>2
  <2> QED
    BY <1>eval, <1>idle, <2>1, <2>2, <2>3, <2>4
<1>9. ASSUME NEW r \in Requests, U!EvaluationFails(r)
      PROVE  UsageInv'
  <2> DEFINE x == usageReq[r].record
  <2>1. /\ x \in Records
        /\ usageReq' = [usageReq EXCEPT ![r] = U!Idle]
        /\ UNCHANGED <<allowance, subscribed, trials, month, delivered, evaluated>>
    BY <1>9 DEF U!EvaluationFails, U!Answered, U!planVars, UsageInv, RecordsAreNamed
  <2>2. CASE record[x].session = "EVALUATING"
    <3>1. record' = [record EXCEPT ![x].session = "ACTIVE"]
      BY <1>9, <2>2 DEF U!EvaluationFails
    <3>2. evaluated[x] = 0
      BY <2>1, <2>2 DEF UsageInv, EvaluatedIsCompleted
    <3>3. "ACTIVE" \in U!MockStates /\ delivered \subseteq Records
      BY DEF U!MockStates, UsageInv, U!TypeOK
    <3> HIDE DEF x
    <3> QED
      BY <1>eval, <1>idle, <1>types, <2>1, <3>1, <3>2, <3>3
  <2>3. CASE record[x].session # "EVALUATING"
    <3>1. UNCHANGED record
      BY <1>9, <2>3 DEF U!EvaluationFails
    <3>2. U!TypeOK'
      BY <1>idle, <2>1, <3>1 DEF UsageInv, U!TypeOK
    <3> QED
      BY <1>idle, <1>keep, <2>1, <3>1, <3>2
  <2> QED
    BY <2>2, <2>3
<1> QED
  BY <1>1, <1>2, <1>3, <1>4, <1>5, <1>6, <1>7, <1>8, <1>9, PlansChange, Reserved, Counted
     DEF U!Next, U!RequestStep

\* At most one request of a user is between its count and its insert, and until then the
\* month has room for it (recordAiUsageInTransaction); what was evaluated is completed
\* (evaluateInterview).
THEOREM UsageInvHolds == U!Spec => []UsageInv
<1>1. U!Init => UsageInv
  BY UsageInit
<1>2. UsageInv /\ [U!Next]_U!usageVars => UsageInv'
  BY UsageStep DEF usage, U!usageVars
<1> QED
  BY <1>1, <1>2, PTL DEF U!Spec

\* For every number of interviews and of overlapping evaluations, an interview is evaluated
\* at most once (evaluateInterview).
THEOREM EvaluatedOnceHolds == U!Spec => []EvaluatedOnce
<1>1. UsageInv => EvaluatedOnce
  BY DEF UsageInv, EvaluatedIsCompleted, EvaluatedOnce, U!EvaluatedOnce
<1> QED
  BY <1>1, UsageInvHolds, PTL

\* For every allowance and every number of requests, a reservation leaves the month within
\* the allowance its transaction read (recordAiUsageInTransaction).
THEOREM AllowanceKeptHolds == U!Spec => AllowanceKept
<1>1. ASSUME UsageInv, U!Next, NEW r \in Requests,
             usageReq[r].pc = "counted", usageReq'[r].pc = "asking"
      PROVE  Cardinality(U!UsedIn(month)') <= usageReq[r].limit
  <2>1. PICK x \in Records : U!Reserve(r, x)
    <3>0. usageReq \in [Requests -> U!Request] /\ U!Idle.pc = "idle"
      BY <1>1 DEF UsageInv, U!TypeOK, U!Idle
    <3>1. ASSUME NEW q \in Requests, U!RequestStep(q), q # r PROVE FALSE
      <4>1. usageReq'[r] = usageReq[r]
        BY <3>0, <3>1 DEF U!RequestStep, U!BeginTrial, U!CreateTrial, U!BeginFeature, U!CountUsage,
             U!Reserve, U!BeginEvaluation, U!Deliver, U!ProviderFails, U!Release,
             U!CompleteEvaluation, U!EvaluationFails, U!Abort, U!Answered
      <4> QED
        BY <1>1, <4>1
    <3>2. ~U!PlanStep
      BY <1>1 DEF U!PlanStep, U!EditPlan, U!ChangeSubscription, U!TrialEnds, U!NextMonth
    <3>3. U!RequestStep(r)
      BY <1>1, <3>1, <3>2 DEF U!Next
    <3>4. usageReq[r] # U!Idle
      BY <1>1, <3>0
    <3>5. ~U!Abort(r)
      BY <1>1, <3>0 DEF U!Abort, U!Answered
    <3> QED
      BY <1>1, <3>0, <3>3, <3>4, <3>5
         DEF U!RequestStep, U!BeginTrial, U!CreateTrial, U!BeginFeature, U!CountUsage,
             U!BeginEvaluation, U!Deliver, U!ProviderFails, U!Release, U!CompleteEvaluation,
             U!EvaluationFails
  <2> QED
    BY <1>1, <2>1, Reserved
<1>2. UsageInv /\ [U!Next]_U!usageVars =>
        [\A r \in Requests : usageReq[r].pc = "counted" /\ usageReq'[r].pc = "asking" =>
            U!Cardinality(U!UsedIn(month)') <= usageReq[r].limit]_U!usageVars
  BY <1>1, UsageCardinality
<1> QED
  BY <1>2, UsageInvHolds, PTL DEF U!Spec, AllowanceKept, U!AllowanceKept

-----------------------------------------------------------------------------
(* Payout accounts *)

\* A quote is of the account as it was at the version it carries: as long as the account
\* has that version, it has the details the quote showed.
IsOfItsVersion(q) ==
    /\ q.version <= account[q.account].version
    /\ q.version = account[q.account].version => q.shown = account[q.account].details

\* What a request is about at each point of its way.
PayoutOnItsRow ==
    \A r \in Requests :
      /\ payoutReq[r].pc \in {"wallet", "fee", "account"} =>
           payoutReq[r].op = "withdraw" /\ payoutReq[r].on \in Withdrawals
      /\ payoutReq[r].pc \in {"asked", "resolved", "checked"} =>
           payoutReq[r].op \in {"create", "update"} /\ payoutReq[r].on \in Accounts

QuotesAreOfTheirVersion ==
    /\ \A q \in quotes : IsOfItsVersion(q)
    /\ \A r \in Requests : payoutReq[r].op = "withdraw" => IsOfItsVersion(payoutReq[r].quote)

\* The charge is held from its check to the commit; the account is what the quote showed.
ReadAsQuoted ==
    \A r \in Requests :
      /\ payoutReq[r].pc \in {"fee", "account"} => fee.charge = payoutReq[r].quote.charge
      /\ payoutReq[r].pc = "account" => payoutReq[r].details = payoutReq[r].quote.shown

PayoutInv == P!TypeOK /\ PayoutOnItsRow /\ QuotesAreOfTheirVersion /\ ReadAsQuoted

\* The record every idle request is.
LEMMA PayoutIdle == P!Idle \in P!Request /\ P!Idle.op = "none" /\ P!Idle.pc = "idle"
<1>1. P!AnyDetails \in Details /\ (CHOOSE a \in Accounts : TRUE) \in Accounts
      /\ (CHOOSE f \in Fees : TRUE) \in Fees
  BY ScenesAssumption DEF P!AnyDetails
<1>2. P!AnyQuote \in P!Quote
  BY <1>1 DEF P!AnyQuote, P!Quote
<1> QED
  BY <1>1, <1>2 DEF P!Idle, P!Request

\* It holds initially.
LEMMA PayoutInit == P!Init => PayoutInv
<1> SUFFICES ASSUME P!Init PROVE PayoutInv
  OBVIOUS
<1>1. P!AnyDetails \in Details /\ P!AnyQuote \in P!Quote
  BY ScenesAssumption DEF P!AnyDetails, P!AnyQuote, P!Quote
<1>2. P!TypeOK
  <2>1. account \in [Accounts -> P!Account]
    BY <1>1 DEF P!Init, P!Account
  <2>2. fee \in P!Fee
    BY DEF P!Init, P!Fee
  <2>3. withdrawal \in [Withdrawals -> P!Withdrawal]
    BY <1>1 DEF P!Init, P!Withdrawal
  <2> QED
    BY <2>1, <2>2, <2>3, PayoutIdle DEF P!Init, P!TypeOK
<1> QED
  BY <1>2, PayoutIdle
     DEF P!Init, PayoutInv, PayoutOnItsRow, QuotesAreOfTheirVersion, ReadAsQuoted

\* An account that is written has a new version; the others keep theirs with their details.
LEMMA AccountSaved ==
    ASSUME P!TypeOK, NEW a \in Accounts, NEW d \in Details, NEW isDefault \in BOOLEAN,
           NEW replaces \in BOOLEAN, P!Save(a, d, isDefault, replaces)
    PROVE  /\ account' \in [Accounts -> P!Account]
           /\ \A b \in Accounts :
                account'[b].version > account[b].version \/ account'[b] = account[b]
<1>1. ASSUME NEW b \in Accounts, NEW e \in Details, NEW i \in BOOLEAN
      PROVE  /\ P!Saved(b, e, i) \in P!Account
             /\ P!Saved(b, e, i).version > account[b].version
  <2>1. account[b].version \in Nat
    BY DEF P!TypeOK, P!Account
  <2>2. account[b].version + 1 \in Nat /\ account[b].version + 1 > account[b].version
    BY <2>1
  <2> QED
    BY <2>2 DEF P!Saved, P!Account
<1>2. ASSUME NEW b \in Accounts PROVE account[b] \in P!Account /\ account[b].details \in Details
  BY DEF P!TypeOK, P!Account
<1> DEFINE new(b) == IF b = a THEN P!Saved(a, d, isDefault)
                     ELSE IF replaces /\ b \in P!Defaults
                          THEN P!Saved(b, account[b].details, FALSE)
                          ELSE account[b]
<1>3. account' = [b \in Accounts |-> new(b)]
  BY DEF P!Save
<1>4. ASSUME NEW b \in Accounts
      PROVE  new(b) \in P!Account /\ (new(b).version > account[b].version \/ new(b) = account[b])
  BY <1>1, <1>2
<1> HIDE DEF new
<1> QED
  BY <1>3, <1>4

\* What a quote fits it fits after the accounts have changed.
LEMMA QuoteOutlivesChange ==
    ASSUME P!TypeOK, account' \in [Accounts -> P!Account],
           \A b \in Accounts :
             account'[b].version > account[b].version \/ account'[b] = account[b],
           NEW q \in P!Quote, IsOfItsVersion(q)
    PROVE  /\ q.version <= account'[q.account].version
           /\ q.version = account'[q.account].version => q.shown = account'[q.account].details
<1>1. q.account \in Accounts /\ q.version \in Nat
  BY DEF P!Quote
<1>2. account[q.account].version \in Nat /\ account'[q.account].version \in Nat
  BY <1>1 DEF P!TypeOK, P!Account
<1>3. CASE account'[q.account] = account[q.account]
  BY <1>3 DEF IsOfItsVersion
<1>4. CASE account'[q.account].version > account[q.account].version
  BY <1>1, <1>2, <1>4 DEF IsOfItsVersion
<1> QED
  BY <1>1, <1>3, <1>4

\* A step that changes one request and neither accounts, charge nor quotes.
LEMMA PayoutRequestMoves ==
    ASSUME PayoutInv, NEW r \in Requests, NEW q \in P!Request,
           payoutReq' = [payoutReq EXCEPT ![r] = q],
           UNCHANGED <<account, fee, quotes>>, withdrawal' \in [Withdrawals -> P!Withdrawal],
           q.pc \in {"wallet", "fee", "account"} => q.op = "withdraw" /\ q.on \in Withdrawals,
           q.pc \in {"asked", "resolved", "checked"} =>
             q.op \in {"create", "update"} /\ q.on \in Accounts,
           q.op = "withdraw" => IsOfItsVersion(q.quote),
           q.pc \in {"fee", "account"} => fee.charge = q.quote.charge,
           q.pc = "account" => q.details = q.quote.shown
    PROVE  PayoutInv'
<1>1. /\ payoutReq' \in [Requests -> P!Request] /\ payoutReq'[r] = q
      /\ \A k \in Requests : k # r => payoutReq'[k] = payoutReq[k]
  BY DEF PayoutInv, P!TypeOK
<1>2. P!TypeOK'
  BY <1>1 DEF PayoutInv, P!TypeOK
<1>3. PayoutOnItsRow'
  BY <1>1 DEF PayoutInv, PayoutOnItsRow
<1>4. QuotesAreOfTheirVersion'
  BY <1>1 DEF PayoutInv, QuotesAreOfTheirVersion, IsOfItsVersion
<1>5. ReadAsQuoted'
  BY <1>1 DEF PayoutInv, ReadAsQuoted
<1> QED
  BY <1>2, <1>3, <1>4, <1>5 DEF PayoutInv

\* A step that saves an account; a request it ends is idle.
LEMMA AccountChanges ==
    ASSUME PayoutInv, NEW a \in Accounts, NEW d \in Details, NEW isDefault \in BOOLEAN,
           NEW replaces \in BOOLEAN, P!Save(a, d, isDefault, replaces),
           UNCHANGED <<fee, quotes, withdrawal>>,
           payoutReq' \in [Requests -> P!Request],
           \A k \in Requests : payoutReq'[k] = payoutReq[k] \/ payoutReq'[k] = P!Idle
    PROVE  PayoutInv'
<1>1. /\ account' \in [Accounts -> P!Account]
      /\ \A b \in Accounts :
           account'[b].version > account[b].version \/ account'[b] = account[b]
  BY AccountSaved DEF PayoutInv
<1>2. P!TypeOK'
  BY <1>1 DEF PayoutInv, P!TypeOK
<1>3. PayoutOnItsRow' /\ ReadAsQuoted'
  BY PayoutIdle DEF PayoutInv, PayoutOnItsRow, ReadAsQuoted
<1>4. QuotesAreOfTheirVersion'
  <2>1. ASSUME NEW q \in quotes PROVE IsOfItsVersion(q)'
    <3>1. q \in P!Quote /\ IsOfItsVersion(q)
      BY DEF PayoutInv, P!TypeOK, QuotesAreOfTheirVersion
    <3> QED
      BY <1>1, <3>1, QuoteOutlivesChange DEF PayoutInv, IsOfItsVersion
  <2>2. ASSUME NEW r \in Requests, payoutReq'[r].op = "withdraw"
        PROVE  IsOfItsVersion(payoutReq[r].quote)' /\ payoutReq'[r] = payoutReq[r]
    <3>1. payoutReq'[r] = payoutReq[r]
      BY <2>2, PayoutIdle
    <3> DEFINE q == payoutReq[r].quote
    <3>2. q \in P!Quote /\ IsOfItsVersion(q)
      BY <2>2, <3>1 DEF PayoutInv, P!TypeOK, P!Request, QuotesAreOfTheirVersion
    <3>3. q' = q
      BY <3>1
    <3> HIDE DEF q
    <3>4. /\ q.version <= account'[q.account].version
          /\ q.version = account'[q.account].version => q.shown = account'[q.account].details
      BY <1>1, <3>2, QuoteOutlivesChange DEF PayoutInv
    <3>5. IsOfItsVersion(q)'
      BY <3>3, <3>4 DEF IsOfItsVersion
    <3> QED
      BY <3>1, <3>5 DEF q
  <2> QED
    BY <2>1, <2>2 DEF QuotesAreOfTheirVersion, IsOfItsVersion
<1> QED
  BY <1>2, <1>3, <1>4 DEF PayoutInv

\* Every step of an account, a fee and a withdrawal keeps it.
LEMMA PayoutStep == PayoutInv /\ [P!Next]_payouts => PayoutInv'
<1> SUFFICES ASSUME PayoutInv, [P!Next]_payouts PROVE PayoutInv'
  OBVIOUS
<1>0. CASE UNCHANGED payouts
  BY <1>0 DEF payouts, PayoutInv, P!TypeOK, PayoutOnItsRow, QuotesAreOfTheirVersion,
     ReadAsQuoted, IsOfItsVersion
<1>types. /\ payoutReq \in [Requests -> P!Request] /\ quotes \subseteq P!Quote
          /\ withdrawal \in [Withdrawals -> P!Withdrawal]
          /\ account \in [Accounts -> P!Account] /\ fee \in P!Fee
  BY DEF PayoutInv, P!TypeOK
<1>1. ASSUME NEW a \in Accounts, P!GiveQuote(a)
      PROVE  PayoutInv'
  <2> DEFINE q == [account |-> a, version |-> account[a].version, shown |-> account[a].details,
                   charge |-> fee.charge, feeVersion |-> fee.version]
  <2>1. account[a].version \in Nat /\ account[a].details \in Details /\ fee.charge \in Fees
        /\ fee.version \in Nat
    BY <1>types DEF P!Account, P!Fee
  <2>2. q \in P!Quote /\ IsOfItsVersion(q)
    BY <2>1 DEF P!Quote, IsOfItsVersion
  <2>3. quotes' = quotes \cup {q} /\ UNCHANGED <<account, fee, withdrawal, payoutReq>>
    BY <1>1 DEF P!GiveQuote
  <2> HIDE DEF q
  <2>4. P!TypeOK'
    BY <2>2, <2>3 DEF PayoutInv, P!TypeOK
  <2>5. QuotesAreOfTheirVersion'
    BY <2>2, <2>3 DEF PayoutInv, QuotesAreOfTheirVersion, IsOfItsVersion
  <2> QED
    BY <2>3, <2>4, <2>5 DEF PayoutInv, PayoutOnItsRow, ReadAsQuoted
<1>2. ASSUME NEW a \in Accounts, NEW isDefault \in BOOLEAN, P!SetDefault(a, isDefault)
      PROVE  PayoutInv'
  <2>1. P!Save(a, account[a].details, isDefault, isDefault)
        /\ UNCHANGED <<fee, quotes, withdrawal, payoutReq>>
    BY <1>2 DEF P!SetDefault
  <2>2. account[a].details \in Details
    BY <1>types DEF P!Account
  <2> QED
    BY <1>types, <2>1, <2>2, AccountChanges
<1>3. ASSUME NEW charge \in Fees, P!UpdateFee(charge)
      PROVE  PayoutInv'
  <2>1. /\ fee' = [charge |-> charge, version |-> fee.version + 1]
        /\ UNCHANGED <<account, quotes, withdrawal, payoutReq>>
        /\ \A r \in Requests : payoutReq[r].pc \notin {"fee", "account"}
    BY <1>3 DEF P!UpdateFee, P!FeeFree
  <2>2. fee.version \in Nat
    BY <1>types DEF P!Fee
  <2>3. fee.version + 1 \in Nat
    BY <2>2
  <2>4. fee' \in P!Fee
    BY <2>1, <2>3 DEF P!Fee
  <2>5. P!TypeOK'
    BY <2>1, <2>4 DEF PayoutInv, P!TypeOK
  <2> QED
    BY <2>1, <2>5
       DEF PayoutInv, PayoutOnItsRow, QuotesAreOfTheirVersion, IsOfItsVersion, ReadAsQuoted
<1>4. ASSUME NEW q \in quotes, P!QuoteExpires(q)
      PROVE  PayoutInv'
  <2>1. quotes' \subseteq quotes /\ UNCHANGED <<account, fee, withdrawal, payoutReq>>
    BY <1>4 DEF P!QuoteExpires
  <2> QED
    BY <2>1 DEF PayoutInv, P!TypeOK, PayoutOnItsRow, QuotesAreOfTheirVersion, IsOfItsVersion,
       ReadAsQuoted
<1>5. ASSUME NEW w \in Withdrawals, P!EndWithdrawal(w)
      PROVE  PayoutInv'
  <2>1. withdrawal[w] \in P!Withdrawal
    BY <1>types
  <2>2. [withdrawal[w] EXCEPT !.status = "over"] \in P!Withdrawal
    BY <2>1 DEF P!Withdrawal
  <2>3. withdrawal' \in [Withdrawals -> P!Withdrawal]
        /\ UNCHANGED <<account, fee, quotes, payoutReq>>
    BY <1>5, <1>types, <2>2 DEF P!EndWithdrawal
  <2> QED
    BY <2>3 DEF PayoutInv, P!TypeOK, PayoutOnItsRow, QuotesAreOfTheirVersion, IsOfItsVersion,
       ReadAsQuoted
<1>6. ASSUME NEW r \in Requests, NEW a \in Accounts, NEW d \in Details, NEW i \in BOOLEAN,
             P!BeginCreate(r, a, d, i) \/ P!BeginUpdate(r, a, d, i)
      PROVE  PayoutInv'
  <2>1. PICK q \in P!Request : /\ payoutReq' = [payoutReq EXCEPT ![r] = q]
                               /\ q.pc = "asked" /\ q.op \in {"create", "update"} /\ q.on = a
    <3> DEFINE p(op) == [P!Idle EXCEPT !.op = op, !.pc = "asked", !.on = a, !.details = d,
                                       !.isDefault = i]
    <3>1. ASSUME NEW op \in {"create", "update"}
          PROVE  p(op) \in P!Request /\ p(op).pc = "asked" /\ p(op).op = op /\ p(op).on = a
      BY PayoutIdle DEF P!Request
    <3>2. \E op \in {"create", "update"} : payoutReq' = [payoutReq EXCEPT ![r] = p(op)]
      BY <1>6 DEF P!BeginCreate, P!BeginUpdate, P!Keep
    <3> HIDE DEF p
    <3> QED
      BY <3>1, <3>2
  <2>2. UNCHANGED <<account, fee, quotes, withdrawal>>
    BY <1>6 DEF P!BeginCreate, P!BeginUpdate
  <2> QED
    BY <1>types, <2>1, <2>2, PayoutRequestMoves
<1>7. ASSUME NEW r \in Requests,
             (\E accepted \in BOOLEAN : P!Resolve(r, accepted)) \/ P!CheckCreate(r)
             \/ P!CheckUpdate(r)
      PROVE  PayoutInv'
  <2>0. payoutReq[r] \in P!Request /\ payoutReq[r].pc \in {"asked", "resolved"}
    BY <1>7, <1>types DEF P!Resolve, P!CheckCreate, P!CheckUpdate
  <2>1. payoutReq[r].op \in {"create", "update"} /\ payoutReq[r].on \in Accounts
    BY <2>0 DEF PayoutInv, PayoutOnItsRow
  <2> DEFINE p(pc, i, s) == [payoutReq[r] EXCEPT !.pc = pc, !.isDefault = i, !.replaces = s]
  <2>2. ASSUME NEW pc \in {"resolved", "checked"}, NEW i \in BOOLEAN, NEW s \in BOOLEAN
        PROVE  /\ p(pc, i, s) \in P!Request /\ p(pc, i, s).pc = pc
               /\ p(pc, i, s).op = payoutReq[r].op /\ p(pc, i, s).on = payoutReq[r].on
    BY <2>0 DEF P!Request
  <2>3. \/ payoutReq' = [payoutReq EXCEPT ![r] = P!Idle]
        \/ \E pc \in {"resolved", "checked"}, i, s \in BOOLEAN :
             payoutReq' = [payoutReq EXCEPT ![r] = p(pc, i, s)]
    <3> DEFINE isD == payoutReq[r].isDefault
               rep == payoutReq[r].replaces
               old == payoutReq[r].on
    <3>0. isD \in BOOLEAN /\ rep \in BOOLEAN /\ old \in Accounts
          /\ account[old].isDefault \in BOOLEAN
      BY <1>types, <2>0, <2>1 DEF P!Request, P!Account
    <3>1. CASE \E accepted \in BOOLEAN : P!Resolve(r, accepted)
      <4>1. [payoutReq[r] EXCEPT !.pc = "resolved"] = p("resolved", isD, rep)
        BY <2>0 DEF P!Request
      <4> QED
        BY <3>0, <3>1, <4>1 DEF P!Resolve, P!Keep
    <3>2. CASE P!CheckCreate(r)
      <4> DEFINE first == \A a \in Accounts : ~account[a].exists
      <4>1. [payoutReq[r] EXCEPT !.pc = "checked", !.isDefault = @ \/ first,
                                 !.replaces = isD \/ first]
              = p("checked", isD \/ first, isD \/ first)
        OBVIOUS
      <4>2. (isD \/ first) \in BOOLEAN
        OBVIOUS
      <4> QED
        BY <3>2, <4>1, <4>2 DEF P!CheckCreate, P!Keep
    <3>3. CASE P!CheckUpdate(r)
      <4> DEFINE was == account[old].isDefault
      <4>1. [payoutReq[r] EXCEPT !.pc = "checked", !.isDefault = @ \/ was,
                                 !.replaces = isD /\ ~was]
              = p("checked", isD \/ was, isD /\ ~was)
        OBVIOUS
      <4>2. (isD \/ was) \in BOOLEAN /\ (isD /\ ~was) \in BOOLEAN
        OBVIOUS
      <4> QED
        BY <3>3, <4>1, <4>2 DEF P!CheckUpdate, P!Keep
    <3> QED
      BY <1>7, <3>1, <3>2, <3>3
  <2>4. UNCHANGED <<account, fee, quotes, withdrawal>>
    BY <1>7 DEF P!Resolve, P!CheckCreate, P!CheckUpdate
  <2> HIDE DEF p
  <2>5. CASE payoutReq' = [payoutReq EXCEPT ![r] = P!Idle]
    BY <1>types, <2>4, <2>5, PayoutIdle, PayoutRequestMoves
  <2>6. ASSUME NEW pc \in {"resolved", "checked"}, NEW i \in BOOLEAN, NEW s \in BOOLEAN,
               payoutReq' = [payoutReq EXCEPT ![r] = p(pc, i, s)]
        PROVE  PayoutInv'
    BY <1>types, <2>1, <2>2, <2>4, <2>6, PayoutRequestMoves
  <2> QED
    BY <2>3, <2>5, <2>6
<1>8. ASSUME NEW r \in Requests, P!SaveAccount(r)
      PROVE  PayoutInv'
  <2>1. payoutReq[r].on \in Accounts
    BY <1>8 DEF P!SaveAccount, PayoutInv, PayoutOnItsRow
  <2>2. payoutReq[r].details \in Details /\ payoutReq[r].isDefault \in BOOLEAN
        /\ payoutReq[r].replaces \in BOOLEAN
    BY <1>types DEF P!Request
  <2>3. /\ P!Save(payoutReq[r].on, payoutReq[r].details, payoutReq[r].isDefault,
                  payoutReq[r].replaces)
        /\ payoutReq' = [payoutReq EXCEPT ![r] = P!Idle]
        /\ UNCHANGED <<fee, quotes, withdrawal>>
    BY <1>8 DEF P!SaveAccount, P!Answer, P!Keep
  <2>4. payoutReq' \in [Requests -> P!Request]
        /\ \A k \in Requests : payoutReq'[k] = payoutReq[k] \/ payoutReq'[k] = P!Idle
    BY <1>types, <2>3, PayoutIdle
  <2> QED
    BY <2>1, <2>2, <2>3, <2>4, AccountChanges
<1>9. ASSUME NEW r \in Requests, NEW w \in Withdrawals, NEW q \in quotes,
             P!BeginWithdraw(r, w, q)
      PROVE  PayoutInv'
  <2> DEFINE p == [P!Idle EXCEPT !.op = "withdraw", !.pc = "wallet", !.on = w, !.quote = q]
  <2>1. p \in P!Request /\ p.op = "withdraw" /\ p.pc = "wallet" /\ p.on = w /\ p.quote = q
    BY <1>types, PayoutIdle DEF P!Request
  <2>2. payoutReq' = [payoutReq EXCEPT ![r] = p] /\ UNCHANGED <<account, fee, quotes, withdrawal>>
    BY <1>9 DEF P!BeginWithdraw, P!Keep
  <2>3. IsOfItsVersion(q)
    BY DEF PayoutInv, QuotesAreOfTheirVersion
  <2> HIDE DEF p
  <2> QED
    BY <1>types, <2>1, <2>2, <2>3, PayoutRequestMoves
<1>10. ASSUME NEW r \in Requests, P!CheckFee(r)
       PROVE  PayoutInv'
  <2> DEFINE p == [payoutReq[r] EXCEPT !.pc = "fee"]
  <2>1. payoutReq[r] \in P!Request /\ payoutReq[r].pc = "wallet"
    BY <1>10, <1>types DEF P!CheckFee
  <2>2. p \in P!Request /\ p.op = payoutReq[r].op /\ p.pc = "fee" /\ p.on = payoutReq[r].on
        /\ p.quote = payoutReq[r].quote
    BY <2>1 DEF P!Request
  <2>3. UNCHANGED <<account, fee, quotes, withdrawal>>
    BY <1>10 DEF P!CheckFee
  <2>4. payoutReq[r].op = "withdraw" /\ payoutReq[r].on \in Withdrawals
        /\ IsOfItsVersion(payoutReq[r].quote)
    BY <2>1 DEF PayoutInv, PayoutOnItsRow, QuotesAreOfTheirVersion
  <2>5. \/ payoutReq' = [payoutReq EXCEPT ![r] = P!Idle]
        \/ payoutReq' = [payoutReq EXCEPT ![r] = p] /\ fee.charge = payoutReq[r].quote.charge
    BY <1>10 DEF P!CheckFee, P!Keep
  <2> HIDE DEF p
  <2> QED
    BY <1>types, <2>2, <2>3, <2>4, <2>5, PayoutIdle, PayoutRequestMoves
<1>11. ASSUME NEW r \in Requests, P!CheckAccount(r)
       PROVE  PayoutInv'
  <2> DEFINE a == payoutReq[r].quote.account
             p == [payoutReq[r] EXCEPT !.pc = "account", !.details = account[a].details]
  <2>1. payoutReq[r] \in P!Request /\ payoutReq[r].pc = "fee"
    BY <1>11, <1>types DEF P!CheckAccount
  <2>2. payoutReq[r].quote \in P!Quote /\ a \in Accounts
    BY <2>1 DEF P!Request, P!Quote
  <2>3. account[a].details \in Details
    BY <1>types, <2>2 DEF P!Account
  <2>4. p \in P!Request /\ p.op = payoutReq[r].op /\ p.pc = "account" /\ p.on = payoutReq[r].on
        /\ p.quote = payoutReq[r].quote /\ p.details = account[a].details
    BY <2>1, <2>3 DEF P!Request
  <2>5. UNCHANGED <<account, fee, quotes, withdrawal>>
    BY <1>11 DEF P!CheckAccount
  <2>6. payoutReq[r].op = "withdraw" /\ payoutReq[r].on \in Withdrawals
        /\ IsOfItsVersion(payoutReq[r].quote) /\ fee.charge = payoutReq[r].quote.charge
    BY <2>1 DEF PayoutInv, PayoutOnItsRow, QuotesAreOfTheirVersion, ReadAsQuoted
  <2>7. \/ payoutReq' = [payoutReq EXCEPT ![r] = P!Idle]
        \/ /\ payoutReq' = [payoutReq EXCEPT ![r] = p]
           /\ account[a].version = payoutReq[r].quote.version
    BY <1>11 DEF P!CheckAccount, P!AccountUnchanged, P!Keep
  <2>8. CASE payoutReq' = [payoutReq EXCEPT ![r] = P!Idle]
    BY <1>types, <2>5, <2>8, PayoutIdle, PayoutRequestMoves
  <2>9. CASE /\ payoutReq' = [payoutReq EXCEPT ![r] = p]
             /\ account[a].version = payoutReq[r].quote.version
    <3>1. payoutReq[r].quote.shown = account[a].details
      BY <2>6, <2>9 DEF IsOfItsVersion
    <3> HIDE DEF p
    <3> QED
      BY <1>types, <2>4, <2>5, <2>6, <2>9, <3>1, PayoutRequestMoves
  <2> QED
    BY <2>7, <2>8, <2>9
<1>12. ASSUME NEW r \in Requests, P!CreateWithdrawal(r)
       PROVE  PayoutInv'
  <2> DEFINE v == [status |-> "PENDING", pays |-> payoutReq[r].details,
                   quote |-> payoutReq[r].quote]
  <2>1. v \in P!Withdrawal
    <3>1. payoutReq[r].details \in Details /\ payoutReq[r].quote \in P!Quote
      BY <1>types DEF P!Request
    <3> QED
      BY <3>1 DEF P!Withdrawal
  <2>2. /\ withdrawal' = [withdrawal EXCEPT ![payoutReq[r].on] = v]
        /\ payoutReq' = [payoutReq EXCEPT ![r] = P!Idle] /\ UNCHANGED <<account, fee, quotes>>
    BY <1>12 DEF P!CreateWithdrawal, P!Answer, P!Keep
  <2> HIDE DEF v
  <2>3. withdrawal' \in [Withdrawals -> P!Withdrawal]
    BY <1>types, <2>1, <2>2
  <2> QED
    BY <2>2, <2>3, PayoutIdle, PayoutRequestMoves
<1>13. ASSUME NEW r \in Requests, P!Abort(r)
       PROVE  PayoutInv'
  BY <1>13, <1>types, PayoutIdle, PayoutRequestMoves DEF P!Abort, P!Answer, P!Keep
<1>14. CASE P!Next
  <2>1. ASSUME NEW r \in Requests, P!RequestStep(r) PROVE PayoutInv'
    BY <1>6, <1>7, <1>8, <1>9, <1>10, <1>11, <1>12, <1>13, <2>1 DEF P!RequestStep
  <2> QED
    BY <1>1, <1>2, <1>3, <1>4, <1>5, <1>14, <2>1 DEF P!Next
<1> QED
  BY <1>0, <1>14 DEF payouts

\* A quote is of the account as it was at its version, also while a withdrawal is confirmed
\* with it, and the charge that was checked is in force until the commit
\* (createSeekerWithdrawal).
THEOREM PayoutInvHolds == P!Spec => []PayoutInv
<1>1. [P!Next]_P!payoutVars => [P!Next]_payouts
  BY DEF P!payoutVars, payouts
<1> QED
  BY <1>1, PayoutInit, PayoutStep, PTL DEF P!Spec

\* For every number of accounts, quotes and requests, a withdrawal is stored with the details
\* and the charge its quote showed (createSeekerWithdrawal).
THEOREM PaysAsQuotedHolds == P!Spec => PaysAsQuoted
<1>1. ASSUME PayoutInv, P!Next, NEW w \in Withdrawals,
             withdrawal[w].status = "none", withdrawal'[w].status = "PENDING"
      PROVE  /\ withdrawal'[w].pays = withdrawal'[w].quote.shown
             /\ withdrawal'[w].quote.charge = fee.charge
  <2>1. withdrawal' # withdrawal
    BY <1>1
  <2>2. ~\E v \in Withdrawals : P!EndWithdrawal(v)
    BY <1>1 DEF P!EndWithdrawal, PayoutInv, P!TypeOK
  <2>3. PICK r \in Requests : P!CreateWithdrawal(r)
    <3>1. PICK r \in Requests : P!RequestStep(r)
      BY <1>1, <2>1, <2>2 DEF P!Next, P!GiveQuote, P!SetDefault, P!UpdateFee, P!QuoteExpires
    <3> QED
      BY <2>1, <3>1 DEF P!RequestStep, P!BeginCreate, P!BeginUpdate, P!Resolve, P!CheckCreate,
         P!CheckUpdate, P!SaveAccount, P!BeginWithdraw, P!CheckFee, P!CheckAccount, P!Abort
  <2> DEFINE v == [status |-> "PENDING", pays |-> payoutReq[r].details,
                   quote |-> payoutReq[r].quote]
  <2>4. withdrawal' = [withdrawal EXCEPT ![payoutReq[r].on] = v] /\ payoutReq[r].pc = "account"
    BY <2>3 DEF P!CreateWithdrawal
  <2>5. v.pays = payoutReq[r].details /\ v.quote = payoutReq[r].quote
    OBVIOUS
  <2>6. withdrawal \in [Withdrawals -> P!Withdrawal] /\ payoutReq[r].on \in Withdrawals
    BY <1>1, <2>3, <2>4 DEF PayoutInv, P!TypeOK, PayoutOnItsRow
  <2> HIDE DEF v
  <2>7. withdrawal'[w] # withdrawal[w]
    BY <1>1
  <2>8. withdrawal'[w] = v
    BY <2>4, <2>6, <2>7
  <2> QED
    BY <1>1, <2>3, <2>4, <2>5, <2>8 DEF PayoutInv, ReadAsQuoted
<1>2. PayoutInv /\ [P!Next]_P!payoutVars =>
        [\A w \in Withdrawals :
           withdrawal[w].status = "none" /\ withdrawal'[w].status = "PENDING" =>
              /\ withdrawal'[w].pays = withdrawal'[w].quote.shown
              /\ withdrawal'[w].quote.charge = fee.charge]_P!payoutVars
  BY <1>1
<1> QED
  BY <1>2, PayoutInvHolds, PTL DEF P!Spec, PaysAsQuoted, P!PaysAsQuoted

-----------------------------------------------------------------------------
(* Campaigns *)

\* The Cardinality of the instance is the library's.
LEMMA CampaignCardinality ==
    ASSUME NEW A
    PROVE  C!Cardinality(A) = Cardinality(A)
BY DEF C!Cardinality, Cardinality

Everybody == People \cup Subscribers

\* One request sends the campaign; it is SENDING until that request has ended.
OneSends ==
    \A r \in Requests : campaignReq[r].pc \in {"queueing", "failing"} =>
      /\ campaign.status = "SENDING"
      /\ \A k \in Requests : campaignReq[k].pc \in {"queueing", "failing"} => k = r

\* What is queued and what is still to be queued are as many as the campaign reports.
QueuedOrToBe ==
    \A r \in Requests : campaignReq[r].pc = "queueing" =>
      campaign.recipientCount <= Cardinality(queued \cup campaignReq[r].to)

SentIsWhole == campaign.status = "SENT" => campaign.recipientCount <= Cardinality(queued)

CampaignInv == C!TypeOK /\ OneSends /\ QueuedOrToBe /\ SentIsWhole

\* A request that is idle sends nothing.
LEMMA CampaignIdle == C!Idle \in C!Request /\ C!Idle.pc = "idle"
<1>1. C!AnySegment \in Segments
  BY ScenesAssumption DEF C!AnySegment
<1> QED
  BY <1>1 DEF C!Idle, C!Request

\* Sets of people have a cardinality, and a larger set has no smaller one.
LEMMA CountPeople ==
    ASSUME NEW A \in SUBSET Everybody, NEW B \in SUBSET A
    PROVE  Cardinality(A) \in Nat /\ Cardinality(B) \in Nat /\ Cardinality(B) <= Cardinality(A)
<1>1. IsFiniteSet(A)
  BY ScenesAssumption, FS_Subset DEF Everybody
<1> QED
  BY <1>1, FS_Subset, FS_CardinalityType

\* It holds initially.
LEMMA CampaignInit == C!Init => CampaignInv
<1> SUFFICES ASSUME C!Init PROVE CampaignInv
  OBVIOUS
<1>1. C!AnySegment \in Segments
  BY ScenesAssumption DEF C!AnySegment
<1>2. C!TypeOK
  BY <1>1, CampaignIdle DEF C!Init, C!TypeOK, C!Campaign
<1> QED
  BY <1>2, CampaignIdle DEF C!Init, CampaignInv, OneSends, QueuedOrToBe, SentIsWhole

\* A step of a request that sends no more than before, and only adds to what is queued.
LEMMA CampaignRequestMoves ==
    ASSUME CampaignInv, NEW r \in Requests, NEW q \in C!Request,
           campaignReq' = [campaignReq EXCEPT ![r] = q],
           campaign' \in C!Campaign,
           campaign'.status = campaign.status /\ campaign'.recipientCount = campaign.recipientCount,
           eligible' \subseteq Everybody, queued \subseteq queued', queued' \subseteq Everybody,
           q.pc \in {"queueing", "failing"} => campaignReq[r].pc \in {"queueing", "failing"},
           q.pc = "queueing" =>
             /\ campaignReq[r].pc = "queueing"
             /\ queued \cup campaignReq[r].to \subseteq queued' \cup q.to
    PROVE  CampaignInv'
<1>1. /\ campaignReq' \in [Requests -> C!Request] /\ campaignReq'[r] = q
      /\ \A k \in Requests : k # r => campaignReq'[k] = campaignReq[k]
      /\ \A k \in Requests : campaignReq'[k].to \subseteq Everybody
  BY DEF CampaignInv, C!TypeOK, C!Request, Everybody
<1>2. C!TypeOK'
  BY <1>1 DEF CampaignInv, C!TypeOK, Everybody
<1>3. OneSends'
  BY <1>1 DEF CampaignInv, OneSends
<1>4. QueuedOrToBe'
  <2>1. ASSUME NEW k \in Requests, campaignReq'[k].pc = "queueing"
        PROVE  campaign'.recipientCount <= Cardinality(queued' \cup campaignReq'[k].to)
    <3>1. /\ queued \cup campaignReq[k].to \subseteq queued' \cup campaignReq'[k].to
          /\ campaignReq[k].pc = "queueing"
      BY <1>1, <2>1
    <3>2. queued' \cup campaignReq'[k].to \subseteq Everybody
      BY <1>1
    <3>3. campaign.recipientCount \in Nat
          /\ campaign.recipientCount <= Cardinality(queued \cup campaignReq[k].to)
      BY <3>1 DEF CampaignInv, QueuedOrToBe, C!TypeOK, C!Campaign
    <3> HIDE DEF Everybody
    <3>4. /\ Cardinality(queued \cup campaignReq[k].to)
               <= Cardinality(queued' \cup campaignReq'[k].to)
          /\ Cardinality(queued \cup campaignReq[k].to) \in Nat
          /\ Cardinality(queued' \cup campaignReq'[k].to) \in Nat
      BY <3>1, <3>2, CountPeople
    <3> QED
      BY <3>3, <3>4
  <2> QED
    BY <2>1 DEF QueuedOrToBe
<1>5. SentIsWhole'
  <2>1. /\ Cardinality(queued) <= Cardinality(queued')
        /\ Cardinality(queued) \in Nat /\ Cardinality(queued') \in Nat
    BY CountPeople
  <2> QED
    BY <2>1 DEF CampaignInv, SentIsWhole, C!TypeOK, C!Campaign
<1> QED
  BY <1>2, <1>3, <1>4, <1>5 DEF CampaignInv

\* Every step of a person and of an administrator keeps it.
LEMMA CampaignStep == CampaignInv /\ [C!Next]_campaigns => CampaignInv'
<1> SUFFICES ASSUME CampaignInv, [C!Next]_campaigns PROVE CampaignInv'
  OBVIOUS
<1>types. /\ campaignReq \in [Requests -> C!Request] /\ campaign \in C!Campaign
          /\ eligible \subseteq Everybody /\ queued \subseteq Everybody
          /\ \A r \in Requests : campaignReq[r].to \subseteq Everybody
  BY DEF CampaignInv, C!TypeOK, C!Request, Everybody
<1>0. CASE UNCHANGED campaigns
  BY <1>0 DEF campaigns, CampaignInv, C!TypeOK, OneSends, QueuedOrToBe, SentIsWhole
<1>1. ASSUME NEW p \in Everybody,
             (\E enabled \in BOOLEAN : C!ChangePreference(p, enabled)) \/ C!Subscribe(p)
             \/ C!Unsubscribe(p)
      PROVE  CampaignInv'
  <2>1. eligible' \subseteq Everybody /\ UNCHANGED <<campaign, queued, campaignReq>>
    BY <1>1, <1>types DEF C!ChangePreference, C!Subscribe, C!Unsubscribe
  <2> QED
    BY <2>1 DEF CampaignInv, C!TypeOK, OneSends, QueuedOrToBe, SentIsWhole, Everybody
\* Steps that leave the campaign and what is queued.
<1>moves. ASSUME NEW r \in Requests, NEW q \in C!Request,
                 campaignReq' = [campaignReq EXCEPT ![r] = q],
                 UNCHANGED <<campaign, eligible, queued>>, q.pc # "queueing",
                 q.pc = "failing" => campaignReq[r].pc = "queueing"
          PROVE  CampaignInv'
  BY <1>moves, <1>types, CampaignRequestMoves
<1>2. ASSUME NEW r \in Requests,
             (\E g \in Segments : C!BeginEdit(r, g)) \/ C!BeginSend(r) \/ C!FindRecipients(r)
             \/ C!Abort(r)
      PROVE  CampaignInv'
  <2> DEFINE edit(g) == [C!Idle EXCEPT !.pc = "edit", !.segment = g]
             read == [C!Idle EXCEPT !.pc = "read", !.segment = campaign.segment]
             to == campaignReq[r].segment \cap eligible
             found == [campaignReq[r] EXCEPT !.pc = "found", !.to = to]
  <2>1. campaign.segment \in Segments /\ campaignReq[r] \in C!Request
        /\ to \in SUBSET Everybody
    BY <1>types DEF C!Campaign
  <2>2. \A g \in Segments : edit(g) \in C!Request /\ edit(g).pc = "edit"
    BY CampaignIdle DEF C!Request
  <2>3. read \in C!Request /\ read.pc = "read"
    BY <2>1, CampaignIdle DEF C!Request
  <2> HIDE DEF to
  <2>4. found \in C!Request /\ found.pc = "found"
    BY <2>1 DEF C!Request, Everybody
  <2> HIDE DEF edit, read, found
  <2>5. /\ UNCHANGED <<campaign, eligible, queued>>
        /\ \/ \E g \in Segments : campaignReq' = [campaignReq EXCEPT ![r] = edit(g)]
           \/ campaignReq' = [campaignReq EXCEPT ![r] = read]
           \/ campaignReq' = [campaignReq EXCEPT ![r] = found]
           \/ campaignReq' = [campaignReq EXCEPT ![r] = C!Idle]
    BY <1>2 DEF C!BeginEdit, C!BeginSend, C!FindRecipients, C!Abort, C!Answer, C!Keep, edit, read,
       found, to
  <2> QED
    BY <1>moves, <2>2, <2>3, <2>4, <2>5, CampaignIdle
<1>3. ASSUME NEW r \in Requests, C!FinishEdit(r)
      PROVE  CampaignInv'
  <2>1. campaignReq[r].segment \in Segments
    BY <1>types DEF C!Request
  <2>2. /\ [campaign EXCEPT !.segment = campaignReq[r].segment] \in C!Campaign
        /\ [campaign EXCEPT !.segment = campaignReq[r].segment].status = campaign.status
        /\ [campaign EXCEPT !.segment = campaignReq[r].segment].recipientCount
             = campaign.recipientCount
    BY <1>types, <2>1 DEF C!Campaign
  <2>3. /\ campaign' = [campaign EXCEPT !.segment = campaignReq[r].segment]
        /\ campaignReq' = [campaignReq EXCEPT ![r] = C!Idle] /\ UNCHANGED <<eligible, queued>>
    BY <1>3 DEF C!FinishEdit, C!Answer, C!Keep
  <2> QED
    BY <1>types, <2>2, <2>3, CampaignIdle, CampaignRequestMoves
<1>4. ASSUME NEW r \in Requests, C!ClaimCampaign(r)
      PROVE  CampaignInv'
  <2> DEFINE q == [campaignReq[r] EXCEPT !.pc = "queueing"]
             c == [campaign EXCEPT !.status = "SENDING",
                                   !.recipientCount = Cardinality(campaignReq[r].to)]
  <2>1. /\ UNCHANGED <<eligible, queued>>
        /\ \/ /\ campaign.status = "DRAFT" /\ campaign' = c
              /\ campaignReq' = [campaignReq EXCEPT ![r] = q]
           \/ campaignReq' = [campaignReq EXCEPT ![r] = C!Idle] /\ UNCHANGED campaign
    BY <1>4, CampaignCardinality DEF C!ClaimCampaign, C!Claimable, C!Answer, C!Keep
  <2>2. CASE campaignReq' = [campaignReq EXCEPT ![r] = C!Idle] /\ UNCHANGED campaign
    BY <1>moves, <2>1, <2>2, CampaignIdle
  <2>3. CASE /\ campaign.status = "DRAFT" /\ campaign' = c
             /\ campaignReq' = [campaignReq EXCEPT ![r] = q]
    <3>1. campaignReq[r] \in C!Request
      BY <1>types
    <3>2. q \in C!Request /\ q.pc = "queueing" /\ q.to = campaignReq[r].to
      BY <3>1 DEF C!Request
    <3>3. /\ Cardinality(q.to) \in Nat
          /\ Cardinality(q.to) <= Cardinality(queued \cup q.to)
      <4> DEFINE A == queued \cup q.to
      <4>1. A \in SUBSET Everybody /\ q.to \in SUBSET A
        BY <1>types, <3>2
      <4> HIDE DEF A, q
      <4>2. /\ Cardinality(q.to) \in Nat
            /\ Cardinality(q.to) <= Cardinality(A)
        BY <4>1, CountPeople
      <4> QED
        BY <4>2 DEF A
    <3>4. c \in C!Campaign /\ c.status = "SENDING" /\ c.recipientCount = Cardinality(q.to)
      BY <1>types, <3>2, <3>3 DEF C!Campaign
    <3> HIDE DEF q, c
    <3>5. /\ campaignReq' \in [Requests -> C!Request] /\ campaignReq'[r] = q
          /\ \A k \in Requests : k # r => campaignReq'[k] = campaignReq[k]
      BY <1>types, <2>3, <3>2
    <3>6. \A k \in Requests : campaignReq[k].pc \notin {"queueing", "failing"}
      BY <2>3 DEF CampaignInv, OneSends
    <3>7. C!TypeOK'
      BY <2>1, <2>3, <3>4, <3>5 DEF CampaignInv, C!TypeOK
    <3>8. OneSends' /\ QueuedOrToBe' /\ SentIsWhole'
      BY <2>1, <2>3, <3>2, <3>3, <3>4, <3>5, <3>6 DEF OneSends, QueuedOrToBe, SentIsWhole
    <3> QED
      BY <3>7, <3>8 DEF CampaignInv
  <2> QED
    BY <2>1, <2>2, <2>3
<1>5. ASSUME NEW r \in Requests, NEW p \in Everybody, C!QueueOne(r, p)
      PROVE  CampaignInv'
  <2> DEFINE q == [campaignReq[r] EXCEPT !.to = campaignReq[r].to \ {p}]
  <2>1. campaignReq[r] \in C!Request /\ campaignReq[r].to \subseteq Everybody
    BY <1>types
  <2>2. q \in C!Request /\ q.pc = campaignReq[r].pc /\ q.to = campaignReq[r].to \ {p}
    BY <2>1 DEF C!Request, Everybody
  <2>3. /\ queued' = queued \cup {p} /\ UNCHANGED <<campaign, eligible>>
        /\ \/ campaignReq' = [campaignReq EXCEPT ![r] = C!Idle]
           \/ campaignReq' = [campaignReq EXCEPT ![r] = q]
    BY <1>5 DEF C!QueueOne, C!Keep
  <2> HIDE DEF q
  <2>4. queued \subseteq queued' /\ queued' \subseteq Everybody
        /\ queued \cup campaignReq[r].to \subseteq queued' \cup q.to
    BY <1>types, <2>2, <2>3
  <2> QED
    BY <1>types, <2>2, <2>3, <2>4, CampaignIdle, CampaignRequestMoves
<1>6. ASSUME NEW r \in Requests, NEW p \in Everybody, C!QueueFails(r, p)
      PROVE  CampaignInv'
  <2> DEFINE q == [campaignReq[r] EXCEPT !.pc = "failing", !.to = campaignReq[r].to \ {p}]
  <2>1. campaignReq[r] \in C!Request /\ campaignReq[r].to \subseteq Everybody
    BY <1>types
  <2>2. q \in C!Request /\ q.pc = "failing"
    BY <2>1 DEF C!Request, Everybody
  <2>3. /\ campaignReq[r].pc = "queueing" /\ UNCHANGED <<campaign, eligible, queued>>
        /\ campaignReq' = [campaignReq EXCEPT ![r] = q]
    BY <1>6 DEF C!QueueFails, C!Keep
  <2> HIDE DEF q
  <2> QED
    BY <1>moves, <2>2, <2>3
\* The request that sends ends, and the campaign has a new status.
<1>ends. ASSUME NEW r \in Requests, NEW q \in C!Request, NEW status \in {"DRAFT", "SENT"},
                campaignReq[r].pc \in {"queueing", "failing"},
                campaignReq' = [campaignReq EXCEPT ![r] = q],
                q.pc \notin {"queueing", "failing"},
                campaign' = [campaign EXCEPT !.status = status],
                status = "SENT" => campaign.recipientCount <= Cardinality(queued),
                UNCHANGED <<eligible, queued>>
         PROVE  CampaignInv'
  <2>1. /\ campaign' \in C!Campaign /\ campaign'.status = status
        /\ campaign'.recipientCount = campaign.recipientCount
    BY <1>ends, <1>types DEF C!Campaign
  <2>2. /\ campaignReq' \in [Requests -> C!Request] /\ campaignReq'[r] = q
        /\ \A k \in Requests : k # r => campaignReq'[k] = campaignReq[k]
    BY <1>types, <1>ends
  <2>3. \A k \in Requests : campaignReq'[k].pc \notin {"queueing", "failing"}
    BY <1>ends, <2>2 DEF CampaignInv, OneSends
  <2>4. C!TypeOK'
    BY <1>ends, <2>1, <2>2 DEF CampaignInv, C!TypeOK
  <2> QED
    BY <1>ends, <2>1, <2>3, <2>4 DEF CampaignInv, OneSends, QueuedOrToBe, SentIsWhole
<1>7. ASSUME NEW r \in Requests, NEW written \in BOOLEAN, C!Reopen(r, written)
      PROVE  CampaignInv'
  <2> DEFINE late == [campaignReq[r] EXCEPT !.pc = "late"]
  <2>1. campaignReq[r] \in C!Request
    BY <1>types
  <2>2. late \in C!Request /\ late.pc = "late"
    BY <2>1 DEF C!Request
  <2>3. PICK q \in {C!Idle, late} : campaignReq' = [campaignReq EXCEPT ![r] = q]
    BY <1>7 DEF C!Reopen, C!Keep
  <2>4. q \in C!Request /\ q.pc \notin {"queueing", "failing"}
    BY <2>2, <2>3, CampaignIdle
  <2>5. /\ campaignReq[r].pc = "failing" /\ UNCHANGED <<eligible, queued>>
        /\ campaign' = campaign \/ campaign' = [campaign EXCEPT !.status = "DRAFT"]
    BY <1>7 DEF C!Reopen
  <2> QED
    BY <1>moves, <1>ends, <2>3, <2>4, <2>5
<1>8. ASSUME NEW r \in Requests, C!FinishSend(r)
      PROVE  CampaignInv'
  <2>1. /\ campaignReq[r].pc = "queueing" /\ campaignReq[r].to = {}
        /\ campaign' = [campaign EXCEPT !.status = "SENT"]
        /\ campaignReq' = [campaignReq EXCEPT ![r] = C!Idle] /\ UNCHANGED <<eligible, queued>>
    BY <1>8 DEF C!FinishSend, C!Answer, C!Keep
  <2>2. queued \cup campaignReq[r].to = queued
    BY <2>1
  <2>3. campaign.recipientCount <= Cardinality(queued)
    BY <2>1, <2>2 DEF CampaignInv, QueuedOrToBe
  <2> QED
    BY <1>ends, <2>1, <2>3, CampaignIdle
<1>9. CASE C!Next
  <2>1. ASSUME NEW r \in Requests, C!RequestStep(r) PROVE CampaignInv'
    BY <1>2, <1>3, <1>4, <1>5, <1>6, <1>7, <1>8, <2>1 DEF C!RequestStep, Everybody
  <2> QED
    BY <1>1, <1>9, <2>1 DEF C!Next, Everybody
<1> QED
  BY <1>0, <1>9 DEF campaigns

\* One request at a time sends the campaign, and what it has queued and what it has still to
\* queue are as many as the campaign reports (sendCommunicationCampaign).
THEOREM CampaignInvHolds == C!Spec => []CampaignInv
<1>1. [C!Next]_C!campaignVars => [C!Next]_campaigns
  BY DEF C!campaignVars, campaigns
<1> QED
  BY <1>1, CampaignInit, CampaignStep, PTL DEF C!Spec

\* For every set of people and every number of administrators, a campaign that counts as sent
\* has a delivery for each recipient it reports (sendCommunicationCampaign).
THEOREM CampaignIsWholeHolds == C!Spec => []CampaignIsWhole
<1>1. CampaignInv => CampaignIsWhole
  <2> SUFFICES ASSUME CampaignInv, campaign.status = "SENT"
               PROVE  Cardinality(queued) >= campaign.recipientCount
    BY CampaignCardinality DEF CampaignIsWhole, C!CampaignIsWhole
  <2>1. queued \in SUBSET Everybody /\ campaign.recipientCount \in Nat
    BY DEF CampaignInv, C!TypeOK, C!Campaign, Everybody
  <2>2. Cardinality(queued) \in Nat
    BY <2>1, CountPeople
  <2> QED
    BY <2>1, <2>2 DEF CampaignInv, SentIsWhole
<1> QED
  BY <1>1, CampaignInvHolds, PTL

-----------------------------------------------------------------------------
(* Delivery of mail *)

Working(b) == batch[b].pc \in {"claimed", "sending", "accepted", "refused"}

\* A delivery that is not doubtful is worked on by one batch, and is PROCESSING meanwhile.
WorkedOnByOne ==
    \A b \in Requests : Working(b) /\ batch[b].x \notin doubtful =>
      /\ delivery[batch[b].x] = "PROCESSING"
      /\ \A k \in Requests : Working(k) /\ batch[k].x = batch[b].x => k = b

\* A batch that has listed a PROCESSING delivery takes it over.
ListedAsDue ==
    \A b \in Requests : batch[b].pc = "listed" =>
      /\ batch[b].saw \in {"PENDING", "FAILED", "PROCESSING"}
      /\ batch[b].saw = "PROCESSING" => batch[b].x \in doubtful

\* What has not been handed over, or was refused, has not been mailed.
NotYetMailed ==
    /\ \A b \in Requests : batch[b].pc \in {"claimed", "sending", "refused"} =>
         batch[b].x \in doubtful \/ mailed[batch[b].x] = 0
    /\ \A x \in D!Mails : delivery[x] \in {"none", "PENDING", "FAILED", "SUPPRESSED"} =>
         x \in doubtful \/ mailed[x] = 0

DeliveryInv == D!TypeOK /\ WorkedOnByOne /\ ListedAsDue /\ NotYetMailed /\ D!SentOnce

\* A batch that is idle works on no delivery.
LEMMA BatchIdle == D!Idle \in D!Batch /\ D!Idle.pc = "idle"
<1>1. (CHOOSE x \in D!Mails : TRUE) \in D!Mails
  BY ScenesAssumption DEF D!Mails
<1> QED
  BY <1>1 DEF D!Idle, D!Batch, D!Statuses

\* It holds initially.
LEMMA DeliveryInit == D!Init => DeliveryInv
<1> SUFFICES ASSUME D!Init PROVE DeliveryInv
  OBVIOUS
<1>1. D!TypeOK
  BY BatchIdle DEF D!Init, D!TypeOK, D!Statuses
<1> QED
  BY <1>1, BatchIdle
     DEF D!Init, DeliveryInv, WorkedOnByOne, Working, ListedAsDue, NotYetMailed, D!SentOnce

\* A step that queues a mail: a delivery that was none is PENDING.
LEMMA DeliveryQueued ==
    ASSUME DeliveryInv, NEW x \in D!Mails, D!Queued(x) \/ UNCHANGED delivery,
           willing' \subseteq Letters, bridge' \subseteq Notes,
           note' \in [Notes -> {"none", "uncommitted", "committed", "undone"}],
           UNCHANGED <<mailed, doubtful, batch>>
    PROVE  DeliveryInv'
<1>1. /\ delivery' \in [D!Mails -> D!Statuses]
      /\ \A y \in D!Mails : \/ delivery'[y] = delivery[y]
                            \/ delivery[y] = "none" /\ delivery'[y] = "PENDING"
  BY DEF DeliveryInv, D!TypeOK, D!Queued, D!Statuses
<1>2. D!TypeOK'
  BY <1>1 DEF DeliveryInv, D!TypeOK
<1>3. \A b \in Requests : batch[b].x \in D!Mails
  BY DEF DeliveryInv, D!TypeOK, D!Batch
<1>4. WorkedOnByOne'
  BY <1>1, <1>3 DEF DeliveryInv, WorkedOnByOne, Working
<1>5. NotYetMailed'
  BY <1>1, <1>3 DEF DeliveryInv, NotYetMailed
<1>6. ListedAsDue' /\ D!SentOnce'
  BY DEF DeliveryInv, ListedAsDue, D!SentOnce
<1> QED
  BY <1>2, <1>4, <1>5, <1>6 DEF DeliveryInv

\* A step of a batch that is idle afterwards and writes what it saw at the end, if anything.
LEMMA BatchEnds ==
    ASSUME DeliveryInv, NEW b \in Requests, batch' = [batch EXCEPT ![b] = D!Idle],
           UNCHANGED <<willing, note, bridge, mailed, doubtful>>,
           \/ UNCHANGED delivery
           \/ \E status \in D!Statuses :
                /\ D!Written(batch[b].x, status) /\ Working(b)
                /\ status # "SENT" => batch[b].pc \in {"claimed", "sending", "refused"}
    PROVE  DeliveryInv'
<1>0. /\ batch' \in [Requests -> D!Batch] /\ batch'[b] = D!Idle
      /\ \A k \in Requests : k # b => batch'[k] = batch[k]
      /\ \A k \in Requests : batch[k].x \in D!Mails
  BY BatchIdle DEF DeliveryInv, D!TypeOK, D!Batch
<1>1. /\ delivery' \in [D!Mails -> D!Statuses]
      /\ \A y \in D!Mails : \/ delivery'[y] = delivery[y]
                            \/ /\ y = batch[b].x /\ Working(b)
                               /\ \/ delivery'[y] = "SENT"
                                  \/ batch[b].pc \in {"claimed", "sending", "refused"}
  BY <1>0 DEF DeliveryInv, D!TypeOK, D!Written
<1>2. D!TypeOK'
  BY <1>0, <1>1 DEF DeliveryInv, D!TypeOK
<1>3. WorkedOnByOne'
  <2>1. ASSUME NEW k \in Requests, Working(k)', batch'[k].x \notin doubtful'
        PROVE  /\ delivery'[batch'[k].x] = "PROCESSING"
               /\ \A j \in Requests : Working(j)' /\ batch'[j].x = batch'[k].x => j = k
    <3>1. k # b /\ batch'[k] = batch[k] /\ Working(k) /\ batch[k].x \notin doubtful
      BY <1>0, <2>1, BatchIdle DEF Working
    <3>2. /\ delivery[batch[k].x] = "PROCESSING"
          /\ \A j \in Requests : Working(j) /\ batch[j].x = batch[k].x => j = k
      BY <3>1 DEF DeliveryInv, WorkedOnByOne
    <3>3. ASSUME NEW j \in Requests, Working(j)' PROVE Working(j) /\ batch'[j] = batch[j]
      BY <1>0, <3>3, BatchIdle DEF Working
    <3> QED
      BY <1>0, <1>1, <3>1, <3>2, <3>3
  <2> QED
    BY <2>1 DEF WorkedOnByOne
<1>4. NotYetMailed'
  BY <1>0, <1>1, BatchIdle DEF DeliveryInv, NotYetMailed
<1>5. ListedAsDue' /\ D!SentOnce'
  BY <1>0, BatchIdle DEF DeliveryInv, ListedAsDue, D!SentOnce
<1> QED
  BY <1>2, <1>3, <1>4, <1>5 DEF DeliveryInv

\* Every step of a recipient, a notification and a batch keeps it.
LEMMA DeliveryStep == DeliveryInv /\ [D!Next]_deliveries => DeliveryInv'
<1> SUFFICES ASSUME DeliveryInv, [D!Next]_deliveries PROVE DeliveryInv'
  OBVIOUS
<1>types. /\ batch \in [Requests -> D!Batch] /\ delivery \in [D!Mails -> D!Statuses]
          /\ mailed \in [D!Mails -> Nat] /\ doubtful \subseteq D!Mails
          /\ \A b \in Requests : batch[b].x \in D!Mails
  BY DEF DeliveryInv, D!TypeOK, D!Batch
<1>0. CASE UNCHANGED deliveries
  BY <1>0 DEF deliveries, DeliveryInv, D!TypeOK, WorkedOnByOne, Working, ListedAsDue,
     NotYetMailed, D!SentOnce
<1>1. ASSUME NEW x \in Letters, D!QueueLetter(x) \/ D!OptOut(x)
      PROVE  DeliveryInv'
  <2>1. x \in D!Mails
    BY DEF D!Mails
  <2>2. willing' \subseteq Letters
    BY <1>1 DEF D!QueueLetter, D!OptOut, DeliveryInv, D!TypeOK
  <2> QED
    BY <1>1, <2>1, <2>2, DeliveryQueued DEF D!QueueLetter, D!OptOut, DeliveryInv, D!TypeOK
<1>2. ASSUME NEW n \in Notes,
             \/ \E inTransaction \in BOOLEAN : D!Notify(n, inTransaction)
             \/ \E outcome \in {"committed", "undone"} : D!EndTransaction(n, outcome)
             \/ D!QueueNote(n)
      PROVE  DeliveryInv'
  <2>1. n \in D!Mails
    BY DEF D!Mails
  <2>2. /\ note' \in [Notes -> {"none", "uncommitted", "committed", "undone"}]
        /\ bridge' \subseteq Notes /\ willing' \subseteq Letters
        /\ D!Queued(n) \/ UNCHANGED delivery
        /\ UNCHANGED <<mailed, doubtful, batch>>
    BY <1>2 DEF D!Notify, D!EndTransaction, D!QueueNote, DeliveryInv, D!TypeOK
  <2> QED
    BY <2>1, <2>2, DeliveryQueued
<1>3. ASSUME NEW b \in Requests, NEW x \in D!Mails, D!List(b, x)
      PROVE  DeliveryInv'
  <2> DEFINE q == [pc |-> "listed", x |-> x, saw |-> delivery[x]]
  <2>1. q \in D!Batch /\ q.pc = "listed" /\ q.x = x /\ q.saw = delivery[x]
    BY <1>types DEF D!Batch
  <2>2. /\ batch' = [batch EXCEPT ![b] = q] /\ UNCHANGED <<willing, note, bridge, delivery, mailed>>
        /\ delivery[x] \in {"PENDING", "FAILED", "PROCESSING"}
        /\ doubtful' = IF delivery[x] = "PROCESSING" THEN doubtful \cup {x} ELSE doubtful
    BY <1>3 DEF D!List, D!Keep
  <2> HIDE DEF q
  <2>3. /\ batch' \in [Requests -> D!Batch] /\ batch'[b] = q
        /\ \A k \in Requests : k # b => batch'[k] = batch[k]
    BY <1>types, <2>1, <2>2
  <2>4. doubtful \subseteq doubtful' /\ doubtful' \subseteq D!Mails
        /\ (delivery[x] = "PROCESSING" => x \in doubtful')
    BY <1>types, <2>2
  <2>5. D!TypeOK'
    BY <2>2, <2>3, <2>4 DEF DeliveryInv, D!TypeOK
  <2>6. WorkedOnByOne'
    BY <2>1, <2>2, <2>3, <2>4 DEF DeliveryInv, WorkedOnByOne, Working
  <2>7. ListedAsDue'
    BY <2>1, <2>2, <2>3, <2>4 DEF DeliveryInv, ListedAsDue
  <2>8. NotYetMailed' /\ D!SentOnce'
    BY <2>1, <2>2, <2>3, <2>4 DEF DeliveryInv, NotYetMailed, D!SentOnce
  <2> QED
    BY <2>5, <2>6, <2>7, <2>8 DEF DeliveryInv
\* A claim, a repeated check and a handover keep the delivery of the batch PROCESSING.
<1>goes. ASSUME NEW b \in Requests, NEW pc \in {"claimed", "sending", "accepted", "refused"},
                batch' = [batch EXCEPT ![b] = [batch[b] EXCEPT !.pc = pc]],
                delivery' = delivery \/ D!Written(batch[b].x, "PROCESSING"),
                UNCHANGED <<willing, note, bridge>>,
                mailed' \in [D!Mails -> Nat], doubtful \subseteq doubtful',
                doubtful' \subseteq D!Mails,
                \A y \in D!Mails : y # batch[b].x => mailed'[y] = mailed[y],
                batch[b].x \in doubtful' \/
                  /\ delivery'[batch[b].x] = "PROCESSING"
                  /\ \A k \in Requests : Working(k) /\ batch[k].x = batch[b].x => k = b
                  /\ mailed'[batch[b].x] <= 1
                  /\ pc # "accepted" => mailed'[batch[b].x] = 0
         PROVE  DeliveryInv'
  <2> DEFINE q == [batch[b] EXCEPT !.pc = pc]
             x == batch[b].x
  <2>1. q \in D!Batch /\ q.pc = pc /\ q.x = x
    BY <1>types DEF D!Batch
  <2> HIDE DEF q
  <2>2. /\ batch' \in [Requests -> D!Batch] /\ batch'[b] = q
        /\ \A k \in Requests : k # b => batch'[k] = batch[k]
    BY <1>types, <1>goes, <2>1 DEF q
  <2>3. /\ delivery' \in [D!Mails -> D!Statuses]
        /\ \A y \in D!Mails : y # x => delivery'[y] = delivery[y]
        /\ delivery'[x] = delivery[x] \/ delivery'[x] = "PROCESSING"
    BY <1>types, <1>goes DEF D!Written, D!Statuses
  <2>4. D!TypeOK'
    BY <1>goes, <2>2, <2>3 DEF DeliveryInv, D!TypeOK
  <2>5. WorkedOnByOne'
    <3>1. ASSUME NEW k \in Requests, Working(k)', batch'[k].x \notin doubtful'
          PROVE  /\ delivery'[batch'[k].x] = "PROCESSING"
                 /\ \A j \in Requests : Working(j)' /\ batch'[j].x = batch'[k].x => j = k
      <4>1. \A j \in Requests : j # b /\ Working(j)' => Working(j) /\ batch'[j] = batch[j]
        BY <2>2 DEF Working
      <4>2. CASE k = b
        BY <1>goes, <2>1, <2>2, <3>1, <4>1, <4>2
      <4>3. CASE k # b
        <5>1. Working(k) /\ batch'[k] = batch[k] /\ batch[k].x \notin doubtful
          BY <1>goes, <3>1, <4>1, <4>3
        <5>2. /\ delivery[batch[k].x] = "PROCESSING"
              /\ \A j \in Requests : Working(j) /\ batch[j].x = batch[k].x => j = k
          BY <5>1 DEF DeliveryInv, WorkedOnByOne
        <5>3. batch[k].x # x
          BY <1>goes, <3>1, <4>3, <5>1
        <5> QED
          BY <1>types, <2>1, <2>2, <2>3, <4>1, <5>1, <5>2, <5>3
      <4> QED
        BY <4>2, <4>3
    <3> QED
      BY <3>1 DEF WorkedOnByOne
  <2>6. ListedAsDue'
    BY <1>goes, <2>1, <2>2 DEF DeliveryInv, ListedAsDue
  <2>7. NotYetMailed'
    <3>1. ASSUME NEW k \in Requests, batch'[k].pc \in {"claimed", "sending", "refused"}
          PROVE  batch'[k].x \in doubtful' \/ mailed'[batch'[k].x] = 0
      <4>1. CASE k = b
        BY <1>goes, <2>1, <2>2, <3>1, <4>1
      <4>2. CASE k # b
        BY <1>goes, <1>types, <2>2, <3>1, <4>2 DEF DeliveryInv, NotYetMailed, Working
      <4> QED
        BY <4>1, <4>2
    <3>2. ASSUME NEW y \in D!Mails, delivery'[y] \in {"none", "PENDING", "FAILED", "SUPPRESSED"}
          PROVE  y \in doubtful' \/ mailed'[y] = 0
      BY <1>goes, <2>3, <3>2 DEF DeliveryInv, NotYetMailed
    <3> QED
      BY <3>1, <3>2 DEF NotYetMailed
  <2>8. D!SentOnce'
    <3>1. ASSUME NEW y \in D!Mails, mailed'[y] > 1 PROVE y \in doubtful'
      <4>1. mailed[y] \in Nat /\ mailed'[y] \in Nat /\ (mailed[y] > 1 => y \in doubtful)
        BY <1>types, <1>goes DEF DeliveryInv, D!SentOnce
      <4> QED
        BY <1>goes, <3>1, <4>1
    <3> QED
      BY <3>1 DEF D!SentOnce
  <2> QED
    BY <2>4, <2>5, <2>6, <2>7, <2>8 DEF DeliveryInv
<1>4. ASSUME NEW b \in Requests, D!Claim(b)
      PROVE  DeliveryInv'
  <2> DEFINE x == batch[b].x
  <2>1. /\ batch[b].pc = "listed" /\ UNCHANGED <<willing, note, bridge, mailed, doubtful>>
        /\ \/ /\ delivery[x] = batch[b].saw /\ D!Written(x, "PROCESSING")
              /\ batch' = [batch EXCEPT ![b] = [batch[b] EXCEPT !.pc = "claimed"]]
           \/ UNCHANGED delivery /\ batch' = [batch EXCEPT ![b] = D!Idle]
    BY <1>4 DEF D!Claim, D!StillAs, D!Keep
  <2>2. CASE UNCHANGED delivery /\ batch' = [batch EXCEPT ![b] = D!Idle]
    BY <2>1, <2>2, BatchEnds
  <2>3. CASE /\ delivery[x] = batch[b].saw /\ D!Written(x, "PROCESSING")
             /\ batch' = [batch EXCEPT ![b] = [batch[b] EXCEPT !.pc = "claimed"]]
    <3>1. ASSUME x \notin doubtful
          PROVE  /\ delivery'[x] = "PROCESSING"
                 /\ \A k \in Requests : Working(k) /\ batch[k].x = x => k = b
                 /\ mailed'[x] = 0
      <4>1. delivery[x] \in {"PENDING", "FAILED"}
        BY <2>1, <2>3, <3>1 DEF DeliveryInv, ListedAsDue
      <4>2. \A k \in Requests : ~(Working(k) /\ batch[k].x = x)
        BY <3>1, <4>1 DEF DeliveryInv, WorkedOnByOne
      <4> QED
        BY <1>types, <2>1, <2>3, <3>1, <4>1, <4>2 DEF D!Written, DeliveryInv, NotYetMailed
    <3>2. /\ mailed' \in [D!Mails -> Nat] /\ doubtful \subseteq doubtful'
          /\ doubtful' \subseteq D!Mails /\ \A y \in D!Mails : mailed'[y] = mailed[y]
      BY <1>types, <2>1
    <3>3. x \in doubtful' \/
            /\ delivery'[x] = "PROCESSING"
            /\ \A k \in Requests : Working(k) /\ batch[k].x = x => k = b
            /\ mailed'[x] <= 1
            /\ mailed'[x] = 0
      BY <2>1, <3>1
    <3> QED
      BY <1>goes, <2>1, <2>3, <3>2, <3>3
  <2> QED
    BY <2>1, <2>2, <2>3
<1>5. ASSUME NEW b \in Requests, D!Prepare(b)
      PROVE  DeliveryInv'
  <2> DEFINE x == batch[b].x
  <2>1. /\ batch[b].pc = "claimed" /\ UNCHANGED <<willing, note, bridge, mailed, doubtful>>
        /\ \/ /\ D!Written(x, "PROCESSING")
              /\ batch' = [batch EXCEPT ![b] = [batch[b] EXCEPT !.pc = "sending"]]
           \/ D!Written(x, "SUPPRESSED") /\ batch' = [batch EXCEPT ![b] = D!Idle]
    BY <1>5 DEF D!Prepare, D!Keep
  <2>2. CASE D!Written(x, "SUPPRESSED") /\ batch' = [batch EXCEPT ![b] = D!Idle]
    <3>1. "SUPPRESSED" \in D!Statuses /\ Working(b)
      BY <2>1 DEF D!Statuses, Working
    <3> QED
      BY <2>1, <2>2, <3>1, BatchEnds
  <2>3. CASE /\ D!Written(x, "PROCESSING")
             /\ batch' = [batch EXCEPT ![b] = [batch[b] EXCEPT !.pc = "sending"]]
    <3>1. ASSUME x \notin doubtful
          PROVE  /\ delivery'[x] = "PROCESSING"
                 /\ \A k \in Requests : Working(k) /\ batch[k].x = x => k = b
                 /\ mailed'[x] = 0
      BY <1>types, <2>1, <2>3, <3>1
         DEF D!Written, Working, DeliveryInv, WorkedOnByOne, NotYetMailed
    <3>2. /\ mailed' \in [D!Mails -> Nat] /\ doubtful \subseteq doubtful'
          /\ doubtful' \subseteq D!Mails /\ \A y \in D!Mails : mailed'[y] = mailed[y]
      BY <1>types, <2>1
    <3>3. x \in doubtful' \/
            /\ delivery'[x] = "PROCESSING"
            /\ \A k \in Requests : Working(k) /\ batch[k].x = x => k = b
            /\ mailed'[x] <= 1
            /\ mailed'[x] = 0
      BY <2>1, <3>1
    <3> QED
      BY <1>goes, <2>1, <2>3, <3>2, <3>3
  <2> QED
    BY <2>1, <2>2, <2>3
<1>6. ASSUME NEW b \in Requests, NEW accepted \in BOOLEAN, NEW t \in BOOLEAN,
             D!Send(b, accepted, t)
      PROVE  DeliveryInv'
  <2> DEFINE x == batch[b].x
             pc == IF t THEN "accepted" ELSE "refused"
  <2>1. /\ batch[b].pc = "sending" /\ UNCHANGED <<willing, note, bridge, delivery>>
        /\ t => accepted
        /\ mailed' = IF accepted THEN [mailed EXCEPT ![x] = @ + 1] ELSE mailed
        /\ doubtful' = IF accepted /\ ~t THEN doubtful \cup {x} ELSE doubtful
        /\ batch' = [batch EXCEPT ![b] = [batch[b] EXCEPT !.pc = pc]]
    BY <1>6 DEF D!Send, D!Keep
  <2>2. pc \in {"accepted", "refused"} /\ (pc # "accepted" => ~t)
    OBVIOUS
  <2> HIDE DEF pc
  <2>3. mailed[x] \in Nat /\ mailed[x] + 1 \in Nat
    BY <1>types
  <2>4. mailed' \in [D!Mails -> Nat] /\ \A y \in D!Mails : y # x => mailed'[y] = mailed[y]
    BY <1>types, <2>1, <2>3
  <2>5. doubtful \subseteq doubtful' /\ doubtful' \subseteq D!Mails
    BY <1>types, <2>1
  <2>6. ASSUME x \notin doubtful'
        PROVE  /\ delivery'[x] = "PROCESSING"
               /\ \A k \in Requests : Working(k) /\ batch[k].x = x => k = b
               /\ mailed'[x] <= 1
               /\ pc # "accepted" => mailed'[x] = 0
    <3>1. x \notin doubtful /\ mailed[x] = 0
      BY <2>1, <2>5, <2>6 DEF DeliveryInv, NotYetMailed
    <3>2. /\ delivery[x] = "PROCESSING"
          /\ \A k \in Requests : Working(k) /\ batch[k].x = x => k = b
      BY <2>1, <3>1 DEF Working, DeliveryInv, WorkedOnByOne
    <3>3. accepted => t
      BY <2>1, <2>6
    <3>4. mailed'[x] = IF accepted THEN 1 ELSE 0
      BY <1>types, <2>1, <3>1
    <3> QED
      BY <2>1, <2>2, <3>2, <3>3, <3>4
  <2> QED
    BY <1>goes, <2>1, <2>2, <2>4, <2>5, <2>6
<1>7. ASSUME NEW b \in Requests, D!Record(b)
      PROVE  DeliveryInv'
  <2>1. PICK status \in {"SENT", "FAILED"} :
          /\ D!Written(batch[b].x, status) /\ batch[b].pc \in {"accepted", "refused"}
          /\ status # "SENT" => batch[b].pc = "refused"
          /\ batch' = [batch EXCEPT ![b] = D!Idle]
          /\ UNCHANGED <<willing, note, bridge, mailed, doubtful>>
    BY <1>7 DEF D!Record, D!Keep
  <2>2. status \in D!Statuses /\ Working(b)
    BY <2>1 DEF D!Statuses, Working
  <2> QED
    BY <2>1, <2>2, BatchEnds
<1>8. ASSUME NEW b \in Requests, D!Abort(b)
      PROVE  DeliveryInv'
  BY <1>8, BatchEnds DEF D!Abort, D!Keep
<1>9. CASE D!Next
  <2>1. ASSUME NEW b \in Requests, D!BatchStep(b) PROVE DeliveryInv'
    BY <1>3, <1>4, <1>5, <1>6, <1>7, <1>8, <2>1 DEF D!BatchStep
  <2> QED
    BY <1>1, <1>2, <1>9, <2>1 DEF D!Next
<1> QED
  BY <1>0, <1>9 DEF deliveries

\* A delivery that was neither taken over nor left without an answer is worked on by one
\* batch, and what has not been handed over has not been mailed (processPendingEmails).
THEOREM DeliveryInvHolds == D!Spec => []DeliveryInv
<1>1. [D!Next]_D!deliveryVars => [D!Next]_deliveries
  BY DEF D!deliveryVars, deliveries
<1> QED
  BY <1>1, DeliveryInit, DeliveryStep, PTL DEF D!Spec

\* For every number of batches and deliveries, a mail is sent once, unless it was taken over
\* or an answer was lost (processPendingEmails).
THEOREM SentOnceHolds == D!Spec => []SentOnce
<1>1. DeliveryInv => SentOnce
  BY DEF DeliveryInv, SentOnce
<1> QED
  BY <1>1, DeliveryInvHolds, PTL

-----------------------------------------------------------------------------
(* Conversations *)

\* A request that has a conversation to open or a message to store.
TalksInApplication ==
    \A r \in Requests :
      /\ talkReq[r].pc \in {"open", "reopen", "send", "inserted", "resend"} =>
           talkReq[r].in \in Applications
      /\ talkReq[r].pc = "inserted" => talkReq[r].at \in 1..MaxClock

\* A message that is inserted and not committed has a key that none has.
InsertedIsNew ==
    \A r \in Requests : talkReq[r].pc = "inserted" =>
      /\ \A m \in message : ~(m.sender = talkReq[r].side /\ m.key = talkReq[r].key)
      /\ \A k \in Requests :
           talkReq[k].pc = "inserted" /\ talkReq[k].side = talkReq[r].side
             /\ talkReq[k].key = talkReq[r].key => k = r

KeysAreUnique ==
    \A m, n \in message : m.sender = n.sender /\ m.key = n.key => m = n

ToldIsStored ==
    \A t \in told : \E m \in message : m.sender = t.sender /\ m.key = t.key /\ m.at = t.at

OneConversation == \A a \in Applications : conversation[a] <= 1

TalkInv ==
    /\ T!TypeOK /\ TalksInApplication /\ InsertedIsNew
    /\ KeysAreUnique /\ ToldIsStored /\ OneConversation

\* A request that is idle has no conversation.
LEMMA TalkIdle == T!Idle \in T!Request /\ T!Idle.pc = "idle"
<1>1. (CHOOSE k \in Keys : TRUE) \in Keys /\ 0 \in 0..MaxClock
  BY ScenesAssumption
<1> QED
  BY <1>1 DEF T!Idle, T!Request, T!Sides

\* It holds initially.
LEMMA TalkInit == T!Init => TalkInv
<1> SUFFICES ASSUME T!Init PROVE TalkInv
  OBVIOUS
<1>1. T!TypeOK
  BY TalkIdle, ScenesAssumption DEF T!Init, T!TypeOK
<1> QED
  BY <1>1, TalkIdle DEF T!Init, TalkInv, TalksInApplication, InsertedIsNew, KeysAreUnique,
     ToldIsStored, OneConversation

\* A step of a request that stores no message and does not insert one; an answer names a
\* stored message.
LEMMA TalkRequestMoves ==
    ASSUME TalkInv, NEW r \in Requests, NEW q \in T!Request,
           talkReq' = [talkReq EXCEPT ![r] = q], q.pc # "inserted",
           q.pc \in {"open", "reopen", "send", "resend"} => q.in \in Applications,
           UNCHANGED <<lastMessageAt, message, clock>>,
           conversation' \in [Applications -> Nat], OneConversation',
           told' = told \/ \E m \in message :
             told' = told \cup {[sender |-> m.sender, key |-> m.key, at |-> m.at]}
    PROVE  TalkInv'
<1>1. /\ talkReq' \in [Requests -> T!Request] /\ talkReq'[r] = q
      /\ \A k \in Requests : k # r => talkReq'[k] = talkReq[k]
  BY DEF TalkInv, T!TypeOK
<1>2. /\ told' \subseteq [sender : T!Sides, key : Keys, at : 1..MaxClock]
      /\ ToldIsStored'
  <2>1. CASE told' = told
    BY <2>1 DEF TalkInv, T!TypeOK, ToldIsStored
  <2>2. ASSUME NEW m \in message,
               told' = told \cup {[sender |-> m.sender, key |-> m.key, at |-> m.at]}
        PROVE  /\ told' \subseteq [sender : T!Sides, key : Keys, at : 1..MaxClock]
               /\ ToldIsStored'
    <3>1. m.sender \in T!Sides /\ m.key \in Keys /\ m.at \in 1..MaxClock
      BY DEF TalkInv, T!TypeOK, T!Message
    <3> QED
      BY <2>2, <3>1 DEF TalkInv, T!TypeOK, ToldIsStored
  <2> QED
    BY <2>1, <2>2
<1>3. T!TypeOK'
  BY <1>1, <1>2 DEF TalkInv, T!TypeOK
<1>4. TalksInApplication' /\ InsertedIsNew' /\ KeysAreUnique'
  BY <1>1 DEF TalkInv, TalksInApplication, InsertedIsNew, KeysAreUnique
<1> QED
  BY <1>2, <1>3, <1>4 DEF TalkInv

\* Every step of the two sides keeps it.
LEMMA TalkStep == TalkInv /\ [T!Next]_talks => TalkInv'
<1> SUFFICES ASSUME TalkInv, [T!Next]_talks PROVE TalkInv'
  OBVIOUS
<1>types. /\ talkReq \in [Requests -> T!Request] /\ message \subseteq T!Message
          /\ conversation \in [Applications -> Nat] /\ clock \in 0..MaxClock
          /\ lastMessageAt \in [Applications -> 0..MaxClock]
          /\ told \subseteq [sender : T!Sides, key : Keys, at : 1..MaxClock]
  BY DEF TalkInv, T!TypeOK
<1>0. CASE UNCHANGED talks
  BY <1>0 DEF talks, TalkInv, T!TypeOK, TalksInApplication, InsertedIsNew, KeysAreUnique,
     ToldIsStored, OneConversation
\* Steps of a request that leave the conversations too.
<1>moves. ASSUME NEW r \in Requests, NEW q \in T!Request,
                 talkReq' = [talkReq EXCEPT ![r] = q], q.pc # "inserted",
                 q.pc \in {"open", "reopen", "send", "resend"} => q.in \in Applications,
                 UNCHANGED <<conversation, lastMessageAt, message, clock>>,
                 told' = told \/ \E m \in message :
                   told' = told \cup {[sender |-> m.sender, key |-> m.key, at |-> m.at]}
          PROVE  TalkInv'
  <2>1. OneConversation'
    BY <1>moves DEF TalkInv, OneConversation
  <2> QED
    BY <1>moves, <1>types, <2>1, TalkRequestMoves
<1>1. ASSUME NEW side \in T!Sides, NEW a \in Applications, T!MarkRead(side, a)
      PROVE  TalkInv'
  <2> DEFINE marked(m) == IF m.in = a /\ m.sender # side THEN [m EXCEPT !.read = TRUE] ELSE m
  <2>1. message' = {marked(m) : m \in message}
        /\ UNCHANGED <<conversation, lastMessageAt, told, clock, talkReq>>
    BY <1>1 DEF T!MarkRead
  <2>2. ASSUME NEW m \in message
        PROVE  /\ marked(m) \in T!Message /\ marked(m).sender = m.sender
               /\ marked(m).key = m.key /\ marked(m).at = m.at
    <3>1. m \in T!Message
      BY <1>types
    <3> QED
      BY <3>1 DEF T!Message
  <2> HIDE DEF marked
  <2>3. T!TypeOK'
    BY <2>1, <2>2 DEF TalkInv, T!TypeOK
  <2>4. InsertedIsNew'
    BY <2>1, <2>2 DEF TalkInv, InsertedIsNew
  <2>5. KeysAreUnique'
    BY <2>1, <2>2 DEF TalkInv, KeysAreUnique
  <2>6. ToldIsStored'
    BY <2>1, <2>2 DEF TalkInv, ToldIsStored
  <2> QED
    BY <2>1, <2>3, <2>4, <2>5, <2>6 DEF TalkInv, TalksInApplication, OneConversation
<1>2. ASSUME NEW r \in Requests, NEW side \in T!Sides, NEW a \in Applications,
             T!BeginOpen(r, side, a)
      PROVE  TalkInv'
  <2> DEFINE q == [T!Idle EXCEPT !.pc = "open", !.side = side, !.in = a]
  <2>1. q \in T!Request /\ q.pc = "open" /\ q.in = a
    BY TalkIdle DEF T!Request
  <2>2. talkReq' = [talkReq EXCEPT ![r] = q]
        /\ UNCHANGED <<conversation, lastMessageAt, message, told, clock>>
    BY <1>2 DEF T!BeginOpen, T!Keep
  <2> HIDE DEF q
  <2> QED
    BY <1>moves, <2>1, <2>2
<1>3. ASSUME NEW r \in Requests, T!CreateConversation(r)
      PROVE  TalkInv'
  <2> DEFINE a == talkReq[r].in
             q == [talkReq[r] EXCEPT !.pc = "reopen"]
  <2>1. talkReq[r] \in T!Request /\ talkReq[r].pc = "open"
    BY <1>3, <1>types DEF T!CreateConversation
  <2>2. a \in Applications
    BY <2>1 DEF TalkInv, TalksInApplication
  <2>3. q \in T!Request /\ q.pc = "reopen" /\ q.in = a
    BY <2>1 DEF T!Request
  <2>4. /\ UNCHANGED <<lastMessageAt, message, told, clock>>
        /\ \/ /\ conversation[a] = 0
              /\ conversation' = [conversation EXCEPT ![a] = @ + 1]
              /\ talkReq' = [talkReq EXCEPT ![r] = T!Idle]
           \/ UNCHANGED conversation /\ talkReq' = [talkReq EXCEPT ![r] = q]
    BY <1>3 DEF T!CreateConversation, T!IsNew, T!Answer, T!Keep
  <2> HIDE DEF q
  <2>5. CASE UNCHANGED conversation /\ talkReq' = [talkReq EXCEPT ![r] = q]
    BY <1>moves, <2>2, <2>3, <2>4, <2>5
  <2>6. CASE /\ conversation[a] = 0
             /\ conversation' = [conversation EXCEPT ![a] = @ + 1]
             /\ talkReq' = [talkReq EXCEPT ![r] = T!Idle]
    <3>1. conversation' \in [Applications -> Nat] /\ OneConversation'
      BY <1>types, <2>2, <2>6 DEF TalkInv, OneConversation
    <3> QED
      BY <2>4, <2>6, <3>1, TalkIdle, TalkRequestMoves
  <2> QED
    BY <2>4, <2>5, <2>6
<1>4. ASSUME NEW r \in Requests, T!FindConcurrent(r) \/ T!Abort(r)
      PROVE  TalkInv'
  BY <1>4, <1>moves, TalkIdle DEF T!FindConcurrent, T!Abort, T!Answer, T!Keep
<1>5. ASSUME NEW r \in Requests, NEW side \in T!Sides, NEW a \in Applications, NEW key \in Keys,
             NEW arrives \in BOOLEAN, T!BeginSend(r, side, a, key, arrives)
      PROVE  TalkInv'
  <2> DEFINE q == [T!Idle EXCEPT !.pc = "send", !.side = side, !.in = a, !.key = key]
  <2>1. q \in T!Request /\ q.pc = "send" /\ q.in = a
    BY TalkIdle DEF T!Request
  <2>2. /\ UNCHANGED <<conversation, lastMessageAt, message, clock>>
        /\ \/ \E m \in message :
                /\ \/ told' = told \cup {[sender |-> m.sender, key |-> m.key, at |-> m.at]}
                   \/ told' = told
                /\ talkReq' = [talkReq EXCEPT ![r] = T!Idle]
           \/ talkReq' = [talkReq EXCEPT ![r] = q] /\ UNCHANGED told
    BY <1>5 DEF T!BeginSend, T!Sent, T!Tell, T!Answer, T!Keep
  <2> HIDE DEF q
  <2> QED
    BY <1>moves, <2>1, <2>2, TalkIdle
<1>6. ASSUME NEW r \in Requests, T!InsertMessage(r)
      PROVE  TalkInv'
  <2> DEFINE again == [talkReq[r] EXCEPT !.pc = "resend"]
             q == [talkReq[r] EXCEPT !.pc = "inserted", !.at = clock + 1]
  <2>1. talkReq[r] \in T!Request /\ talkReq[r].pc = "send"
    BY <1>6, <1>types DEF T!InsertMessage
  <2>2. talkReq[r].in \in Applications
    BY <2>1 DEF TalkInv, TalksInApplication
  <2>3. again \in T!Request /\ again.pc = "resend" /\ again.in = talkReq[r].in
    BY <2>1 DEF T!Request
  <2>4. /\ UNCHANGED <<conversation, lastMessageAt, message, told>>
        /\ T!KeyFree(talkReq[r].side, talkReq[r].key)
        /\ \/ talkReq' = [talkReq EXCEPT ![r] = again] /\ UNCHANGED clock
           \/ /\ ~T!Taken(talkReq[r].side, talkReq[r].key)
              /\ clock < MaxClock /\ clock' = clock + 1
              /\ talkReq' = [talkReq EXCEPT ![r] = q]
    BY <1>6 DEF T!InsertMessage, T!Keep
  <2>5. CASE talkReq' = [talkReq EXCEPT ![r] = again] /\ UNCHANGED clock
    <3> HIDE DEF again
    <3> QED
      BY <1>moves, <2>2, <2>3, <2>4, <2>5
  <2>6. CASE /\ ~T!Taken(talkReq[r].side, talkReq[r].key)
             /\ clock < MaxClock /\ clock' = clock + 1
             /\ talkReq' = [talkReq EXCEPT ![r] = q]
    <3>1. clock + 1 \in 1..MaxClock /\ clock + 1 \in 0..MaxClock
      BY <1>types, <2>6, ScenesAssumption
    <3>2. /\ q \in T!Request /\ q.pc = "inserted" /\ q.in = talkReq[r].in
          /\ q.side = talkReq[r].side /\ q.key = talkReq[r].key /\ q.at = clock + 1
      BY <2>1, <3>1 DEF T!Request
    <3> HIDE DEF q
    <3>3. /\ talkReq' \in [Requests -> T!Request] /\ talkReq'[r] = q
          /\ \A k \in Requests : k # r => talkReq'[k] = talkReq[k]
      BY <1>types, <2>6, <3>2
    <3>4. T!TypeOK'
      BY <2>4, <2>6, <3>1, <3>3 DEF TalkInv, T!TypeOK
    <3>5. TalksInApplication'
      BY <2>2, <3>1, <3>2, <3>3 DEF TalkInv, TalksInApplication
    <3>6. InsertedIsNew'
      <4>1. \A m \in message : ~(m.sender = q.side /\ m.key = q.key)
        BY <2>6, <3>2 DEF T!Taken, T!Sent
      <4>2. \A k \in Requests : ~(talkReq[k].pc = "inserted" /\ talkReq[k].side = q.side
                                  /\ talkReq[k].key = q.key)
        BY <2>4, <3>2 DEF T!KeyFree
      <4> QED
        BY <2>4, <3>3, <4>1, <4>2 DEF TalkInv, InsertedIsNew
    <3> QED
      BY <2>4, <3>4, <3>5, <3>6 DEF TalkInv, KeysAreUnique, ToldIsStored, OneConversation
  <2> QED
    BY <2>4, <2>5, <2>6
<1>7. ASSUME NEW r \in Requests, NEW arrives \in BOOLEAN, T!CommitMessage(r, arrives)
      PROVE  TalkInv'
  <2> DEFINE q == talkReq[r]
             m == [in |-> q.in, sender |-> q.side, key |-> q.key, at |-> q.at, read |-> FALSE]
             t == [sender |-> m.sender, key |-> m.key, at |-> m.at]
  <2>1. q \in T!Request /\ q.pc = "inserted" /\ q.in \in Applications /\ q.at \in 1..MaxClock
    BY <1>7, <1>types DEF T!CommitMessage, TalkInv, TalksInApplication
  <2>2. /\ m \in T!Message /\ m.sender = q.side /\ m.key = q.key /\ m.at = q.at
        /\ t \in [sender : T!Sides, key : Keys, at : 1..MaxClock]
        /\ t.sender = m.sender /\ t.key = m.key /\ t.at = m.at
    BY <2>1 DEF T!Message, T!Request
  <2>3. /\ message' = message \cup {m} /\ UNCHANGED <<conversation, clock>>
        /\ lastMessageAt' = [lastMessageAt EXCEPT ![q.in] = q.at]
        /\ told' = IF arrives THEN told \cup {t} ELSE told
        /\ talkReq' = [talkReq EXCEPT ![r] = T!Idle]
    BY <1>7 DEF T!CommitMessage, T!Tell, T!Answer, T!Keep
  <2>4. /\ \A n \in message : ~(n.sender = q.side /\ n.key = q.key)
        /\ \A k \in Requests :
             talkReq[k].pc = "inserted" /\ talkReq[k].side = q.side /\ talkReq[k].key = q.key
               => k = r
    BY <2>1 DEF TalkInv, InsertedIsNew
  <2>5. q.at \in 0..MaxClock
    BY <2>1
  <2> HIDE DEF q, m, t
  <2>6. /\ talkReq' \in [Requests -> T!Request] /\ talkReq'[r] = T!Idle
        /\ \A k \in Requests : k # r => talkReq'[k] = talkReq[k]
    BY <1>types, <2>3, TalkIdle
  <2>7. T!TypeOK'
    BY <1>types, <2>1, <2>2, <2>3, <2>5, <2>6 DEF TalkInv, T!TypeOK
  <2>8. TalksInApplication'
    BY <2>6, TalkIdle DEF TalkInv, TalksInApplication
  <2>9. InsertedIsNew'
    BY <2>2, <2>3, <2>4, <2>6, TalkIdle DEF TalkInv, InsertedIsNew
  <2>10. KeysAreUnique'
    BY <2>2, <2>3, <2>4 DEF TalkInv, KeysAreUnique
  <2>11. ToldIsStored'
    BY <2>2, <2>3 DEF TalkInv, ToldIsStored
  <2> QED
    BY <2>3, <2>7, <2>8, <2>9, <2>10, <2>11 DEF TalkInv, OneConversation
<1>8. ASSUME NEW r \in Requests, NEW arrives \in BOOLEAN, T!AnswerExisting(r, arrives)
      PROVE  TalkInv'
  <2>1. /\ UNCHANGED <<conversation, lastMessageAt, message, clock>>
        /\ \E m \in message :
             /\ \/ told' = told \cup {[sender |-> m.sender, key |-> m.key, at |-> m.at]}
                \/ told' = told
             /\ talkReq' = [talkReq EXCEPT ![r] = T!Idle]
    BY <1>8 DEF T!AnswerExisting, T!Sent, T!Tell, T!Answer, T!Keep
  <2> QED
    BY <1>moves, <2>1, TalkIdle
<1>9. CASE T!Next
  <2>1. ASSUME NEW r \in Requests, T!RequestStep(r) PROVE TalkInv'
    BY <1>2, <1>3, <1>4, <1>5, <1>6, <1>7, <1>8, <2>1 DEF T!RequestStep
  <2> QED
    BY <1>1, <1>9, <2>1 DEF T!Next
<1> QED
  BY <1>0, <1>9 DEF talks

\* A message that is inserted and not yet committed has a key that no other has, and whatever
\* an answer named is stored (sendSeekerMessage).
THEOREM TalkInvHolds == T!Spec => []TalkInv
<1>1. [T!Next]_T!conversationVars => [T!Next]_talks
  BY DEF T!conversationVars, talks
<1> QED
  BY <1>1, TalkInit, TalkStep, PTL DEF T!Spec

\* For every number of applications, keys and requests, a message is stored once, in the one
\* conversation of its application, and every answer names that row (sendSeekerMessage,
\* getOrCreateConversationForApplication).
THEOREM StoredOnceHolds == T!Spec => []StoredOnce
<1>1. TalkInv => StoredOnce
  <2> SUFFICES ASSUME TalkInv, NEW t \in told
               PROVE  {m.at : m \in T!Sent(t.sender, t.key)} = {t.at}
    BY DEF StoredOnce, T!StoredOnce, TalkInv, OneConversation
  <2>1. PICK n \in message : n.sender = t.sender /\ n.key = t.key /\ n.at = t.at
    BY DEF TalkInv, ToldIsStored
  <2>2. T!Sent(t.sender, t.key) = {n}
    BY <2>1 DEF T!Sent, TalkInv, KeysAreUnique
  <2> QED
    BY <2>1, <2>2
<1> QED
  BY <1>1, TalkInvHolds, PTL

-----------------------------------------------------------------------------
(* Profile files *)

InProfile(f) == \E kind \in F!Kinds : profile[kind] = f

InApplication(f) ==
    \/ \E a \in Applications : snapshot[a] = f
    \/ \E r \in Requests : fileReq[r].pc = "apply" /\ fileReq[r].old = f

\* The profile, an application or a request that has read them names the file.
IsNamed(f) ==
    InProfile(f) \/ InApplication(f) \/ \E r \in Requests : fileReq[r].old = f

\* A request that uploads has a file; one that applies has a resume and an application.
FilesAtHand ==
    \A r \in Requests :
      /\ fileReq[r].pc \in {"read", "uploaded", "saved", "failed", "lost"} =>
           fileReq[r].new \in Files
      /\ fileReq[r].pc = "apply" => fileReq[r].old \in Files /\ fileReq[r].on \in Applications

\* A key that is named, or uploaded, is not given to another upload.
UsedStayUsed ==
    /\ \A f \in Files : IsNamed(f) => file[f] # "unused"
    /\ \A r \in Requests : fileReq[r].pc \in {"uploaded", "saved", "failed", "lost"} =>
         file[fileReq[r].new] # "unused"

\* Between the upload and the write of its key a file is left alone.
UploadedIsStored ==
    \A r \in Requests : fileReq[r].pc = "uploaded" => file[fileReq[r].new] = "stored"

\* An upload has its key for itself, and nothing names it before it is saved.
NewIsOwn ==
    \A r \in Requests :
      /\ \A k \in Requests : fileReq[k].new = fileReq[r].new /\ fileReq[r].new # NoRow => k = r
      /\ fileReq[r].pc \in {"read", "uploaded", "failed"} => ~IsNamed(fileReq[r].new)

\* Pictures and resumes have no file in common.
OfResume(r) == fileReq[r].kind = "resume" \/ fileReq[r].pc = "apply"

IsPicture(f) ==
    \/ profile["picture"] = f
    \/ \E r \in Requests : ~OfResume(r) /\ f \in {fileReq[r].new, fileReq[r].old}

IsResume(f) ==
    \/ profile["resume"] = f \/ InApplication(f)
    \/ \E r \in Requests : OfResume(r) /\ f \in {fileReq[r].new, fileReq[r].old}

KindsApart == \A f \in Files : ~(IsPicture(f) /\ IsResume(f))

\* What a request is going to delete the profile does not name any more.
GivenUp ==
    \A r \in Requests : fileReq[r].pc \in {"saved", "cleared"} =>
      fileReq[r].old = NoRow \/ ~InProfile(fileReq[r].old)

\* What is named is stored, but for what the seeker removed or a clean-up took.
StoredAsNamed ==
    \A f \in Files :
      /\ InProfile(f) => file[f] \in {"stored", "lost"}
      /\ InApplication(f) => file[f] \in {"stored", "lost", "removed"}

FileInv ==
    /\ F!TypeOK /\ FilesAtHand /\ UsedStayUsed /\ UploadedIsStored
    /\ NewIsOwn /\ KindsApart /\ GivenUp /\ StoredAsNamed

\* A request that is idle has no file.
LEMMA FileIdle ==
    /\ F!Idle \in F!Request /\ F!Idle.pc = "idle" /\ F!Idle.kind = "picture"
    /\ F!Idle.new = NoRow /\ F!Idle.old = NoRow /\ NoRow \notin Files
BY ScenesAssumption DEF F!Idle, F!Request, F!Kinds, F!ObjectKeys

\* It holds initially.
LEMMA FileInit == F!Init => FileInv
<1> SUFFICES ASSUME F!Init PROVE FileInv
  OBVIOUS
<1>1. F!TypeOK
  BY FileIdle DEF F!Init, F!TypeOK, F!ObjectKeys, F!FileStates
<1>2. \A f \in Files : ~IsNamed(f) /\ ~InProfile(f) /\ ~InApplication(f)
  BY FileIdle DEF F!Init, F!Kinds, IsNamed, InProfile, InApplication
<1>3. \A f \in Files : ~IsPicture(f)
  BY FileIdle DEF F!Init, F!Kinds, IsPicture, OfResume
<1> QED
  BY <1>1, <1>2, <1>3, FileIdle
     DEF F!Init, FileInv, FilesAtHand, UsedStayUsed, NewIsOwn, KindsApart, GivenUp, StoredAsNamed,
     UploadedIsStored

\* A step of a request in which the profile and the applications name no file that nobody
\* has named, no key is taken, and a file that is deleted is of no use any more.
LEMMA FileRequestMoves ==
    ASSUME FileInv, NEW r \in Requests, NEW q \in F!Request,
           fileReq' = [fileReq EXCEPT ![r] = q],
           profile' \in [F!Kinds -> F!ObjectKeys],
           \A kind \in F!Kinds : profile'[kind] \in {profile[kind], NoRow},
           snapshot' \in [Applications -> F!ObjectKeys],
           \A a \in Applications :
             \/ snapshot'[a] = snapshot[a]
             \/ fileReq[r].pc = "apply" /\ snapshot'[a] = fileReq[r].old,
           file' \in [Files -> F!FileStates],
           \A f \in Files : f \notin {fileReq[r].new, fileReq[r].old} => file'[f] = file[f],
           \A f \in Files :
             \/ file'[f] = file[f]
             \/ file'[f] \in {"stored", "lost"}
             \/ file'[f] = "removed" /\ ~InProfile(f)
             \/ file'[f] \in {"replaced", "failed"} /\ ~InProfile(f) /\ ~InApplication(f),
           q.new = NoRow \/ (q.new = fileReq[r].new /\ q.kind = fileReq[r].kind
                             /\ q.pc # "apply" /\ fileReq[r].pc # "apply"),
           \/ q.old = NoRow
           \/ /\ q.old = fileReq[r].old /\ q.kind = fileReq[r].kind
              /\ q.pc # "apply" /\ fileReq[r].pc # "apply"
           \/ q.old = profile["resume"] /\ (q.kind = "resume" \/ q.pc = "apply")
           \/ q.old = profile["picture"] /\ q.kind = "picture" /\ q.pc # "apply",
           q.pc \in {"read", "uploaded", "saved", "failed", "lost"} => q.new \in Files,
           q.pc = "apply" => q.old \in Files /\ q.on \in Applications
                             /\ q.old = profile["resume"],
           q.pc \in {"uploaded", "saved", "failed", "lost"} => file'[q.new] # "unused",
           q.pc = "uploaded" => file'[q.new] = "stored",
           q.pc \in {"read", "uploaded", "failed"} =>
             fileReq[r].pc \in {"read", "uploaded", "failed"},
           q.pc \in {"saved", "cleared"} =>
             q.old = NoRow \/ \A kind \in F!Kinds : profile'[kind] # q.old
    PROVE  FileInv'
<1>0. /\ fileReq \in [Requests -> F!Request] /\ fileReq' \in [Requests -> F!Request]
      /\ fileReq'[r] = q /\ NoRow \notin Files
      /\ \A k \in Requests : k # r => fileReq'[k] = fileReq[k]
      /\ "picture" \in F!Kinds /\ "resume" \in F!Kinds
  BY FileIdle DEF FileInv, F!TypeOK, F!Kinds
<1>1. F!TypeOK'
  BY <1>0 DEF FileInv, F!TypeOK
<1>2. \A f \in Files : InProfile(f)' => InProfile(f)
  BY <1>0 DEF InProfile
<1>3. \A f \in Files : InApplication(f)' => InApplication(f) \/ f = profile["resume"]
  BY <1>0 DEF InApplication
<1>4. \A f \in Files : IsNamed(f)' => IsNamed(f)
  BY <1>0, <1>2, <1>3 DEF IsNamed, InProfile
<1>5. \A f \in Files : IsPicture(f)' => IsPicture(f)
  <2>1. ASSUME NEW f \in Files, NEW k \in Requests, ~OfResume(k)',
               f \in {fileReq'[k].new, fileReq'[k].old}
        PROVE  IsPicture(f)
    <3>1. CASE k # r
      BY <1>0, <2>1, <3>1 DEF IsPicture, OfResume
    <3>2. CASE k = r
      BY <1>0, <2>1, <3>2 DEF IsPicture, OfResume
    <3> QED
      BY <3>1, <3>2
  <2> QED
    BY <1>0, <2>1 DEF IsPicture
<1>6. \A f \in Files : IsResume(f)' => IsResume(f)
  <2>1. ASSUME NEW f \in Files, NEW k \in Requests, OfResume(k)',
               f \in {fileReq'[k].new, fileReq'[k].old}
        PROVE  IsResume(f)
    <3>1. CASE k # r
      BY <1>0, <2>1, <3>1 DEF IsResume, OfResume
    <3>2. CASE k = r
      BY <1>0, <2>1, <3>2, FileIdle DEF IsResume, OfResume, F!Request, F!Kinds
    <3> QED
      BY <3>1, <3>2
  <2> QED
    BY <1>0, <1>3, <2>1 DEF IsResume
<1>7. FilesAtHand'
  BY <1>0 DEF FileInv, FilesAtHand
<1>8. UsedStayUsed'
  <2>1. \A f \in Files : file[f] # "unused" => file'[f] # "unused"
    OBVIOUS
  <2>2. \A k \in Requests : k # r /\ fileReq'[k].pc \in {"uploaded", "saved", "failed", "lost"} =>
          file'[fileReq'[k].new] # "unused"
    BY <1>0, <2>1 DEF FileInv, FilesAtHand, UsedStayUsed
  <2> QED
    BY <1>0, <1>4, <2>1, <2>2 DEF FileInv, UsedStayUsed
<1>9. NewIsOwn'
  <2>1. \A j, k \in Requests : fileReq'[j].new = fileReq'[k].new /\ fileReq'[k].new # NoRow => j = k
    BY <1>0 DEF FileInv, NewIsOwn
  <2>2. ASSUME NEW k \in Requests, fileReq'[k].pc \in {"read", "uploaded", "failed"}
        PROVE  ~IsNamed(fileReq[k].new)'
    <3>1. PICK f \in Files : /\ f = fileReq'[k].new /\ f = fileReq[k].new
                             /\ fileReq[k].pc \in {"read", "uploaded", "failed"}
      BY <1>0, <2>2 DEF FileInv, FilesAtHand
    <3>2. ~IsNamed(f)
      BY <3>1 DEF FileInv, NewIsOwn
    <3>3. ~IsNamed(f)'
      BY <1>4, <3>2
    <3> QED
      BY <3>1, <3>3 DEF IsNamed, InProfile, InApplication
  <2> QED
    BY <2>1, <2>2 DEF NewIsOwn
<1>10. KindsApart'
  BY <1>5, <1>6 DEF FileInv, KindsApart
<1>11. GivenUp'
  BY <1>0 DEF FileInv, GivenUp, InProfile
<1>12. StoredAsNamed'
  <2>1. ASSUME NEW f \in Files, InProfile(f)' PROVE file'[f] \in {"stored", "lost"}
    BY <1>2, <2>1 DEF FileInv, StoredAsNamed
  <2>2. ASSUME NEW f \in Files, InApplication(f)'
        PROVE  file'[f] \in {"stored", "lost", "removed"}
    <3>1. InApplication(f) \/ InProfile(f)
      BY <1>0, <1>3, <2>2 DEF InProfile
    <3> QED
      BY <3>1 DEF FileInv, StoredAsNamed
  <2> QED
    BY <2>1, <2>2 DEF StoredAsNamed
<1>13. UploadedIsStored'
  <2>1. ASSUME NEW k \in Requests, k # r, fileReq[k].pc = "uploaded"
        PROVE  file'[fileReq[k].new] = "stored"
    <3>1. PICK f \in Files : f = fileReq[k].new
      BY <2>1 DEF FileInv, FilesAtHand
    <3>2. ~IsNamed(f) /\ f # fileReq[r].new
      BY <1>0, <2>1, <3>1 DEF FileInv, NewIsOwn
    <3>3. f # fileReq[r].old /\ file[f] = "stored"
      BY <2>1, <3>1, <3>2 DEF IsNamed, FileInv, UploadedIsStored
    <3> QED
      BY <3>1, <3>2, <3>3
  <2> QED
    BY <1>0, <2>1 DEF UploadedIsStored
<1> QED
  BY <1>1, <1>7, <1>8, <1>9, <1>10, <1>11, <1>12, <1>13 DEF FileInv

\* An upload begins with a key nobody has or names.
LEMMA UploadBegins ==
    ASSUME FileInv, NEW r \in Requests, NEW kind \in F!Kinds, NEW f \in Files,
           F!BeginUpload(r, kind, f)
    PROVE  FileInv'
<1> DEFINE q == [F!Idle EXCEPT !.pc = "read", !.kind = kind, !.new = f, !.old = profile[kind]]
<1>0. /\ fileReq \in [Requests -> F!Request] /\ profile \in [F!Kinds -> F!ObjectKeys]
      /\ "picture" \in F!Kinds /\ "resume" \in F!Kinds /\ F!Kinds = {"picture", "resume"}
  BY DEF FileInv, F!TypeOK, F!Kinds
<1>1. q \in F!Request /\ q.pc = "read" /\ q.kind = kind /\ q.new = f /\ q.old = profile[kind]
  <2>1. f \in F!ObjectKeys /\ profile[kind] \in F!ObjectKeys
    BY <1>0 DEF F!ObjectKeys
  <2> QED
    BY <2>1, FileIdle DEF F!Request
<1>2. /\ fileReq' = [fileReq EXCEPT ![r] = q] /\ UNCHANGED <<profile, file, snapshot>>
      /\ fileReq[r] = F!Idle /\ file[f] = "unused"
      /\ \A k \in Requests : fileReq[k].new # f
  BY DEF F!BeginUpload, F!Keep
<1> HIDE DEF q
<1>3. /\ fileReq' \in [Requests -> F!Request] /\ fileReq'[r] = q
      /\ \A k \in Requests : k # r => fileReq'[k] = fileReq[k]
  BY <1>0, <1>1, <1>2
<1>4. ~IsNamed(f)
  BY <1>2 DEF FileInv, UsedStayUsed
<1>5. /\ \A g \in Files : InProfile(g)' <=> InProfile(g)
      /\ \A g \in Files : InApplication(g)' <=> InApplication(g)
      /\ \A g \in Files : IsNamed(g)' => IsNamed(g)
  <2>1. \A g \in Files : InProfile(g)' <=> InProfile(g)
    BY <1>2 DEF InProfile
  <2>2. \A g \in Files : InApplication(g)' <=> InApplication(g)
    BY <1>1, <1>2, <1>3, FileIdle DEF InApplication
  <2> QED
    BY <1>1, <1>3, <2>1, <2>2 DEF IsNamed, InProfile
<1>6. F!TypeOK'
  BY <1>2, <1>3 DEF FileInv, F!TypeOK
<1>7. FilesAtHand'
  BY <1>1, <1>3 DEF FileInv, FilesAtHand
<1>8. UsedStayUsed'
  BY <1>1, <1>2, <1>3, <1>5 DEF FileInv, UsedStayUsed
<1>9. NewIsOwn'
  <2>1. \A j, k \in Requests : fileReq'[j].new = fileReq'[k].new /\ fileReq'[k].new # NoRow => j = k
    BY <1>1, <1>2, <1>3 DEF FileInv, NewIsOwn
  <2>2. ASSUME NEW k \in Requests, fileReq'[k].pc \in {"read", "uploaded", "failed"}
        PROVE  ~IsNamed(fileReq[k].new)'
    <3>1. PICK g \in Files : g = fileReq'[k].new /\ ~IsNamed(g)
      BY <1>1, <1>3, <1>4, <2>2 DEF FileInv, FilesAtHand, NewIsOwn
    <3>2. ~IsNamed(g)'
      BY <1>5, <3>1
    <3> QED
      BY <3>1, <3>2 DEF IsNamed, InProfile, InApplication
  <2> QED
    BY <2>1, <2>2 DEF NewIsOwn
<1>10. KindsApart'
  <2>1. ASSUME NEW g \in Files, g # f, IsPicture(g)' PROVE IsPicture(g)
    BY <1>0, <1>1, <1>2, <1>3, <2>1 DEF IsPicture, OfResume
  <2>2. ASSUME NEW g \in Files, g # f, IsResume(g)' PROVE IsResume(g)
    BY <1>0, <1>1, <1>2, <1>3, <1>5, <2>2 DEF IsResume, OfResume
  <2>3. ~(IsPicture(f)' /\ IsResume(f)')
    <3>1. ~InProfile(f) /\ ~InApplication(f) /\ \A k \in Requests : fileReq[k].old # f
      BY <1>4 DEF IsNamed
    <3>2. profile["picture"] # f /\ profile["resume"] # f /\ profile[kind] # f
      BY <1>0, <3>1 DEF InProfile
    <3>3. IsPicture(f)' => ~OfResume(r)'
      BY <1>2, <1>3, <3>1, <3>2 DEF IsPicture
    <3>4. IsResume(f)' => OfResume(r)'
      BY <1>2, <1>3, <1>5, <3>1, <3>2 DEF IsResume
    <3> QED
      BY <3>3, <3>4
  <2> QED
    BY <2>1, <2>2, <2>3 DEF FileInv, KindsApart
<1>11. GivenUp'
  BY <1>1, <1>2, <1>3 DEF FileInv, GivenUp, InProfile
<1>12. StoredAsNamed' /\ UploadedIsStored'
  BY <1>1, <1>2, <1>3, <1>5 DEF FileInv, StoredAsNamed, UploadedIsStored
<1> QED
  BY <1>6, <1>7, <1>8, <1>9, <1>10, <1>11, <1>12 DEF FileInv

\* A key is written to the profile, whether or not the answer says so.
LEMMA KeyIsSaved ==
    ASSUME FileInv, NEW r \in Requests, NEW outcome \in {"saved", "lost"}, F!SaveKey(r, outcome)
    PROVE  FileInv'
<1> DEFINE q == [fileReq[r] EXCEPT !.pc = outcome]
           f == fileReq[r].new
<1>0. /\ fileReq \in [Requests -> F!Request] /\ profile \in [F!Kinds -> F!ObjectKeys]
      /\ "picture" \in F!Kinds /\ "resume" \in F!Kinds /\ F!Kinds = {"picture", "resume"}
      /\ NoRow \notin Files
  BY FileIdle DEF FileInv, F!TypeOK, F!Kinds
<1>1. fileReq[r] \in F!Request /\ fileReq[r].pc = "uploaded" /\ fileReq[r].kind \in F!Kinds
  BY <1>0 DEF F!SaveKey, F!Request
<1>2. /\ q \in F!Request /\ q.pc = outcome /\ q.kind = fileReq[r].kind
      /\ q.new = f /\ q.old = fileReq[r].old
  BY <1>1 DEF F!Request
<1>3. /\ fileReq' = [fileReq EXCEPT ![r] = q] /\ UNCHANGED <<file, snapshot>>
      /\ profile' = [profile EXCEPT ![fileReq[r].kind] = f]
  BY DEF F!SaveKey, F!Keep
<1>4. f \in Files /\ ~IsNamed(f) /\ file[f] = "stored"
  BY <1>1 DEF FileInv, FilesAtHand, NewIsOwn, UploadedIsStored
<1>f. PICK g \in Files : g = f
  BY <1>4
<1> HIDE DEF q, f
<1>5. /\ fileReq' \in [Requests -> F!Request] /\ fileReq'[r] = q
      /\ \A k \in Requests : k # r => fileReq'[k] = fileReq[k]
  BY <1>0, <1>2, <1>3
<1>6. /\ profile' \in [F!Kinds -> F!ObjectKeys] /\ profile'[fileReq[r].kind] = g
      /\ \A k \in F!Kinds : k # fileReq[r].kind => profile'[k] = profile[k]
  BY <1>0, <1>1, <1>3, <1>f DEF F!ObjectKeys
<1>7. /\ \A h \in Files : InProfile(h)' => InProfile(h) \/ h = g
      /\ \A h \in Files : InApplication(h)' <=> InApplication(h)
      /\ \A h \in Files : IsNamed(h)' => IsNamed(h) \/ h = g
  <2>1. \A h \in Files : InProfile(h)' => InProfile(h) \/ h = g
    BY <1>6 DEF InProfile
  <2>2. \A h \in Files : InApplication(h)' <=> InApplication(h)
    BY <1>1, <1>2, <1>3, <1>5 DEF InApplication
  <2> QED
    BY <1>2, <1>5, <2>1, <2>2 DEF IsNamed
<1>8. F!TypeOK'
  BY <1>3, <1>5, <1>6 DEF FileInv, F!TypeOK
<1>9. FilesAtHand'
  BY <1>2, <1>4, <1>5 DEF FileInv, FilesAtHand
<1>10. UsedStayUsed'
  BY <1>2, <1>3, <1>4, <1>5, <1>7, <1>f DEF FileInv, UsedStayUsed
<1>11. NewIsOwn'
  <2>1. \A j, k \in Requests : fileReq'[j].new = fileReq'[k].new /\ fileReq'[k].new # NoRow => j = k
    BY <1>2, <1>5 DEF FileInv, NewIsOwn, f
  <2>2. ASSUME NEW k \in Requests, fileReq'[k].pc \in {"read", "uploaded", "failed"}
        PROVE  ~IsNamed(fileReq[k].new)'
    <3>1. k # r /\ fileReq'[k] = fileReq[k]
      BY <1>2, <1>5, <2>2
    <3>2. PICK h \in Files : h = fileReq[k].new /\ h = fileReq'[k].new
      BY <2>2, <3>1 DEF FileInv, FilesAtHand
    <3>3. ~IsNamed(h) /\ h # g
      BY <1>0, <1>f, <2>2, <3>1, <3>2 DEF FileInv, NewIsOwn, f
    <3>4. ~IsNamed(h)'
      BY <1>7, <3>3
    <3> QED
      BY <3>2, <3>4 DEF IsNamed, InProfile, InApplication
  <2> QED
    BY <2>1, <2>2 DEF NewIsOwn
<1>12. KindsApart'
  <2>1. \A k \in Requests : OfResume(k)' <=> OfResume(k)
    BY <1>1, <1>2, <1>5 DEF OfResume
  <2>2. \A k \in Requests : fileReq'[k].new = fileReq[k].new /\ fileReq'[k].old = fileReq[k].old
    BY <1>2, <1>5 DEF f
  <2>3. ASSUME NEW h \in Files, IsPicture(h)' PROVE IsPicture(h)
    <3>1. CASE fileReq[r].kind = "picture" /\ h = g
      BY <1>1, <1>f, <3>1 DEF IsPicture, OfResume, f
    <3>2. CASE ~(fileReq[r].kind = "picture" /\ h = g)
      BY <1>0, <1>6, <2>1, <2>2, <2>3, <3>2 DEF IsPicture
    <3> QED
      BY <3>1, <3>2
  <2>4. ASSUME NEW h \in Files, IsResume(h)' PROVE IsResume(h)
    <3>1. CASE fileReq[r].kind = "resume" /\ h = g
      BY <1>1, <1>f, <3>1 DEF IsResume, OfResume, f
    <3>2. CASE ~(fileReq[r].kind = "resume" /\ h = g)
      BY <1>0, <1>6, <1>7, <2>1, <2>2, <2>4, <3>2 DEF IsResume
    <3> QED
      BY <3>1, <3>2
  <2> QED
    BY <2>3, <2>4 DEF FileInv, KindsApart
<1>13. GivenUp'
  <2>1. ASSUME NEW k \in Requests, fileReq'[k].pc \in {"saved", "cleared"},
               fileReq'[k].old # NoRow
        PROVE  \A kind \in F!Kinds : profile'[kind] # fileReq'[k].old
    <3>1. fileReq'[k].old = fileReq[k].old /\ fileReq[k].old \in Files
      BY <1>0, <1>2, <1>5, <2>1 DEF F!Request, F!ObjectKeys
    <3>2. fileReq[k].old # g
      BY <1>4, <1>f DEF IsNamed
    <3>3. CASE k # r
      BY <1>5, <1>6, <2>1, <3>1, <3>2, <3>3 DEF FileInv, GivenUp, InProfile
    <3>4. CASE k = r
      <4>1. \A kind \in F!Kinds : kind # fileReq[r].kind => profile[kind] # fileReq[r].old
        <5> DEFINE o == fileReq[r].old
        <5>1. o \in Files /\ ~(IsPicture(o) /\ IsResume(o))
          BY <3>1, <3>4 DEF FileInv, KindsApart
        <5>2. fileReq[r].kind = "picture" => IsPicture(o)
          BY <1>1 DEF IsPicture, OfResume
        <5>3. fileReq[r].kind = "resume" => IsResume(o)
          BY <1>1 DEF IsResume, OfResume
        <5>4. /\ profile["picture"] = o => IsPicture(o)
              /\ profile["resume"] = o => IsResume(o)
          BY DEF IsPicture, IsResume
        <5> HIDE DEF o
        <5>5. \A kind \in F!Kinds : kind # fileReq[r].kind => profile[kind] # o
          BY <1>0, <1>1, <5>1, <5>2, <5>3, <5>4
        <5> QED
          BY <5>5 DEF o
      <4> QED
        BY <1>6, <3>1, <3>2, <3>4, <4>1
    <3> QED
      BY <3>3, <3>4
  <2> QED
    BY <2>1 DEF GivenUp, InProfile
<1>14. StoredAsNamed' /\ UploadedIsStored'
  BY <1>2, <1>3, <1>4, <1>5, <1>7, <1>f DEF FileInv, StoredAsNamed, UploadedIsStored
<1> QED
  BY <1>8, <1>9, <1>10, <1>11, <1>12, <1>13, <1>14 DEF FileInv

\* Every step of an upload, a removal and an application keeps it.
LEMMA FileStep == FileInv /\ [F!Next]_files => FileInv'
<1> SUFFICES ASSUME FileInv, [F!Next]_files PROVE FileInv'
  OBVIOUS
<1>0. CASE UNCHANGED files
  BY <1>0 DEF files, FileInv, F!TypeOK, FilesAtHand, UsedStayUsed, UploadedIsStored, NewIsOwn,
     KindsApart, GivenUp, StoredAsNamed, IsNamed, InProfile, InApplication, IsPicture, IsResume,
     OfResume
<1>types. /\ fileReq \in [Requests -> F!Request] /\ profile \in [F!Kinds -> F!ObjectKeys]
          /\ file \in [Files -> F!FileStates] /\ snapshot \in [Applications -> F!ObjectKeys]
          /\ F!Kinds = {"picture", "resume"} /\ F!ObjectKeys = Files \cup {NoRow}
          /\ NoRow \notin Files
  BY FileIdle DEF FileInv, F!TypeOK, F!Kinds, F!ObjectKeys
\* A request ends and has deleted a file, or none.
<1>ends. ASSUME NEW r \in Requests, NEW f \in F!ObjectKeys, NEW as \in F!FileStates,
                NEW works \in BOOLEAN, F!Deleted(f, as, works),
                fileReq' = [fileReq EXCEPT ![r] = F!Idle], UNCHANGED profile,
                snapshot' = snapshot \/
                  /\ fileReq[r].pc = "apply"
                  /\ snapshot' = [snapshot EXCEPT ![fileReq[r].on] = fileReq[r].old],
                works /\ f # NoRow =>
                  /\ f \in {fileReq[r].new, fileReq[r].old}
                  /\ \/ as = "lost"
                     \/ as = "removed" /\ ~InProfile(f)
                     \/ as \in {"replaced", "failed"} /\ ~InProfile(f) /\ ~InApplication(f)
         PROVE  FileInv'
  <2>1. fileReq[r].pc = "apply" => fileReq[r].old \in Files /\ fileReq[r].on \in Applications
    BY DEF FileInv, FilesAtHand
  <2>2. /\ snapshot' \in [Applications -> F!ObjectKeys]
        /\ \A a \in Applications :
             \/ snapshot'[a] = snapshot[a]
             \/ fileReq[r].pc = "apply" /\ snapshot'[a] = fileReq[r].old
    BY <1>types, <1>ends, <2>1
  <2>3. /\ file' \in [Files -> F!FileStates]
        /\ \A g \in Files : g \notin {fileReq[r].new, fileReq[r].old} => file'[g] = file[g]
        /\ \A g \in Files :
             \/ file'[g] = file[g]
             \/ file'[g] = "lost"
             \/ file'[g] = "removed" /\ ~InProfile(g)
             \/ file'[g] \in {"replaced", "failed"} /\ ~InProfile(g) /\ ~InApplication(g)
    <3>1. CASE works /\ f # NoRow
      <4>1. f \in Files /\ file' = [file EXCEPT ![f] = as]
        BY <1>types, <1>ends, <3>1 DEF F!Deleted
      <4> QED
        BY <1>types, <1>ends, <3>1, <4>1
    <3>2. CASE ~(works /\ f # NoRow)
      BY <1>types, <1>ends, <3>2 DEF F!Deleted
    <3> QED
      BY <3>1, <3>2
  <2> QED
    BY <1>types, <1>ends, <2>2, <2>3, FileIdle, FileRequestMoves
<1>1. ASSUME NEW r \in Requests, F!Upload(r)
      PROVE  FileInv'
  <2> DEFINE q == [fileReq[r] EXCEPT !.pc = "uploaded"]
  <2>1. fileReq[r] \in F!Request /\ fileReq[r].pc = "read"
    BY <1>1, <1>types DEF F!Upload
  <2>2. /\ q \in F!Request /\ q.pc = "uploaded" /\ q.new = fileReq[r].new
        /\ q.old = fileReq[r].old /\ q.kind = fileReq[r].kind
    BY <2>1 DEF F!Request
  <2>3. fileReq[r].new \in Files
    BY <2>1 DEF FileInv, FilesAtHand
  <2>4. /\ fileReq' = [fileReq EXCEPT ![r] = q] /\ UNCHANGED <<profile, snapshot>>
        /\ file' = [file EXCEPT ![fileReq[r].new] = "stored"]
    BY <1>1 DEF F!Upload, F!Keep
  <2> HIDE DEF q
  <2>5. /\ file' \in [Files -> F!FileStates] /\ file'[q.new] = "stored"
        /\ \A g \in Files : file'[g] = file[g] \/ (g = fileReq[r].new /\ file'[g] = "stored")
    BY <1>types, <2>2, <2>3, <2>4 DEF F!FileStates
  <2> QED
    BY <1>types, <2>1, <2>2, <2>3, <2>4, <2>5, FileRequestMoves
<1>2. ASSUME NEW r \in Requests, F!SaveKey(r, "failed")
      PROVE  FileInv'
  <2> DEFINE q == [fileReq[r] EXCEPT !.pc = "failed"]
  <2>1. fileReq[r] \in F!Request /\ fileReq[r].pc = "uploaded"
    BY <1>2, <1>types DEF F!SaveKey
  <2>2. /\ q \in F!Request /\ q.pc = "failed" /\ q.new = fileReq[r].new
        /\ q.old = fileReq[r].old /\ q.kind = fileReq[r].kind
    BY <2>1 DEF F!Request
  <2>3. q.new \in Files /\ file[q.new] # "unused"
    BY <2>1, <2>2 DEF FileInv, FilesAtHand, UsedStayUsed
  <2>4. fileReq' = [fileReq EXCEPT ![r] = q] /\ UNCHANGED <<profile, snapshot, file>>
    BY <1>2 DEF F!SaveKey, F!Keep
  <2> HIDE DEF q
  <2> QED
    BY <1>types, <2>1, <2>2, <2>3, <2>4, FileRequestMoves
<1>3. ASSUME NEW r \in Requests, NEW works \in BOOLEAN, F!DeleteOld(r, works)
      PROVE  FileInv'
  <2> DEFINE f == fileReq[r].old
             w == works /\ F!Replaces(fileReq[r].kind)
  <2>1. /\ fileReq[r].pc = "saved" /\ F!Deleted(f, "replaced", w)
        /\ fileReq' = [fileReq EXCEPT ![r] = F!Idle] /\ UNCHANGED <<profile, snapshot>>
    BY <1>3 DEF F!DeleteOld, F!Answer, F!Keep
  <2>2. f \in F!ObjectKeys /\ "replaced" \in F!FileStates /\ w \in BOOLEAN
    BY <1>types DEF F!Request, F!FileStates
  <2>3. ASSUME w, f # NoRow PROVE ~InProfile(f) /\ ~InApplication(f)
    <3>1. f \in Files /\ ~InProfile(f)
      BY <1>types, <2>1, <2>2, <2>3 DEF FileInv, GivenUp
    <3>2. IsPicture(f)
      BY <2>1, <2>3 DEF F!Replaces, IsPicture, OfResume
    <3>3. ~InApplication(f)
      BY <3>1, <3>2 DEF FileInv, KindsApart, IsResume
    <3> QED
      BY <3>1, <3>3
  <2> HIDE DEF w
  <2> QED
    BY <1>ends, <2>1, <2>2, <2>3
<1>4. ASSUME NEW r \in Requests, NEW works \in BOOLEAN, F!CleanUp(r, works)
      PROVE  FileInv'
  <2> DEFINE f == fileReq[r].new
             as == fileReq[r].pc
  <2>1. /\ as \in {"failed", "lost"} /\ F!Deleted(f, as, works)
        /\ fileReq' = [fileReq EXCEPT ![r] = F!Idle] /\ UNCHANGED <<profile, snapshot>>
    BY <1>4 DEF F!CleanUp, F!Discarded, F!Answer, F!Keep
  <2>2. f \in F!ObjectKeys /\ as \in F!FileStates
    BY <1>types, <2>1 DEF F!Request, F!FileStates
  <2>3. as = "failed" => ~InProfile(f) /\ ~InApplication(f)
    BY DEF FileInv, NewIsOwn, IsNamed
  <2> QED
    BY <1>ends, <2>1, <2>2, <2>3
<1>5. ASSUME NEW r \in Requests, NEW kind \in F!Kinds, F!BeginRemove(r, kind)
      PROVE  FileInv'
  <2> DEFINE q == [F!Idle EXCEPT !.pc = "remove", !.kind = kind, !.old = profile[kind]]
  <2>1. /\ q \in F!Request /\ q.pc = "remove" /\ q.kind = kind /\ q.new = NoRow
        /\ q.old = profile[kind]
    BY <1>types, FileIdle DEF F!Request
  <2>2. fileReq' = [fileReq EXCEPT ![r] = q] /\ UNCHANGED <<profile, snapshot, file>>
    BY <1>5 DEF F!BeginRemove, F!Keep
  <2> HIDE DEF q
  <2> QED
    BY <1>types, <2>1, <2>2, FileRequestMoves
<1>6. ASSUME NEW r \in Requests, F!ClearKey(r)
      PROVE  FileInv'
  <2> DEFINE q == [fileReq[r] EXCEPT !.pc = "cleared"]
             o == fileReq[r].old
  <2>1. fileReq[r] \in F!Request /\ fileReq[r].pc = "remove" /\ fileReq[r].kind \in F!Kinds
        /\ o \in F!ObjectKeys
    BY <1>6, <1>types DEF F!ClearKey, F!Request
  <2>2. /\ q \in F!Request /\ q.pc = "cleared" /\ q.new = fileReq[r].new
        /\ q.old = o /\ q.kind = fileReq[r].kind
    BY <2>1 DEF F!Request
  <2>3. /\ fileReq' = [fileReq EXCEPT ![r] = q] /\ UNCHANGED <<snapshot, file>>
        /\ profile' = [profile EXCEPT ![fileReq[r].kind] = NoRow]
    BY <1>6 DEF F!ClearKey, F!Keep
  <2> HIDE DEF q
  <2>4. /\ profile' \in [F!Kinds -> F!ObjectKeys] /\ profile'[fileReq[r].kind] = NoRow
        /\ \A kind \in F!Kinds : kind # fileReq[r].kind => profile'[kind] = profile[kind]
    BY <1>types, <2>1, <2>3
  <2>5. o = NoRow \/ \A kind \in F!Kinds : profile'[kind] # o
    <3> SUFFICES ASSUME o # NoRow PROVE \A kind \in F!Kinds : profile'[kind] # o
      OBVIOUS
    <3>1. o \in Files /\ ~(IsPicture(o) /\ IsResume(o))
      BY <1>types, <2>1 DEF FileInv, KindsApart
    <3>2. fileReq[r].kind = "picture" => IsPicture(o)
      BY <2>1 DEF IsPicture, OfResume
    <3>3. fileReq[r].kind = "resume" => IsResume(o)
      BY <2>1 DEF IsResume, OfResume
    <3>4. /\ profile["picture"] = o => IsPicture(o)
          /\ profile["resume"] = o => IsResume(o)
      BY DEF IsPicture, IsResume
    <3> HIDE DEF o
    <3> QED
      BY <1>types, <2>1, <2>4, <3>1, <3>2, <3>3, <3>4
  <2>6. \A kind \in F!Kinds : profile'[kind] \in {profile[kind], NoRow}
    BY <2>4
  <2> QED
    BY <1>types, <2>1, <2>2, <2>3, <2>4, <2>5, <2>6, FileRequestMoves
<1>7. ASSUME NEW r \in Requests, NEW works \in BOOLEAN, F!DeleteFile(r, works)
      PROVE  FileInv'
  <2> DEFINE f == fileReq[r].old
  <2>1. /\ fileReq[r].pc = "cleared" /\ F!Deleted(f, "removed", works)
        /\ fileReq' = [fileReq EXCEPT ![r] = F!Idle] /\ UNCHANGED <<profile, snapshot>>
    BY <1>7 DEF F!DeleteFile, F!Answer, F!Keep
  <2>2. f \in F!ObjectKeys /\ "removed" \in F!FileStates
    BY <1>types DEF F!Request, F!FileStates
  <2>3. f # NoRow => ~InProfile(f)
    BY <2>1 DEF FileInv, GivenUp
  <2> QED
    BY <1>ends, <2>1, <2>2, <2>3
<1>8. ASSUME NEW r \in Requests, NEW a \in Applications, F!BeginApply(r, a)
      PROVE  FileInv'
  <2> DEFINE q == [F!Idle EXCEPT !.pc = "apply", !.old = profile["resume"], !.on = a]
  <2>1. /\ q \in F!Request /\ q.pc = "apply" /\ q.new = NoRow /\ q.old = profile["resume"]
        /\ q.on = a
    BY <1>types, FileIdle DEF F!Request
  <2>2. /\ fileReq' = [fileReq EXCEPT ![r] = q] /\ UNCHANGED <<profile, snapshot, file>>
        /\ profile["resume"] # NoRow
    BY <1>8 DEF F!BeginApply, F!Keep
  <2>3. profile["resume"] \in Files
    BY <1>types, <2>2
  <2> HIDE DEF q
  <2> QED
    BY <1>types, <2>1, <2>2, <2>3, FileRequestMoves
<1>9. ASSUME NEW r \in Requests, F!FinishApply(r) \/ F!Abort(r)
      PROVE  FileInv'
  <2>1. /\ fileReq' = [fileReq EXCEPT ![r] = F!Idle] /\ UNCHANGED <<profile, file>>
        /\ snapshot' = snapshot \/
             /\ fileReq[r].pc = "apply"
             /\ snapshot' = [snapshot EXCEPT ![fileReq[r].on] = fileReq[r].old]
    BY <1>9 DEF F!FinishApply, F!Abort, F!Answer, F!Keep
  <2>2. F!Deleted(NoRow, "lost", FALSE)
    BY <2>1 DEF F!Deleted
  <2>3. NoRow \in F!ObjectKeys /\ "lost" \in F!FileStates
    BY <1>types DEF F!FileStates
  <2> QED
    BY <1>ends, <2>1, <2>2, <2>3
<1>10. CASE F!Next
  <2>1. ASSUME NEW r \in Requests, F!RequestStep(r) PROVE FileInv'
    <3>1. ASSUME NEW outcome \in {"saved", "failed", "lost"}, F!SaveKey(r, outcome)
          PROVE  FileInv'
      BY <1>2, <3>1, KeyIsSaved
    <3> QED
      BY <1>1, <1>3, <1>4, <1>5, <1>6, <1>7, <1>8, <1>9, <2>1, <3>1, UploadBegins
         DEF F!RequestStep
  <2> QED
    BY <1>10, <2>1 DEF F!Next
<1> QED
  BY <1>0, <1>10 DEF files

\* A key that is written to a row is nobody else's, pictures and resumes stay apart, and what
\* a request is going to delete the profile does not name any more (updateStoredFile,
\* deleteStoredFile).
THEOREM FileInvHolds == F!Spec => []FileInv
<1>1. [F!Next]_F!fileVars => [F!Next]_files
  BY DEF F!fileVars, files
<1> QED
  BY <1>1, FileInit, FileStep, PTL DEF F!Spec

\* For every number of files, applications and overlapping requests, what the profile and the
\* applications name is stored, unless it was removed or an answer was lost
\* (updateStoredFile).
THEOREM NamedFilesAreStoredHolds == F!Spec => []NamedFilesAreStored
<1>1. FileInv => NamedFilesAreStored
  <2> SUFFICES ASSUME FileInv PROVE F!NamedFilesAreStored
    BY DEF NamedFilesAreStored
  <2>1. /\ \A kind \in F!Kinds : profile[kind] \in Files \cup {NoRow}
        /\ \A a \in Applications : snapshot[a] \in Files \cup {NoRow}
    BY DEF FileInv, F!TypeOK, F!ObjectKeys
  <2> QED
    BY <2>1 DEF F!NamedFilesAreStored, FileInv, StoredAsNamed, InProfile, InApplication
<1> QED
  BY <1>1, FileInvHolds, PTL

-----------------------------------------------------------------------------
(* Interview times *)

\* What carries the proof is the lemma Found: an instant that shows a time is among its
\* matches.  Its offset is one of three.  The first is in force before every instant that may
\* show the time, so the earliest sample has it, and the third likewise the latest; the
\* second is in force for three hours at least, and the samples are three hours apart.
ZoneStays == zone \in Zone /\ zone.end - zone.start >= MinStay

TimesInv == ZoneStays /\ TimesTypeOK /\ ScheduledAsAsked

\* What Offset returns is an offset in use (intlParts).
LEMMA OffsetType ==
    ASSUME ZoneStays, NEW t \in Int
    PROVE  Offset(t) \in West .. East /\ Shown(t) \in Int
  BY DEF ZoneStays, Zone, Offset, Shown, West, East, Hour

\* Every match is an instant that shows the time (the filter of parseLocalSchedule).
LEMMA MatchesShow ==
    ASSUME ZoneStays, NEW local \in Int, NEW t \in Matches(local)
    PROVE  t \in Possible(local) /\ Shown(t) = local
<1>1. PICK h \in SampleHours : t = local - Offset(local + Hour * h)
  BY DEF Matches, OffsetsAround
<1>2. local + Hour * h \in Int
  BY DEF SampleHours, Hour
<1>3. Offset(local + Hour * h) \in West .. East
  BY <1>2, OffsetType
<1>4. t \in Possible(local)
  BY <1>1, <1>3 DEF Possible, West, East, Hour
<1> QED
  BY <1>4 DEF Matches

\* Some sample has the offset in force at an instant that shows the time.
LEMMA Sampled ==
    ASSUME ZoneStays, NEW local \in Int, NEW t \in Int, Shown(t) = local
    PROVE  Offset(t) \in OffsetsAround(local)
<1>0. /\ zone.start \in Int /\ zone.end \in Int /\ zone.end - zone.start >= 12
      /\ Offset(t) \in -48 .. 56
      /\ local = t + Offset(t)
  BY OffsetType DEF ZoneStays, Zone, MinStay, Hour, West, East, Shown
<1>1. SUFFICES \E k \in -12 .. 12 : Offset(local + 12 * k) = Offset(t)
  <2>1. PICK k \in -12 .. 12 : Offset(local + 12 * k) = Offset(t)
    BY <1>1
  <2>2. 3 * k \in SampleHours /\ Hour * (3 * k) = 12 * k
    BY DEF SampleHours, Hour
  <2> QED
    BY <2>1, <2>2 DEF OffsetsAround
<1>2. CASE t < zone.start
  <2>1. local + 12 * (-12) < zone.start
    BY <1>0, <1>2
  <2>2. Offset(local + 12 * (-12)) = Offset(t)
    BY <1>2, <2>1 DEF Offset
  <2> QED
    BY <2>2
<1>3. CASE t >= zone.end
  <2>1. local + 12 * 12 >= zone.end /\ t >= zone.start
    BY <1>0, <1>3
  <2>2. Offset(local + 12 * 12) = Offset(t)
    BY <1>0, <1>3, <2>1 DEF Offset
  <2> QED
    BY <2>2
<1>4. CASE t >= zone.start /\ t < zone.end
  <2>1. PICK k \in -5 .. 4 : local + 12 * k <= t /\ t < local + 12 * k + 12
    <3>1. \E k \in -5 .. 4 : 12 * k <= -Offset(t) /\ -Offset(t) < 12 * k + 12
      BY <1>0
    <3> QED
      BY <1>0, <3>1
  <2>2. CASE local + 12 * k >= zone.start
    <3>1. Offset(local + 12 * k) = Offset(t)
      BY <1>0, <1>4, <2>1, <2>2 DEF Offset
    <3> QED
      BY <3>1
  <2>3. CASE local + 12 * k < zone.start
    <3>1. local + 12 * (k + 1) >= zone.start /\ local + 12 * (k + 1) < zone.end
      BY <1>0, <1>4, <2>1, <2>3
    <3>2. Offset(local + 12 * (k + 1)) = Offset(t)
      BY <1>0, <1>4, <3>1 DEF Offset
    <3>3. k + 1 \in -12 .. 12
      OBVIOUS
    <3> QED
      BY <3>2, <3>3
  <2> QED
    BY <1>0, <2>2, <2>3
<1> QED
  BY <1>0, <1>2, <1>3, <1>4

\* An instant that shows the time is among its matches.
LEMMA Found ==
    ASSUME ZoneStays, NEW local \in Int, NEW t \in Int, Shown(t) = local
    PROVE  t \in Matches(local)
<1>1. Offset(t) \in OffsetsAround(local)
  BY Sampled
<1>2. t = local - Offset(t)
  BY OffsetType DEF Shown, West, East, Hour
<1> QED
  BY <1>1, <1>2 DEF Matches

\* The matches are exactly the instants that show the time.
LEMMA MatchesAre ==
    ASSUME ZoneStays, NEW local \in Int
    PROVE  Matches(local) = {t \in Possible(local) : Shown(t) = local}
<1>1. \A t \in Possible(local) : t \in Int
  BY DEF Possible, West, East, Hour
<1> QED
  BY <1>1, MatchesShow, Found

\* It holds initially.
LEMMA InitTimesInv == InitTimes => TimesInv
<1> SUFFICES ASSUME InitTimes PROVE TimesInv
  OBVIOUS
<1>1. ZoneStays
  BY DEF InitTimes, ZoneStays
<1>2. TimesTypeOK
  BY <1>1 DEF InitTimes, TimesTypeOK, ZoneStays, Answers, Outcomes
<1>3. ScheduledAsAsked
  BY DEF InitTimes, ScheduledAsAsked
<1> QED
  BY <1>1, <1>2, <1>3 DEF TimesInv

\* The answer to a request keeps the invariant (resolveSchedule).
LEMMA ScheduleStep ==
    ASSUME TimesInv, NEW local \in Int, Schedule(local)
    PROVE  TimesInv'
<1> DEFINE m == Matches(local)
           t == CHOOSE u \in m : TRUE
<1>1. ZoneStays /\ zone' = zone /\ now' = now
  BY DEF TimesInv, Schedule
<1>2. m = {u \in Possible(local) : Shown(u) = local}
  BY <1>1, MatchesAre
<1>3. \A u : Shown(u)' = Shown(u)
  BY <1>1 DEF Shown, Offset
<1>4. answer' = Resolve(local)
  BY DEF Schedule
<1>5. Possible(local) \subseteq Int
  BY DEF Possible, West, East, Hour
<1>6. CASE m = {}
  <2>1. answer' = [local |-> local, outcome |-> "absent", at |-> 0]
    BY <1>4, <1>6 DEF Resolve
  <2>2. answer' \in Answers
    BY <2>1 DEF Answers, Outcomes
  <2>3. ScheduledAsAsked'
    BY <1>2, <1>3, <1>6, <2>1 DEF ScheduledAsAsked, Possible
  <2> QED
    BY <1>1, <2>2, <2>3 DEF TimesInv, ZoneStays, TimesTypeOK
<1>7. CASE m # {} /\ m # {t}
  <2>1. answer' = [local |-> local, outcome |-> "ambiguous", at |-> 0]
    BY <1>4, <1>7 DEF Resolve
  <2>2. answer' \in Answers
    BY <2>1 DEF Answers, Outcomes
  <2>3. t \in m
    BY <1>7
  <2>4. PICK u \in m : u # t
    BY <1>7, <2>3
  <2>5. ScheduledAsAsked'
    BY <1>2, <1>3, <2>1, <2>3, <2>4 DEF ScheduledAsAsked, Possible
  <2> QED
    BY <1>1, <2>2, <2>5 DEF TimesInv, ZoneStays, TimesTypeOK
<1>8. CASE m # {} /\ m = {t}
  <2>1. /\ answer'.local = local /\ answer'.at = t
        /\ answer'.outcome \in {"past", "scheduled"}
        /\ answer' \in [local : {local}, outcome : {"past", "scheduled"}, at : {t}]
    BY <1>4, <1>8 DEF Resolve
  <2>2. t \in Possible(local) /\ Shown(t) = local
    BY <1>2, <1>8
  <2>3. answer' \in Answers
    BY <1>5, <2>1, <2>2 DEF Answers, Outcomes
  <2>4. \A u \in Possible(local) : Shown(u) = local => u = t
    BY <1>2, <1>8
  <2>5. ScheduledAsAsked'
    BY <1>3, <2>1, <2>2, <2>4 DEF ScheduledAsAsked, Possible
  <2> QED
    BY <1>1, <2>3, <2>5 DEF TimesInv, ZoneStays, TimesTypeOK
<1> QED
  BY <1>6, <1>7, <1>8

\* TimesInv is inductive.
LEMMA NextTimesInv ==
    ASSUME TimesInv, [NextTimes]_timeVars
    PROVE  TimesInv'
<1>1. CASE \E local \in LocalTimes : Schedule(local)
  BY <1>1, TimesAssumption, ScheduleStep
<1>2. CASE TimePasses
  BY <1>2 DEF TimesInv, ZoneStays, TimesTypeOK, ScheduledAsAsked, TimePasses,
     Shown, Offset, Possible
<1>3. CASE UNCHANGED timeVars
  BY <1>3 DEF TimesInv, ZoneStays, TimesTypeOK, ScheduledAsAsked, timeVars, Shown, Offset, Possible
<1> QED
  BY <1>1, <1>2, <1>3 DEF NextTimes

\* The variables keep their types, and every stored instant is an integer.
THEOREM TimesTypeOKHolds == SpecTimes => []TimesTypeOK
<1>1. TimesInv => TimesTypeOK
  BY DEF TimesInv
<1> QED
  BY <1>1, InitTimesInv, NextTimesInv, PTL DEF SpecTimes

\* Whatever the zone, its two changes and the time, an interview is scheduled at the one
\* instant that shows the time, and refused only if there is none or more than one
\* (parseLocalSchedule).
THEOREM ScheduledAsAskedHolds == SpecTimes => []ScheduledAsAsked
<1>1. TimesInv => ScheduledAsAsked
  BY DEF TimesInv
<1> QED
  BY <1>1, InitTimesInv, NextTimesInv, PTL DEF SpecTimes

-----------------------------------------------------------------------------
(* The nine side by side *)

\* A step of the composition is a step of each of the nine or leaves it alone.
LEMMA SceneStep ==
    ASSUME [NextInScene]_all
    PROVE  /\ [Next]_accountVars /\ [NextTimes]_timeVars
           /\ [S!Next]_(S!staffVars) /\ [U!Next]_(U!usageVars) /\ [P!Next]_(P!payoutVars)
           /\ [C!Next]_(C!campaignVars) /\ [D!Next]_(D!deliveryVars)
           /\ [T!Next]_(T!conversationVars) /\ [F!Next]_(F!fileVars)
<1>2. /\ [Next]_accountVars /\ [NextTimes]_timeVars /\ [S!Next]_staff /\ [U!Next]_usage
      /\ [P!Next]_payouts /\ [C!Next]_campaigns /\ [D!Next]_deliveries /\ [T!Next]_talks
      /\ [F!Next]_files
  BY DEF NextInScene, all
<1>3. /\ UNCHANGED staff => UNCHANGED S!staffVars
      /\ UNCHANGED usage => UNCHANGED U!usageVars
      /\ UNCHANGED payouts => UNCHANGED P!payoutVars
      /\ UNCHANGED campaigns => UNCHANGED C!campaignVars
      /\ UNCHANGED deliveries => UNCHANGED D!deliveryVars
      /\ UNCHANGED talks => UNCHANGED T!conversationVars
      /\ UNCHANGED files => UNCHANGED F!fileVars
  BY DEF S!staffVars, staff, U!usageVars, usage, P!payoutVars, payouts, C!campaignVars, campaigns,
     D!deliveryVars, deliveries, T!conversationVars, talks, F!fileVars, files
<1> QED
  BY <1>2, <1>3

\* The composition implements each of its nine specifications.
THEOREM ScenesImplement ==
    SpecInScene => /\ Spec /\ SpecTimes /\ S!Spec /\ U!Spec /\ P!Spec
                   /\ C!Spec /\ D!Spec /\ T!Spec /\ F!Spec
<1>1. InitAll => /\ Init /\ InitTimes /\ S!Init /\ U!Init /\ P!Init
                 /\ C!Init /\ D!Init /\ T!Init /\ F!Init
  BY DEF InitAll
<1>2. [NextInScene]_all =>
        /\ [Next]_accountVars /\ [NextTimes]_timeVars
        /\ [S!Next]_(S!staffVars) /\ [U!Next]_(U!usageVars) /\ [P!Next]_(P!payoutVars)
        /\ [C!Next]_(C!campaignVars) /\ [D!Next]_(D!deliveryVars)
        /\ [T!Next]_(T!conversationVars) /\ [F!Next]_(F!fileVars)
  BY SceneStep
<1> QED
  BY <1>1, <1>2, PTL DEF SpecInScene, Spec, SpecTimes, S!Spec, U!Spec, P!Spec, C!Spec, D!Spec,
     T!Spec, F!Spec

\* So what is proved of its parts, the accounts and sessions among them, holds of the
\* composition, which is what the run checks.
THEOREM PropertiesHold ==
    SpecInScene =>
      /\ AcceptedWithLastToken /\ PermissionsAsAsked /\ AllowanceKept /\ PaysAsQuoted
      /\ InactiveUntilNewCode
      /\ [](/\ WorkingSessionsAreCurrent /\ EvaluatedOnce
           /\ CampaignIsWhole /\ SentOnce /\ StoredOnce /\ NamedFilesAreStored
           /\ ScheduledAsAsked)
BY ScenesImplement, AcceptedWithLastTokenHolds, PermissionsAsAskedHolds, AllowanceKeptHolds,
   PaysAsQuotedHolds, InactiveUntilNewCodeHolds, WorkingSessionsAreCurrentHolds,
   EvaluatedOnceHolds, CampaignIsWholeHolds, SentOnceHolds,
   StoredOnceHolds, NamedFilesAreStoredHolds, ScheduledAsAskedHolds, PTL

=============================================================================
