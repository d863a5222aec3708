---------------------------- MODULE Hiring_proofs ----------------------------
(***************************************************************************)
(* Proofs about Hiring, for any number of seekers, jobs, invitations and   *)
(* requests and any limit.                                                 *)
(*                                                                         *)
(* What an application checks stays so until it commits, because whoever   *)
(* could change it waits for one of the two row locks: only the holder of  *)
(* the seeker's lock adds an application of the seeker, and only a request *)
(* that finds the job's lock free changes the job.                         *)
(***************************************************************************)
EXTENDS Hiring, FiniteSetTheorems, SequenceTheorems, TLAPS

\* The seeker's row lock has one holder.
OneHolder ==
    \A q, r \in Requests, s \in Seekers : HoldsSeeker(q, s) /\ HoldsSeeker(r, s) => q = r

\* The job of a checked application or acceptance is still approved.
CheckedIsOpen ==
    \A r \in Requests :
        Applies(r) /\ req[r].pc = "checked" => job[req[r].job] = "APPROVED"

\* A checked application may still be created.
CheckedMayApply ==
    \A r \in Requests :
        req[r].op = "apply" /\ req[r].pc = "checked" =>
            /\ CanReapply(req[r].seeker, req[r].job)
            /\ Cardinality(Made(req[r].seeker)) < Limit

\* Parts of TypeOK.
InvitedIsSomebody ==
    \A i \in Invitations :
        invite[i].status # "none" => invite[i].seeker \in Seekers /\ invite[i].job \in Jobs
AcceptsARow ==
    \A r \in Requests : req[r].op = "accept" => invite[req[r].inv].status # "none"

\* No step makes an invitation unwritten.
RowsStay ==
    \A i \in Invitations : invite[i].status # "none" => invite'[i].status # "none"

IInv ==
    /\ TypeOK
    /\ OneHolder
    /\ CheckedIsOpen
    /\ CheckedMayApply
    /\ OneOpenApplication
    /\ MonthlyLimitKept

\* Steps that leave the applications and the job alone.
ReqStep(r) ==
    \/ \E j \in Jobs, op \in Edits : BeginEdit(r, j, op)
    \/ \E s \in Seekers, j \in Jobs : BeginApply(r, s, j)
    \/ \E i \in Invitations, s \in Seekers, j \in Jobs : BeginInvite(r, i, s, j)
    \/ LockSeeker(r)
    \/ LockJob(r)
    \/ CheckApplication(r)
    \/ FinishInvite(r)
    \/ \E i \in Invitations : BeginAccept(r, i)
    \/ CheckAcceptance(r)
    \/ Abort(r)

-----------------------------------------------------------------------------
(* Types *)

LEMMA InitTypeOK == Init => TypeOK
<1> SUFFICES ASSUME Init PROVE TypeOK
  OBVIOUS
<1>1. Uninvited \in Invitation /\ Idle \in Request /\ WellFormed(Idle)
  BY DEF Uninvited, Invitation, Idle, Request, WellFormed, Edits
<1>2. apps \in [Seekers -> [Jobs -> Seq(Application)]]
  <2>1. <<>> \in Seq(Application)
    OBVIOUS
  <2> QED
    BY <2>1 DEF Init
<1>3. \A i \in Invitations : invite[i].status = "none"
  BY DEF Init, Uninvited
<1>4. \A r \in Requests : req[r].op # "accept"
  BY DEF Init, Idle
<1> QED
  BY <1>1, <1>2, <1>3, <1>4 DEF Init, TypeOK

\* A request is replaced by one of its type, and nothing else changes its own.
LEMMA ReqTypeOK ==
    ASSUME TypeOK, NEW r \in Requests, NEW q \in Request, WellFormed(q),
           req' = [req EXCEPT ![r] = q],
           job' \in [Jobs -> JobStatuses \cup {"none"}], expired' \subseteq Jobs,
           apps' \in [Seekers -> [Jobs -> Seq(Application)]],
           invite' \in [Invitations -> Invitation], InvitedIsSomebody', RowsStay,
           q.op = "accept" => invite'[q.inv].status # "none"
    PROVE  TypeOK'
<1>1. req' \in [Requests -> Request]
  BY DEF TypeOK
<1>2. ASSUME NEW k \in Requests PROVE WellFormed(req'[k])
  BY DEF TypeOK
<1>3. \A k \in Requests : WellFormed(req[k])'
  BY <1>2 DEF WellFormed
<1>4. ASSUME NEW k \in Requests, req'[k].op = "accept"
      PROVE  invite'[req'[k].inv].status # "none"
  <2>1. CASE k = r
    BY <1>4, <2>1 DEF TypeOK
  <2>2. CASE k # r
    <3>1. req'[k] = req[k] /\ req[k].inv \in Invitations
      BY <1>4, <2>2 DEF TypeOK, WellFormed
    <3> QED
      BY <1>4, <3>1 DEF TypeOK, RowsStay
  <2> QED
    BY <2>1, <2>2
<1>5. AcceptsARow'
  BY <1>4 DEF AcceptsARow
<1> QED
  BY <1>1, <1>3, <1>5 DEF TypeOK, InvitedIsSomebody, AcceptsARow

\* The same for a step that leaves the invitations alone.
LEMMA ReqOnlyTypeOK ==
    ASSUME TypeOK, NEW r \in Requests, NEW q \in Request, WellFormed(q),
           req' = [req EXCEPT ![r] = q],
           job' \in [Jobs -> JobStatuses \cup {"none"}], expired' \subseteq Jobs,
           apps' \in [Seekers -> [Jobs -> Seq(Application)]],
           invite' = invite,
           q.op = "accept" => invite[q.inv].status # "none"
    PROVE  TypeOK'
<1>1. invite' \in [Invitations -> Invitation] /\ InvitedIsSomebody' /\ RowsStay
  BY DEF TypeOK, InvitedIsSomebody, RowsStay
<1> QED
  BY <1>1, ReqTypeOK

LEMMA IdleType == Idle \in Request /\ WellFormed(Idle) /\ Idle.op # "accept"
  BY DEF Idle, Request, WellFormed, Edits

\* What a request may become.
LEMMA RequestTypes ==
    /\ \A j \in Jobs, op \in Edits, w \in JobStatuses :
          LET q == [Idle EXCEPT !.op = op, !.pc = "read", !.job = j, !.saw = w]
          IN  q \in Request /\ WellFormed(q) /\ q.op # "accept"
    /\ \A s \in Seekers, j \in Jobs :
          LET q == [Idle EXCEPT !.op = "apply", !.pc = "read", !.seeker = s, !.job = j]
          IN  q \in Request /\ WellFormed(q) /\ q.op # "accept"
    /\ \A s \in Seekers, j \in Jobs, i \in Invitations, op \in {"invite", "accept"} :
          LET q == [op |-> op, pc |-> "read", seeker |-> s, job |-> j, inv |-> i,
                    saw |-> "none"]
          IN  q \in Request /\ WellFormed(q)
<1>1. ASSUME NEW j \in Jobs, NEW op \in Edits, NEW w \in JobStatuses
      PROVE  LET q == [Idle EXCEPT !.op = op, !.pc = "read", !.job = j, !.saw = w]
             IN  q \in Request /\ WellFormed(q) /\ q.op # "accept"
  BY DEF Idle, Request, WellFormed, Edits, JobStatuses
<1>2. ASSUME NEW s \in Seekers, NEW j \in Jobs
      PROVE  LET q == [Idle EXCEPT !.op = "apply", !.pc = "read", !.seeker = s, !.job = j]
             IN  q \in Request /\ WellFormed(q) /\ q.op # "accept"
  BY DEF Idle, Request, WellFormed, Edits, JobStatuses
<1>3. ASSUME NEW s \in Seekers, NEW j \in Jobs, NEW i \in Invitations,
             NEW op \in {"invite", "accept"}
      PROVE  LET q == [op |-> op, pc |-> "read", seeker |-> s, job |-> j, inv |-> i,
                       saw |-> "none"]
             IN  q \in Request /\ WellFormed(q)
  BY DEF Request, WellFormed, Edits, JobStatuses
<1> QED
  BY <1>1, <1>2, <1>3

\* The pc of an application or acceptance moves on.
LEMMA Moved ==
    ASSUME TypeOK, NEW r \in Requests, Applies(r),
           NEW p \in {"seeker", "job", "checked"}
    PROVE  LET q == [req[r] EXCEPT !.pc = p]
           IN  /\ q \in Request /\ WellFormed(q)
               /\ q.op = "accept" => invite[q.inv].status # "none"
<1>1. req[r] \in Request /\ WellFormed(req[r])
  BY DEF TypeOK
<1> QED
  BY <1>1 DEF Applies, Request, WellFormed, Edits, TypeOK

LEMMA Appended ==
    ASSUME TypeOK, NEW s \in Seekers, NEW j \in Jobs, NEW direct \in BOOLEAN,
           Applied(s, j, direct)
    PROVE  /\ apps' \in [Seekers -> [Jobs -> Seq(Application)]]
           /\ apps'[s][j] = Append(apps[s][j], [void |-> FALSE, direct |-> direct])
           /\ \A t \in Seekers, k \in Jobs : t # s \/ k # j => apps'[t][k] = apps[t][k]
<1>1. apps[s][j] \in Seq(Application) /\ [void |-> FALSE, direct |-> direct] \in Application
  BY DEF TypeOK, Application
<1>2. Append(apps[s][j], [void |-> FALSE, direct |-> direct]) \in Seq(Application)
  BY <1>1
<1> QED
  BY <1>2 DEF TypeOK, Applied

LEMMA CommitTypes ==
    ASSUME TypeOK, NEW r \in Requests, CommitAcceptance(r)
    PROVE  /\ apps' \in [Seekers -> [Jobs -> Seq(Application)]]
           /\ invite' \in [Invitations -> Invitation]
           /\ InvitedIsSomebody' /\ RowsStay
<1> DEFINE q == req[r]
           n == Len(apps[q.seeker][q.job])
           new == CanReapply(q.seeker, q.job)
           linked == IF new THEN n + 1 ELSE n
<1>1. q.op = "accept" /\ q.seeker \in Seekers /\ q.job \in Jobs /\ q.inv \in Invitations
  BY DEF CommitAcceptance, TypeOK, WellFormed
<1>2. apps[q.seeker][q.job] \in Seq(Application)
  BY <1>1 DEF TypeOK
<1>3. n \in Nat /\ linked \in Nat
  BY <1>2
<1>4. apps' = apps \/ Applied(q.seeker, q.job, FALSE)
  BY DEF CommitAcceptance
<1>5. \/ invite' = invite
      \/ invite' = [invite EXCEPT ![q.inv].status = "ACCEPTED", ![q.inv].app = linked]
  BY DEF CommitAcceptance
<1>6. apps' \in [Seekers -> [Jobs -> Seq(Application)]]
  BY <1>1, <1>4, Appended DEF TypeOK
<1>7. \/ invite' = invite
      \/ invite' = [invite EXCEPT ![q.inv] =
                      [invite[q.inv] EXCEPT !.status = "ACCEPTED", !.app = linked]]
  BY <1>1, <1>5 DEF TypeOK, Invitation
<1>8. /\ invite[q.inv] \in Invitation
      /\ invite[q.inv].seeker \in Seekers /\ invite[q.inv].job \in Jobs
  BY <1>1 DEF TypeOK
<1> DEFINE i1 == [invite[q.inv] EXCEPT !.status = "ACCEPTED", !.app = linked]
<1>9. i1 \in Invitation /\ i1.status # "none" /\ i1.seeker \in Seekers /\ i1.job \in Jobs
  BY <1>3, <1>8 DEF Invitation
<1> HIDE DEF i1
<1>10. invite' \in [Invitations -> Invitation] /\ InvitedIsSomebody' /\ RowsStay
  BY <1>1, <1>7, <1>9 DEF TypeOK, InvitedIsSomebody, RowsStay, i1
<1> QED
  BY <1>6, <1>10

LEMMA TypeKept ==
    ASSUME TypeOK, [Next]_vars
    PROVE  TypeOK'
<1>1. ASSUME NEW j \in Jobs, PostJob(j) \/ PostedByAdmin(j) \/ CloseJob(j) \/ ReachDeadline(j)
      PROVE  TypeOK'
  BY <1>1 DEF TypeOK, PostJob, PostedByAdmin, CloseJob, ReachDeadline, JobStatuses, WellFormed
<1>2. ASSUME NEW j \in Jobs, NEW s \in Seekers, ContractIsCancelled(s, j) PROVE TypeOK'
  <2> DEFINE n == Len(apps[s][j])
  <2>1. apps[s][j] \in Seq(Application) /\ n \in 1 .. n
    BY <1>2 DEF ContractIsCancelled, TypeOK
  <2>2. [apps[s][j] EXCEPT ![n].void = TRUE] \in Seq(Application)
    <3>1. apps[s][j][n] \in Application
      BY <2>1
    <3>2. [apps[s][j][n] EXCEPT !.void = TRUE] \in Application
      BY <3>1 DEF Application
    <3> QED
      BY <2>1, <3>2, ExceptSeq
  <2>3. apps' \in [Seekers -> [Jobs -> Seq(Application)]]
    BY <1>2, <2>2 DEF ContractIsCancelled, TypeOK
  <2> QED
    BY <1>2, <2>3 DEF ContractIsCancelled, TypeOK, WellFormed
<1>3. ASSUME NEW i \in Invitations, Decline(i) PROVE TypeOK'
  BY <1>3 DEF TypeOK, Decline, Invitation, WellFormed
<1>4. ASSUME NEW r \in Requests, ReqStep(r) PROVE TypeOK'
  <2>1. ASSUME NEW j \in Jobs, NEW op \in Edits, BeginEdit(r, j, op) PROVE TypeOK'
    <3>1. job[j] \in JobStatuses
      BY <2>1 DEF BeginEdit, TypeOK
    <3> DEFINE q == [Idle EXCEPT !.op = op, !.pc = "read", !.job = j, !.saw = job[j]]
    <3>2. q \in Request /\ WellFormed(q) /\ q.op # "accept"
      BY <3>1, RequestTypes
    <3>3. /\ req' = [req EXCEPT ![r] = q]
          /\ UNCHANGED <<job, expired, apps, invite>>
      BY <2>1 DEF BeginEdit
    <3> HIDE DEF q
    <3> QED
      BY <3>2, <3>3, ReqOnlyTypeOK DEF TypeOK
  <2>2. ASSUME NEW s \in Seekers, NEW j \in Jobs, BeginApply(r, s, j) PROVE TypeOK'
    <3> DEFINE q == [Idle EXCEPT !.op = "apply", !.pc = "read", !.seeker = s, !.job = j]
    <3>1. q \in Request /\ WellFormed(q) /\ q.op # "accept"
      BY RequestTypes
    <3>2. /\ req' = [req EXCEPT ![r] = q]
          /\ UNCHANGED <<job, expired, apps, invite>>
      BY <2>2 DEF BeginApply
    <3> HIDE DEF q
    <3> QED
      BY <3>1, <3>2, ReqOnlyTypeOK DEF TypeOK
  <2>3. ASSUME NEW i \in Invitations, NEW s \in Seekers, NEW j \in Jobs,
               BeginInvite(r, i, s, j)
        PROVE  TypeOK'
    <3> DEFINE q == [op |-> "invite", pc |-> "read", seeker |-> s, job |-> j, inv |-> i,
                     saw |-> "none"]
    <3>1. q \in Request /\ WellFormed(q) /\ q.op # "accept"
      BY RequestTypes
    <3>2. /\ req' = [req EXCEPT ![r] = q]
          /\ UNCHANGED <<job, expired, apps, invite>>
      BY <2>3 DEF BeginInvite
    <3> HIDE DEF q
    <3> QED
      BY <3>1, <3>2, ReqOnlyTypeOK DEF TypeOK
  <2>4. ASSUME NEW i \in Invitations, BeginAccept(r, i) PROVE TypeOK'
    <3>1. PICK s \in Seekers \cup {None}, j \in Jobs \cup {None} :
             s = invite[i].seeker /\ j = invite[i].job
      BY DEF TypeOK, Invitation
    <3> DEFINE q == [op |-> "accept", pc |-> "read", seeker |-> s, job |-> j, inv |-> i,
                     saw |-> "none"]
    <3>2. /\ req' = [req EXCEPT ![r] = q]
          /\ UNCHANGED <<job, expired, apps, invite>>
      BY <2>4, <3>1 DEF BeginAccept
    <3>3. s \in Seekers /\ j \in Jobs
      BY <2>4, <3>1 DEF BeginAccept, Open, TypeOK
    <3>4. q \in Request /\ WellFormed(q)
      BY <3>3, RequestTypes
    <3>5. q.inv = i /\ invite[i].status # "none"
      BY <2>4 DEF BeginAccept
    <3> HIDE DEF q
    <3> QED
      BY <3>2, <3>4, <3>5, ReqOnlyTypeOK DEF TypeOK
  <2>5. ASSUME LockSeeker(r) \/ LockJob(r) \/ CheckApplication(r) \/ CheckAcceptance(r)
        PROVE  TypeOK'
    <3>1. PICK p \in {"seeker", "job", "checked"} :
            \/ Applies(r) /\ req' = [req EXCEPT ![r] = [req[r] EXCEPT !.pc = p]]
            \/ req' = [req EXCEPT ![r] = Idle]
      <4>1. CASE LockSeeker(r)
        <5>1. Applies(r) /\ req' = [req EXCEPT ![r] = [req[r] EXCEPT !.pc = "seeker"]]
          BY <4>1 DEF LockSeeker, TypeOK
        <5> QED
          BY <5>1
      <4>2. CASE LockJob(r)
        <5>1. Applies(r) /\ req' = [req EXCEPT ![r] = [req[r] EXCEPT !.pc = "job"]]
          BY <4>2 DEF LockJob, TypeOK
        <5> QED
          BY <5>1
      <4>3. CASE CheckApplication(r)
        BY <4>3 DEF CheckApplication, Applies
      <4>4. CASE CheckAcceptance(r)
        BY <4>4 DEF CheckAcceptance, Applies
      <4> QED
        BY <2>5, <4>1, <4>2, <4>3, <4>4
    <3>2. UNCHANGED <<job, expired, apps, invite>>
      BY <2>5 DEF LockSeeker, LockJob, CheckApplication, CheckAcceptance
    <3>3. PICK q \in Request : /\ WellFormed(q) /\ req' = [req EXCEPT ![r] = q]
                               /\ q.op = "accept" => invite[q.inv].status # "none"
      BY <3>1, Moved, IdleType
    <3> QED
      BY <3>2, <3>3, ReqOnlyTypeOK DEF TypeOK
  <2>6. ASSUME FinishInvite(r) PROVE TypeOK'
    <3>1. req[r].inv \in Invitations /\ req[r].seeker \in Seekers /\ req[r].job \in Jobs
      BY <2>6 DEF FinishInvite, TypeOK, WellFormed
    <3> DEFINE w == [status |-> "PENDING", seeker |-> req[r].seeker, job |-> req[r].job,
                     app |-> 0]
    <3>2. w \in Invitation /\ w.status # "none" /\ w.seeker \in Seekers /\ w.job \in Jobs
      BY <3>1 DEF Invitation
    <3>3. invite' \in [Invitations -> Invitation] /\ InvitedIsSomebody' /\ RowsStay
      <4>1. \/ invite' = invite
            \/ invite' = [invite EXCEPT ![req[r].inv] = w]
        BY <2>6 DEF FinishInvite
      <4> HIDE DEF w
      <4> QED
        BY <3>1, <3>2, <4>1 DEF TypeOK, InvitedIsSomebody, RowsStay
    <3>4. req' = [req EXCEPT ![r] = Idle] /\ UNCHANGED <<job, expired, apps>>
      BY <2>6 DEF FinishInvite
    <3> QED
      BY <3>3, <3>4, IdleType, ReqTypeOK DEF TypeOK
  <2>7. ASSUME Abort(r) PROVE TypeOK'
    BY <2>7, IdleType, ReqOnlyTypeOK DEF Abort, TypeOK
  <2> QED
    BY <1>4, <2>1, <2>2, <2>3, <2>4, <2>5, <2>6, <2>7 DEF ReqStep
<1>5. ASSUME NEW r \in Requests, FinishEdit(r) PROVE TypeOK'
  <2>1. req[r].job \in Jobs /\ req[r].op \in Edits /\ req[r].saw \in JobStatuses
    BY <1>5 DEF FinishEdit, TypeOK, WellFormed
  <2>2. Written(req[r].op, req[r].saw) \in JobStatuses
    BY <2>1 DEF Written, Edits, JobStatuses
  <2>3. /\ job' \in [Jobs -> JobStatuses \cup {"none"}]
        /\ expired' \subseteq Jobs
        /\ req' = [req EXCEPT ![r] = Idle]
        /\ UNCHANGED <<apps, invite>>
    BY <1>5, <2>1, <2>2 DEF FinishEdit, TypeOK
  <2> QED
    BY <2>3, IdleType, ReqOnlyTypeOK DEF TypeOK
<1>6. ASSUME NEW r \in Requests, CreateApplication(r) PROVE TypeOK'
  <2>1. req[r].seeker \in Seekers /\ req[r].job \in Jobs
    BY <1>6 DEF CreateApplication, TypeOK, WellFormed
  <2>2. apps' \in [Seekers -> [Jobs -> Seq(Application)]]
    BY <1>6, <2>1, Appended DEF CreateApplication
  <2> QED
    BY <1>6, <2>2, IdleType, ReqOnlyTypeOK DEF CreateApplication, TypeOK
<1>7. ASSUME NEW r \in Requests, CommitAcceptance(r) PROVE TypeOK'
  BY <1>7, CommitTypes, IdleType, ReqTypeOK DEF CommitAcceptance, TypeOK
<1>8. CASE UNCHANGED vars
  BY <1>8 DEF vars, TypeOK, WellFormed
<1> QED
  BY <1>1, <1>2, <1>3, <1>4, <1>5, <1>6, <1>7, <1>8
  DEF Next, JobStep, RequestStep, ReqStep

-----------------------------------------------------------------------------
(* Locks *)

\* Only LockSeeker puts a request past the seeker's lock that was not.
LEMMA OneHolderKept ==
    ASSUME TypeOK, OneHolder, Next
    PROVE  OneHolder'
<1>1. CASE \E r \in Requests : LockSeeker(r)
  <2>1. PICK r \in Requests : LockSeeker(r)
    BY <1>1
  <2>2. req' = [req EXCEPT ![r] = [req[r] EXCEPT !.pc = "seeker"]]
    BY <2>1 DEF LockSeeker, TypeOK
  <2>3. req[r].seeker \in Seekers \cup {None} /\ SeekerFree(req[r].seeker)
    BY <2>1 DEF LockSeeker, TypeOK, Request
  <2>4. ASSUME NEW k \in Requests, NEW s \in Seekers, HoldsSeeker(k, s)'
        PROVE  \/ k # r /\ HoldsSeeker(k, s) /\ s # req[r].seeker
               \/ k = r /\ s = req[r].seeker
    <3>1. CASE k = r
      BY <2>2, <2>4, <3>1 DEF TypeOK, Request, HoldsSeeker, Applies
    <3>2. CASE k # r
      <4>1. req'[k] = req[k]
        BY <2>2, <3>2 DEF TypeOK
      <4>2. HoldsSeeker(k, s)
        BY <2>4, <4>1 DEF HoldsSeeker, Applies
      <4> QED
        BY <2>3, <3>2, <4>2 DEF SeekerFree
    <3> QED
      BY <3>1, <3>2
  <2> QED
    BY <2>4 DEF OneHolder
<1>2. CASE ~\E r \in Requests : LockSeeker(r)
  <2>1. ASSUME NEW k \in Requests, NEW s \in Seekers, HoldsSeeker(k, s)'
        PROVE  HoldsSeeker(k, s)
    <3>1. CASE req' = req
      BY <2>1, <3>1 DEF HoldsSeeker, Applies
    <3>2. CASE req' # req
      <4>1. PICK r \in Requests : RequestStep(r)
        BY <3>2 DEF Next, JobStep, PostJob, PostedByAdmin, CloseJob, ReachDeadline,
                    ContractIsCancelled, Decline
      <4>2. \A h \in Requests \ {r} : req'[h] = req[h]
        BY <4>1 DEF RequestStep, BeginEdit, BeginApply, BeginInvite, FinishEdit, LockSeeker,
                    LockJob, CheckApplication, CreateApplication, FinishInvite, BeginAccept,
                    CheckAcceptance, CommitAcceptance, Abort, TypeOK
      <4>3. CASE k # r
        BY <2>1, <4>2, <4>3 DEF HoldsSeeker, Applies
      <4>4. CASE k = r
        <5>1. \/ req'[r].pc \in {"idle", "read"}
              \/ /\ Applies(r) /\ req[r].pc \in {"seeker", "job"}
                 /\ req'[r].seeker = req[r].seeker
          <6>1. CASE LockJob(r) \/ CheckApplication(r) \/ CheckAcceptance(r)
            BY <6>1 DEF LockJob, CheckApplication, CheckAcceptance, TypeOK, Idle, Request, Applies
          <6>2. CASE \/ FinishEdit(r) \/ CreateApplication(r) \/ FinishInvite(r)
                     \/ CommitAcceptance(r) \/ Abort(r)
            <7>1. req' = [req EXCEPT ![r] = Idle]
              BY <6>2, Zenon DEF FinishEdit, CreateApplication, FinishInvite,
                                 CommitAcceptance, Abort
            <7> QED
              BY <7>1 DEF TypeOK, Idle
          <6>3. CASE \/ \E j \in Jobs, op \in Edits : BeginEdit(r, j, op)
                     \/ \E s1 \in Seekers, j \in Jobs : BeginApply(r, s1, j)
                     \/ \E i \in Invitations, s1 \in Seekers, j \in Jobs :
                          BeginInvite(r, i, s1, j)
                     \/ \E i \in Invitations : BeginAccept(r, i)
            <7>1. req'[r].pc = "read"
              <8>1. CASE \E j \in Jobs, op \in Edits : BeginEdit(r, j, op)
                BY <8>1 DEF BeginEdit, Idle, TypeOK
              <8>2. CASE \E s1 \in Seekers, j \in Jobs : BeginApply(r, s1, j)
                BY <8>2 DEF BeginApply, Idle, TypeOK
              <8>3. CASE \E i \in Invitations, s1 \in Seekers, j \in Jobs :
                           BeginInvite(r, i, s1, j)
                BY <8>3 DEF BeginInvite, TypeOK
              <8>4. CASE \E i \in Invitations : BeginAccept(r, i)
                BY <8>4 DEF BeginAccept, TypeOK
              <8> QED
                BY <6>3, <8>1, <8>2, <8>3, <8>4
            <7> QED
              BY <7>1
          <6> QED
            BY <1>2, <4>1, <6>1, <6>2, <6>3 DEF RequestStep
        <5> QED
          BY <2>1, <4>4, <5>1 DEF HoldsSeeker
      <4> QED
        BY <4>3, <4>4
    <3> QED
      BY <3>1, <3>2
  <2> QED
    BY <2>1 DEF OneHolder
<1> QED
  BY <1>1, <1>2

\* Who is checked was so before, or passes its check in this step.
LEMMA CheckedBefore ==
    ASSUME TypeOK, Next, NEW k \in Requests, Applies(k)', req'[k].pc = "checked"
    PROVE  \/ req'[k] = req[k]
           \/ /\ Applies(k) /\ Open(req[k].job)
              /\ req'[k] = [req[k] EXCEPT !.pc = "checked"]
              /\ UNCHANGED <<job, expired, apps, invite>>
              /\ req[k].op = "apply" => MayApply(req[k].seeker, req[k].job)
<1>1. CASE req' = req
  BY <1>1
<1>2. CASE req' # req
  <2>1. PICK r \in Requests : RequestStep(r)
    BY <1>2 DEF Next, JobStep, PostJob, PostedByAdmin, CloseJob, ReachDeadline,
                ContractIsCancelled, Decline
  <2>2. CASE k # r
    <3>1. req'[k] = req[k]
      BY <2>1, <2>2 DEF RequestStep, BeginEdit, BeginApply, BeginInvite, FinishEdit, LockSeeker,
         LockJob, CheckApplication, CreateApplication, FinishInvite, BeginAccept,
         CheckAcceptance, CommitAcceptance, Abort, TypeOK
    <3> QED
      BY <3>1
  <2>3. CASE k = r
    <3>1. CASE LockSeeker(r) \/ LockJob(r)
      <4>1. req[r] \in Request
        BY DEF TypeOK
      <4>2. req'[r].pc \in {"seeker", "job"}
        BY <3>1, <4>1 DEF LockSeeker, LockJob, TypeOK, Request
      <4> QED
        BY <2>3, <4>2
    <3>2. CASE \/ FinishEdit(r) \/ CreateApplication(r) \/ FinishInvite(r)
               \/ CommitAcceptance(r) \/ Abort(r)
      <4>1. req' = [req EXCEPT ![r] = Idle]
        BY <3>2, Zenon DEF FinishEdit, CreateApplication, FinishInvite,
                           CommitAcceptance, Abort
      <4> QED
        BY <2>3, <4>1 DEF TypeOK, Idle
    <3>3. CASE \E j \in Jobs, op \in Edits : BeginEdit(r, j, op)
      BY <2>3, <3>3 DEF BeginEdit, Idle, TypeOK
    <3>4. CASE \E s \in Seekers, j \in Jobs : BeginApply(r, s, j)
      BY <2>3, <3>4 DEF BeginApply, Idle, TypeOK
    <3>5. CASE \E i \in Invitations, s \in Seekers, j \in Jobs : BeginInvite(r, i, s, j)
      BY <2>3, <3>5 DEF BeginInvite, TypeOK
    <3>6. CASE \E i \in Invitations : BeginAccept(r, i)
      BY <2>3, <3>6 DEF BeginAccept, TypeOK
    <3>7. CASE CheckApplication(r)
      <4>1. req'[r] = IF MayApply(req[r].seeker, req[r].job)
                      THEN [req[r] EXCEPT !.pc = "checked"] ELSE Idle
        BY <3>7 DEF CheckApplication, TypeOK
      <4>2. MayApply(req[r].seeker, req[r].job)
        BY <2>3, <4>1 DEF Idle
      <4> QED
        BY <2>3, <3>7, <4>1, <4>2 DEF CheckApplication, MayApply, Applies
    <3>8. CASE CheckAcceptance(r)
      <4>1. req'[r] = IF Open(req[r].job)
                      THEN [req[r] EXCEPT !.pc = "checked"] ELSE Idle
        BY <3>8 DEF CheckAcceptance, TypeOK
      <4>2. Open(req[r].job)
        BY <2>3, <4>1 DEF Idle
      <4> QED
        BY <2>3, <3>8, <4>1, <4>2 DEF CheckAcceptance, Applies
    <3> QED
      BY <2>1, <3>1, <3>2, <3>3, <3>4, <3>5, <3>6, <3>7, <3>8 DEF RequestStep
  <2> QED
    BY <2>2, <2>3
<1> QED
  BY <1>1, <1>2

-----------------------------------------------------------------------------
(* The job *)

\* Whoever changes the status of an approved job finds its row lock free.
LEMMA JobWaits ==
    ASSUME TypeOK, Next, NEW j \in Jobs, job[j] = "APPROVED", ~JobFree(j)
    PROVE  job'[j] = "APPROVED"
<1>1. ASSUME NEW i \in Jobs, PostJob(i) \/ PostedByAdmin(i) \/ CloseJob(i)
      PROVE  job'[j] = "APPROVED"
  BY <1>1 DEF PostJob, PostedByAdmin, CloseJob, TypeOK
<1>2. ASSUME NEW r \in Requests, FinishEdit(r)
      PROVE  job'[j] = "APPROVED"
  BY <1>2 DEF FinishEdit, TypeOK
<1>3. CASE job' = job
  BY <1>3
<1> QED
  BY <1>1, <1>2, <1>3
  DEF Next, JobStep, ReachDeadline, ContractIsCancelled, Decline, RequestStep, BeginEdit,
      BeginApply, BeginInvite, LockSeeker, LockJob, CheckApplication, CreateApplication,
      FinishInvite, BeginAccept, CheckAcceptance, CommitAcceptance, Abort

LEMMA CheckedIsOpenKept ==
    ASSUME TypeOK, CheckedIsOpen, Next
    PROVE  CheckedIsOpen'
<1>1. ASSUME NEW k \in Requests, Applies(k)', req'[k].pc = "checked"
      PROVE  job'[req'[k].job] = "APPROVED"
  <2>1. CASE req'[k] = req[k]
    <3>1. Applies(k) /\ req[k].pc = "checked" /\ req[k].job \in Jobs
      BY <1>1, <2>1 DEF Applies, TypeOK, WellFormed
    <3>2. job[req[k].job] = "APPROVED" /\ ~JobFree(req[k].job)
      BY <3>1 DEF CheckedIsOpen, JobFree, HoldsJob
    <3> QED
      BY <2>1, <3>1, <3>2, JobWaits
  <2>2. CASE req'[k] # req[k]
    <3>1. Open(req[k].job) /\ req'[k].job = req[k].job /\ job' = job
      <4>1. req[k] \in Request
        BY DEF TypeOK
      <4>2. /\ Open(req[k].job) /\ req'[k] = [req[k] EXCEPT !.pc = "checked"]
            /\ job' = job
        BY <1>1, <2>2, CheckedBefore
      <4> QED
        BY <4>1, <4>2 DEF Request
    <3> QED
      BY <3>1 DEF Open
  <2> QED
    BY <2>1, <2>2
<1> QED
  BY <1>1 DEF CheckedIsOpen

-----------------------------------------------------------------------------
(* The applications *)

\* What becomes of the applications in a step.
LEMMA AppsStep ==
    ASSUME Next
    PROVE  \/ apps' = apps
           \/ \E s \in Seekers, j \in Jobs : ContractIsCancelled(s, j)
           \/ \E r \in Requests : CreateApplication(r)
           \/ \E r \in Requests :
                /\ CommitAcceptance(r)
                /\ CanReapply(req[r].seeker, req[r].job)
                /\ Applied(req[r].seeker, req[r].job, FALSE)
<1>1. ASSUME NEW r \in Requests, CommitAcceptance(r)
      PROVE  \/ apps' = apps
             \/ CanReapply(req[r].seeker, req[r].job) /\ Applied(req[r].seeker, req[r].job, FALSE)
  BY <1>1 DEF CommitAcceptance
<1> QED
  BY <1>1
  DEF Next, JobStep, PostJob, PostedByAdmin, CloseJob, ReachDeadline, Decline, RequestStep,
      BeginEdit, BeginApply, BeginInvite, FinishEdit, LockSeeker, LockJob, CheckApplication,
      FinishInvite, BeginAccept, CheckAcceptance, Abort

LEMMA Voided ==
    ASSUME TypeOK, NEW s \in Seekers, NEW j \in Jobs, ContractIsCancelled(s, j),
           NEW t \in Seekers, NEW k \in Jobs
    PROVE  /\ Len(apps'[t][k]) = Len(apps[t][k])
           /\ \A n \in 1 .. Len(apps[t][k]) :
                /\ apps'[t][k][n].direct = apps[t][k][n].direct
                /\ apps[t][k][n].void => apps'[t][k][n].void
<1> DEFINE l == Len(apps[s][j])
<1>1. apps[s][j] \in Seq(Application) /\ apps[t][k] \in Seq(Application) /\ l \in 1 .. l
  BY DEF ContractIsCancelled, TypeOK
<1>2. apps[s][j][l] \in Application
  BY <1>1
<1>3. apps' = [apps EXCEPT ![s] = [apps[s] EXCEPT ![j] =
                [apps[s][j] EXCEPT ![l] = [apps[s][j][l] EXCEPT !.void = TRUE]]]]
  BY DEF ContractIsCancelled, TypeOK
<1>4. CASE t = s /\ k = j
  <2>1. apps'[t][k] = [apps[s][j] EXCEPT ![l] = [apps[s][j][l] EXCEPT !.void = TRUE]]
    BY <1>3, <1>4 DEF TypeOK
  <2>2. Len(apps'[t][k]) = l
    BY <1>1, <2>1
  <2>3. ASSUME NEW n \in 1 .. l
        PROVE  /\ apps'[t][k][n].direct = apps[t][k][n].direct
               /\ apps[t][k][n].void => apps'[t][k][n].void
    BY <1>1, <1>2, <1>4, <2>1, <2>3 DEF Application
  <2> QED
    BY <1>4, <2>2, <2>3
<1>5. CASE ~(t = s /\ k = j)
  <2>1. apps'[t][k] = apps[t][k]
    BY <1>3, <1>5 DEF TypeOK
  <2> QED
    BY <2>1
<1> QED
  BY <1>4, <1>5

\* The applications of the holder of the seeker's lock grow by nobody else's request.
LEMMA OnlyTheHolder ==
    ASSUME TypeOK, OneHolder, NEW s \in Seekers, NEW k \in Requests, HoldsSeeker(k, s),
           NEW r \in Requests, r # k, CreateApplication(r) \/ CommitAcceptance(r)
    PROVE  req[r].seeker \in Seekers /\ req[r].seeker # s
<1>1. HoldsSeeker(r, req[r].seeker) /\ req[r].seeker \in Seekers
  BY DEF CreateApplication, CommitAcceptance, HoldsSeeker, Applies, TypeOK, WellFormed
<1> QED
  BY <1>1 DEF OneHolder

\* As long as a seeker's lock is held, only its holder changes what counts.
LEMMA CountStays ==
    ASSUME TypeOK, OneHolder, Next, NEW s \in Seekers, NEW k \in Requests,
           HoldsSeeker(k, s), req'[k] = req[k], req[k].pc = "checked"
    PROVE  /\ Made(s)' = Made(s)
           /\ \A j \in Jobs : CanReapply(s, j) => CanReapply(s, j)'
<1>1. CASE apps'[s] = apps[s]
  BY <1>1 DEF Made, CanReapply
<1>2. ASSUME NEW t \in Seekers, NEW i \in Jobs, ContractIsCancelled(t, i)
      PROVE  /\ Made(s)' = Made(s)
             /\ \A j \in Jobs : CanReapply(s, j) => CanReapply(s, j)'
  <2>1. \A j \in Jobs : /\ Len(apps'[s][j]) = Len(apps[s][j])
                        /\ \A n \in 1 .. Len(apps[s][j]) :
                             apps[s][j][n].void => apps'[s][j][n].void
    BY <1>2, Voided
  <2> QED
    BY <2>1 DEF Made, CanReapply
<1>3. ASSUME NEW r \in Requests, CreateApplication(r)
      PROVE  apps'[s] = apps[s]
  <2>1. r # k
    BY <1>3 DEF CreateApplication, TypeOK, Idle
  <2>2. req[r].seeker \in Seekers /\ req[r].seeker # s
    BY <1>3, <2>1, OnlyTheHolder
  <2> QED
    BY <1>3, <2>2 DEF CreateApplication, Applied, TypeOK
<1>4. ASSUME NEW r \in Requests, CommitAcceptance(r), Applied(req[r].seeker, req[r].job, FALSE)
      PROVE  apps'[s] = apps[s]
  <2>1. r # k
    BY <1>4 DEF CommitAcceptance, TypeOK, Idle
  <2>2. req[r].seeker \in Seekers /\ req[r].seeker # s
    BY <1>4, <2>1, OnlyTheHolder
  <2> QED
    BY <1>4, <2>2 DEF Applied, TypeOK
<1> QED
  BY <1>1, <1>2, <1>3, <1>4, AppsStep

LEMMA CheckedMayApplyKept ==
    ASSUME TypeOK, OneHolder, CheckedMayApply, Next
    PROVE  CheckedMayApply'
<1>1. ASSUME NEW k \in Requests, req'[k].op = "apply", req'[k].pc = "checked",
             NEW s, NEW j, s = req'[k].seeker, j = req'[k].job
      PROVE  CanReapply(s, j)' /\ Cardinality(Made(s)') < Limit
  <2>1. CASE req'[k] = req[k]
    <3>1. HoldsSeeker(k, s) /\ s \in Seekers /\ j \in Jobs
      BY <1>1, <2>1 DEF HoldsSeeker, Applies, TypeOK, WellFormed
    <3>2. CanReapply(s, j) /\ Cardinality(Made(s)) < Limit
      BY <1>1, <2>1 DEF CheckedMayApply
    <3>3. Made(s)' = Made(s) /\ CanReapply(s, j)'
      BY <1>1, <2>1, <3>1, <3>2, CountStays
    <3> QED
      BY <3>2, <3>3
  <2>2. CASE req'[k] # req[k]
    <3>1. req[k] \in Request
      BY DEF TypeOK
    <3>2. /\ req'[k] = [req[k] EXCEPT !.pc = "checked"] /\ apps' = apps
          /\ req[k].op = "apply" => MayApply(req[k].seeker, req[k].job)
      BY <1>1, <2>2, CheckedBefore DEF Applies
    <3>3. req[k].op = "apply" /\ s = req[k].seeker /\ j = req[k].job
      BY <1>1, <3>1, <3>2 DEF Request
    <3>4. CanReapply(s, j) /\ Cardinality(Made(s)) < Limit
      BY <3>2, <3>3 DEF MayApply
    <3>5. Made(s)' = Made(s) /\ CanReapply(s, j)'
      BY <3>2, <3>4 DEF CanReapply, Made
    <3> QED
      BY <3>4, <3>5
  <2> QED
    BY <2>1, <2>2
<1>2. ASSUME NEW k \in Requests, req'[k].op = "apply", req'[k].pc = "checked"
      PROVE  /\ \A n \in 1 .. Len(apps'[req'[k].seeker][req'[k].job]) :
                   apps'[req'[k].seeker][req'[k].job][n].void
             /\ Cardinality({p \in Jobs \X (1 .. MaxTries) :
                              p[2] <= Len(apps'[req'[k].seeker][p[1]])}) < Limit
  BY <1>1, <1>2 DEF CanReapply, Made
<1> QED
  BY <1>2 DEF CheckedMayApply, CanReapply, Made

\* An application is added to those that are all over.
LEMMA OneOpenApplicationKept ==
    ASSUME TypeOK, CheckedMayApply, OneOpenApplication, Next
    PROVE  OneOpenApplication'
<1>1. CASE apps' = apps
  BY <1>1 DEF OneOpenApplication
<1>2. ASSUME NEW s \in Seekers, NEW j \in Jobs, ContractIsCancelled(s, j)
      PROVE  OneOpenApplication'
  <2>1. ASSUME NEW t \in Seekers, NEW k \in Jobs
        PROVE  /\ Len(apps'[t][k]) = Len(apps[t][k])
               /\ \A n \in 1 .. Len(apps[t][k]) : apps[t][k][n].void => apps'[t][k][n].void
    BY <1>2, Voided
  <2> QED
    BY <2>1 DEF OneOpenApplication
<1>3. ASSUME NEW s \in Seekers, NEW j \in Jobs, NEW direct \in BOOLEAN,
             Applied(s, j, direct), CanReapply(s, j)
      PROVE  OneOpenApplication'
  <2>1. ASSUME NEW t \in Seekers, NEW k \in Jobs,
               NEW m \in 1 .. Len(apps'[t][k]), NEW n \in 1 .. Len(apps'[t][k]), m < n
        PROVE  apps'[t][k][m].void
    <3>1. CASE t = s /\ k = j
      <4>1. apps[s][j] \in Seq(Application)
        BY DEF TypeOK
      <4>2. apps'[s][j] = Append(apps[s][j], [void |-> FALSE, direct |-> direct])
        BY <1>3, Appended
      <4>3. m \in 1 .. Len(apps[s][j]) /\ apps'[s][j][m] = apps[s][j][m]
        BY <2>1, <3>1, <4>1, <4>2
      <4> QED
        BY <1>3, <3>1, <4>3 DEF CanReapply
    <3>2. CASE ~(t = s /\ k = j)
      <4>1. apps'[t][k] = apps[t][k]
        BY <1>3, <3>2, Appended
      <4>2. m \in 1 .. Len(apps[t][k]) /\ n \in 1 .. Len(apps[t][k])
        BY <4>1
      <4> QED
        BY <2>1, <4>1, <4>2 DEF OneOpenApplication
    <3> QED
      BY <3>1, <3>2
  <2> QED
    BY <2>1 DEF OneOpenApplication
<1>4. ASSUME NEW r \in Requests, CreateApplication(r) PROVE OneOpenApplication'
  <2>1. /\ req[r].seeker \in Seekers /\ req[r].job \in Jobs
        /\ CanReapply(req[r].seeker, req[r].job)
        /\ Applied(req[r].seeker, req[r].job, TRUE)
    BY <1>4 DEF CreateApplication, CheckedMayApply, TypeOK, WellFormed
  <2> QED
    BY <1>3, <2>1
<1>5. ASSUME NEW r \in Requests, CommitAcceptance(r), CanReapply(req[r].seeker, req[r].job),
             Applied(req[r].seeker, req[r].job, FALSE)
      PROVE  OneOpenApplication'
  <2>1. req[r].seeker \in Seekers /\ req[r].job \in Jobs
    BY <1>5 DEF CommitAcceptance, TypeOK, WellFormed
  <2> QED
    BY <1>3, <1>5, <2>1
<1> QED
  BY <1>1, <1>2, <1>4, <1>5, AppsStep

-----------------------------------------------------------------------------
(* The limit *)

LEMMA MadeIsFinite ==
    ASSUME NEW s
    PROVE  /\ IsFiniteSet(Made(s)) /\ Cardinality(Made(s)) \in Nat
           /\ IsFiniteSet(MadeDirectly(s))
           /\ Cardinality(MadeDirectly(s)) <= Cardinality(Made(s))
<1>1. IsFiniteSet(1 .. MaxTries)
  BY HiringAssumption, FS_Interval
<1>2. IsFiniteSet(Jobs \X (1 .. MaxTries))
  BY HiringAssumption, <1>1, FS_Product
<1>3. Made(s) \subseteq Jobs \X (1 .. MaxTries) /\ MadeDirectly(s) \subseteq Made(s)
  BY DEF Made, MadeDirectly
<1>4. IsFiniteSet(Made(s))
  BY <1>2, <1>3, FS_Subset
<1> QED
  BY <1>3, <1>4, FS_Subset, FS_CardinalityType

\* A step that adds no direct application keeps the limit.
LEMMA NoneAdded ==
    ASSUME MonthlyLimitKept, \A s \in Seekers : MadeDirectly(s)' \subseteq MadeDirectly(s)
    PROVE  MonthlyLimitKept'
<1>1. ASSUME NEW s \in Seekers PROVE Cardinality(MadeDirectly(s)') <= Limit
  <2>1. MadeDirectly(s)' \subseteq MadeDirectly(s) /\ IsFiniteSet(MadeDirectly(s))
    BY MadeIsFinite
  <2>2. /\ Cardinality(MadeDirectly(s)') <= Cardinality(MadeDirectly(s))
        /\ Cardinality(MadeDirectly(s)') \in Nat /\ Cardinality(MadeDirectly(s)) \in Nat
    BY <2>1, FS_Subset, FS_CardinalityType
  <2> QED
    BY <2>2, HiringAssumption DEF MonthlyLimitKept
<1> QED
  BY <1>1 DEF MonthlyLimitKept

\* The direct applications of a seeker after an application is added.
LEMMA AddedDirectly ==
    ASSUME TypeOK, NEW s \in Seekers, NEW j \in Jobs, NEW direct \in BOOLEAN,
           Applied(s, j, direct), NEW t \in Seekers
    PROVE  MadeDirectly(t)' \subseteq
             IF t = s /\ direct
             THEN MadeDirectly(t) \cup {<<j, Len(apps[s][j]) + 1>>} ELSE MadeDirectly(t)
<1>1. \A k \in Jobs : apps[t][k] \in Seq(Application)
  BY DEF TypeOK
<1>2. apps'[s][j] = Append(apps[s][j], [void |-> FALSE, direct |-> direct])
  BY Appended
<1>3. ASSUME NEW k \in Jobs, NEW n \in 1 .. MaxTries,
             n <= Len(apps'[t][k]), apps'[t][k][n].direct
      PROVE  \/ n <= Len(apps[t][k]) /\ apps[t][k][n].direct
             \/ t = s /\ k = j /\ n = Len(apps[s][j]) + 1 /\ direct
  <2>0. n \in Nat /\ 1 <= n
    BY HiringAssumption
  <2>1. CASE t = s /\ k = j
    <3>1. CASE n <= Len(apps[s][j])
      <4>1. apps'[s][j][n] = apps[s][j][n]
        BY <1>1, <1>2, <2>0, <2>1, <3>1
      <4> QED
        BY <1>3, <2>1, <3>1, <4>1
    <3>2. CASE ~(n <= Len(apps[s][j]))
      <4>1. n = Len(apps[s][j]) + 1
        BY <1>1, <1>2, <1>3, <2>0, <2>1, <3>2
      <4>2. apps'[s][j][n] = [void |-> FALSE, direct |-> direct]
        BY <1>1, <1>2, <2>1, <4>1
      <4> QED
        BY <1>3, <2>1, <4>1, <4>2
    <3> QED
      BY <3>1, <3>2
  <2>2. CASE ~(t = s /\ k = j)
    <3>1. apps'[t][k] = apps[t][k]
      BY <2>2, Appended
    <3> QED
      BY <1>3, <3>1
  <2> QED
    BY <2>1, <2>2
<1> QED
  BY <1>3 DEF MadeDirectly, Made

LEMMA MonthlyLimitKeptKept ==
    ASSUME TypeOK, CheckedMayApply, MonthlyLimitKept, Next
    PROVE  MonthlyLimitKept'
<1>1. CASE apps' = apps
  BY <1>1 DEF MonthlyLimitKept, MadeDirectly, Made
<1>2. ASSUME NEW s \in Seekers, NEW j \in Jobs, ContractIsCancelled(s, j)
      PROVE  MonthlyLimitKept'
  <2>1. ASSUME NEW t \in Seekers, NEW k \in Jobs
        PROVE  /\ Len(apps'[t][k]) = Len(apps[t][k]) /\ Len(apps[t][k]) \in Nat
               /\ \A n \in 1 .. Len(apps[t][k]) :
                    apps'[t][k][n].direct = apps[t][k][n].direct
    BY <1>2, Voided DEF TypeOK
  <2>2. \A t \in Seekers : MadeDirectly(t)' \subseteq MadeDirectly(t)
    BY <2>1, HiringAssumption DEF MadeDirectly, Made
  <2> QED
    BY <2>2, NoneAdded
<1>3. ASSUME NEW r \in Requests, CreateApplication(r) PROVE MonthlyLimitKept'
  <2>1. PICK s \in Seekers, j \in Jobs : Applied(s, j, TRUE) /\ Cardinality(Made(s)) < Limit
    BY <1>3 DEF CreateApplication, CheckedMayApply, TypeOK, WellFormed
  <2>0. PICK new : new = <<j, Len(apps[s][j]) + 1>>
    OBVIOUS
  <2>2. ASSUME NEW t \in Seekers PROVE Cardinality(MadeDirectly(t)') <= Limit
    <3>1. CASE t = s
      <4>1. MadeDirectly(s)' \subseteq MadeDirectly(s) \cup {new}
        BY <2>0, <2>1, AddedDirectly
      <4>2. /\ IsFiniteSet(MadeDirectly(s) \cup {new})
            /\ Cardinality(MadeDirectly(s) \cup {new}) <= Cardinality(MadeDirectly(s)) + 1
        <5>1. \/ Cardinality(MadeDirectly(s) \cup {new}) = Cardinality(MadeDirectly(s))
              \/ Cardinality(MadeDirectly(s) \cup {new}) = Cardinality(MadeDirectly(s)) + 1
          BY MadeIsFinite, FS_AddElement
        <5>2. IsFiniteSet(MadeDirectly(s) \cup {new}) /\ Cardinality(MadeDirectly(s)) \in Nat
          BY MadeIsFinite, FS_AddElement, FS_CardinalityType
        <5> QED
          BY <5>1, <5>2
      <4>3. /\ Cardinality(MadeDirectly(s)') \in Nat
            /\ Cardinality(MadeDirectly(s)') <= Cardinality(MadeDirectly(s) \cup {new})
        BY <4>1, <4>2, FS_Subset, FS_CardinalityType
      <4>4. /\ Cardinality(MadeDirectly(s)) \in Nat /\ Cardinality(Made(s)) \in Nat
            /\ Cardinality(MadeDirectly(s)) <= Cardinality(Made(s))
            /\ Cardinality(MadeDirectly(s) \cup {new}) \in Nat
        BY <4>2, MadeIsFinite, FS_CardinalityType
      <4> QED
        BY <2>1, <3>1, <4>2, <4>3, <4>4, HiringAssumption
    <3>2. CASE t # s
      <4>1. MadeDirectly(t)' \subseteq MadeDirectly(t) /\ IsFiniteSet(MadeDirectly(t))
        BY <2>1, <3>2, AddedDirectly, MadeIsFinite
      <4>2. /\ Cardinality(MadeDirectly(t)') <= Cardinality(MadeDirectly(t))
            /\ Cardinality(MadeDirectly(t)') \in Nat /\ Cardinality(MadeDirectly(t)) \in Nat
        BY <4>1, FS_Subset, FS_CardinalityType
      <4> QED
        BY <4>2, HiringAssumption DEF MonthlyLimitKept
    <3> QED
      BY <3>1, <3>2
  <2> QED
    BY <2>2 DEF MonthlyLimitKept
<1>4. ASSUME NEW r \in Requests, CommitAcceptance(r), Applied(req[r].seeker, req[r].job, FALSE)
      PROVE  MonthlyLimitKept'
  <2>1. req[r].seeker \in Seekers /\ req[r].job \in Jobs
    BY <1>4 DEF CommitAcceptance, TypeOK, WellFormed
  <2>2. \A t \in Seekers : MadeDirectly(t)' \subseteq MadeDirectly(t)
    BY <1>4, <2>1, AddedDirectly
  <2> QED
    BY <2>2, NoneAdded
<1> QED
  BY <1>1, <1>2, <1>3, <1>4, AppsStep

-----------------------------------------------------------------------------
(* The theorems *)

LEMMA InitIInv == Init => IInv
<1> SUFFICES ASSUME Init PROVE IInv
  OBVIOUS
<1>1. /\ \A r \in Requests : req[r].op = "none"
      /\ \A s \in Seekers, j \in Jobs : Len(apps[s][j]) = 0
  BY DEF Init, Idle
<1>2. OneHolder /\ CheckedIsOpen /\ CheckedMayApply /\ OneOpenApplication
  BY <1>1 DEF OneHolder, HoldsSeeker, Applies, CheckedIsOpen, CheckedMayApply,
              OneOpenApplication
<1>3. ASSUME NEW s \in Seekers PROVE Cardinality(MadeDirectly(s)) <= Limit
  <2>1. MadeDirectly(s) = {}
    BY <1>1, HiringAssumption DEF MadeDirectly, Made
  <2> QED
    BY <2>1, FS_EmptySet, HiringAssumption
<1> QED
  BY InitTypeOK, <1>2, <1>3 DEF IInv, MonthlyLimitKept

LEMMA StepIInv == IInv /\ [Next]_vars => IInv'
<1> SUFFICES ASSUME IInv, [Next]_vars PROVE IInv'
  OBVIOUS
<1>1. TypeOK'
  BY TypeKept DEF IInv
<1>2. CASE Next
  BY <1>1, <1>2, OneHolderKept, CheckedIsOpenKept, CheckedMayApplyKept, OneOpenApplicationKept,
     MonthlyLimitKeptKept DEF IInv
<1>3. CASE UNCHANGED vars
  BY <1>1, <1>3 DEF vars, IInv, OneHolder, HoldsSeeker, Applies, CheckedIsOpen,
     CheckedMayApply, CanReapply, Made, OneOpenApplication, MonthlyLimitKept, MadeDirectly
<1> QED
  BY <1>2, <1>3

\* The inductive invariant; the theorems below state its parts.
THEOREM Invariance == Spec => []IInv
<1> QED
  BY InitIInv, StepIInv, PTL DEF Spec

\* Every variable has its type, and a request, and a row it accepts, are of somebody.
THEOREM TypeOKHolds == Spec => []TypeOK
<1>1. IInv => TypeOK
  BY DEF IInv
<1> QED
  BY Invariance, <1>1, PTL

\* However applications and acceptances interleave, a seeker has one open application
\* for a job.
THEOREM OneOpenApplicationHolds == Spec => []OneOpenApplication
<1>1. IInv => OneOpenApplication
  BY DEF IInv
<1> QED
  BY Invariance, <1>1, PTL

\* Applying stays within the plan's limit, for any number of jobs and requests.
THEOREM MonthlyLimitKeptHolds == Spec => []MonthlyLimitKept
<1>1. IInv => MonthlyLimitKept
  BY DEF IInv
<1> QED
  BY Invariance, <1>1, PTL

\* The job of a new application is approved in the state that creates it.
THEOREM AppliedWhileApprovedHolds == Spec => AppliedWhileApproved
<1>1. ASSUME IInv, [Next]_vars
      PROVE  [\A s \in Seekers, j \in Jobs :
                Len(apps'[s][j]) > Len(apps[s][j]) => job[j] = "APPROVED"]_vars
  <2>1. ASSUME Next, NEW s \in Seekers, NEW j \in Jobs, Len(apps'[s][j]) > Len(apps[s][j])
        PROVE  job[j] = "APPROVED"
    <3>0. Len(apps[s][j]) \in Nat
      BY <1>1 DEF IInv, TypeOK
    <3>1. PICK r \in Requests :
            \/ CreateApplication(r)
            \/ CommitAcceptance(r) /\ Applied(req[r].seeker, req[r].job, FALSE)
      <4>1. apps' # apps
        BY <2>1, <3>0
      <4>2. ASSUME NEW t \in Seekers, NEW k \in Jobs, ContractIsCancelled(t, k) PROVE FALSE
        <5>1. Len(apps'[s][j]) = Len(apps[s][j])
          BY <1>1, <4>2, Voided DEF IInv
        <5> QED
          BY <2>1, <3>0, <5>1
      <4>3. \/ \E q \in Requests : CreateApplication(q)
            \/ \E q \in Requests :
                 CommitAcceptance(q) /\ Applied(req[q].seeker, req[q].job, FALSE)
        <5>1. Next
          BY <2>1
        <5> QED
          BY <4>1, <4>2, <5>1, AppsStep, Zenon
      <4> QED
        BY <4>3, Zenon
    <3>2. /\ req[r].seeker \in Seekers /\ req[r].job \in Jobs
          /\ \E direct \in BOOLEAN : Applied(req[r].seeker, req[r].job, direct)
          /\ job[req[r].job] = "APPROVED"
      BY <1>1, <3>1 DEF IInv, CheckedIsOpen, Applies, CreateApplication, CommitAcceptance,
                       TypeOK, WellFormed
    <3>3. j = req[r].job
      <4>1. SUFFICES ASSUME j # req[r].job PROVE FALSE
        OBVIOUS
      <4>2. apps'[s][j] = apps[s][j]
        BY <1>1, <3>2, <4>1, Appended DEF IInv
      <4> QED
        BY <2>1, <3>0, <4>2
    <3> QED
      BY <3>2, <3>3
  <2> QED
    BY <1>1, <2>1
<1> QED
  BY Invariance, <1>1, PTL DEF Spec, AppliedWhileApproved

=============================================================================
