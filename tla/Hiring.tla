------------------------------- MODULE Hiring -------------------------------
(***************************************************************************)
(* Jobs and the ways into them: an employer posts and edits a job, an      *)
(* administrator approves, rejects, amends or removes it; a seeker applies *)
(* or accepts an employer's invitation.                                    *)
(*                                                                         *)
(* Source: employerJobs.service.js, adminJobs.service.js,                  *)
(* seekerApplications.service.js and jobInvitation.service.js.             *)
(*                                                                         *)
(* A request runs statement by statement where it reads before it writes:  *)
(* an application or an acceptance takes the row lock of the User, then of *)
(* the Job, checks and commits; an edit of a job and an invitation read    *)
(* outside the transaction that writes.  A row lock is held by the request *)
(* whose pc is past it, and every write of the row waits for it.  Unique   *)
(* indexes act at the write.  What becomes of an application belongs to    *)
(* Interviews and ContractEscrow: here it is either open or over with a    *)
(* contract that was cancelled before any money moved.                     *)
(***************************************************************************)
EXTENDS Integers, Sequences, FiniteSets

CONSTANTS
    Seekers,
    Jobs,
    Invitations,   \* JobInvitation rows of one employer
    Requests,      \* concurrent requests
    Limit,         \* applications a seeker's plan allows in the month the model covers
    MaxTries,      \* bound: applications of one seeker for one job
    None           \* the seeker, job or invitation of a request that has none

ASSUME HiringAssumption ==
    /\ IsFiniteSet(Jobs)
    /\ Limit \in Nat
    /\ MaxTries \in Nat
    /\ None \notin Seekers \cup Jobs \cup Invitations

VARIABLES
    job,       \* Job.status, "none" before it is posted
    expired,   \* jobs whose applicationDeadline has passed
    apps,      \* apps[s][j]: the applications of s for j, oldest first
    invite,    \* JobInvitation rows
    req        \* control state of each request

vars == <<job, expired, apps, invite, req>>

-----------------------------------------------------------------------------
(* State *)

JobStatuses == {"PENDING", "APPROVED", "REJECTED", "CLOSED"}

\* void: its contract was cancelled safely; direct: made by applying, not by accepting.
Application == [void : BOOLEAN, direct : BOOLEAN]

\* EXPIRED and CANCELLED are never written.  app is the index of the linked application.
Invitation == [status : {"none", "PENDING", "ACCEPTED", "DECLINED"},
               seeker : Seekers \cup {None}, job : Jobs \cup {None}, app : Nat]

Edits == {"update", "approve", "reject", "remove", "amend"}

Request == [op : {"none", "apply", "accept", "invite"} \cup Edits,
            pc : {"idle", "read", "seeker", "job", "checked"},
            seeker : Seekers \cup {None}, job : Jobs \cup {None},
            inv : Invitations \cup {None}, saw : JobStatuses \cup {"none"}]

Idle == [op |-> "none", pc |-> "idle", seeker |-> None, job |-> None, inv |-> None,
         saw |-> "none"]

Uninvited == [status |-> "none", seeker |-> None, job |-> None, app |-> 0]

\* What each kind of request works on.
WellFormed(q) ==
    /\ q.op = "none" <=> q.pc = "idle"
    /\ q.op \in {"apply", "accept"} => q.seeker \in Seekers /\ q.job \in Jobs
    /\ q.op = "accept" => q.inv \in Invitations
    /\ q.op = "invite" => q.pc = "read" /\ q.seeker \in Seekers /\ q.job \in Jobs
                          /\ q.inv \in Invitations
    /\ q.op \in Edits => q.pc = "read" /\ q.job \in Jobs /\ q.saw \in JobStatuses

TypeOK ==
    /\ job \in [Jobs -> JobStatuses \cup {"none"}]
    /\ expired \subseteq Jobs
    /\ apps \in [Seekers -> [Jobs -> Seq(Application)]]
    /\ invite \in [Invitations -> Invitation]
    /\ req \in [Requests -> Request]
    /\ \A r \in Requests : WellFormed(req[r])
    /\ \A i \in Invitations :
         invite[i].status # "none" => invite[i].seeker \in Seekers /\ invite[i].job \in Jobs
    /\ \A r \in Requests : req[r].op = "accept" => invite[req[r].inv].status # "none"

Init ==
    /\ job = [j \in Jobs |-> "none"]
    /\ expired = {}
    /\ apps = [s \in Seekers |-> [j \in Jobs |-> <<>>]]
    /\ invite = [i \in Invitations |-> Uninvited]
    /\ req = [r \in Requests |-> Idle]

-----------------------------------------------------------------------------
(* Helpers *)

\* findFirst { status: 'APPROVED' } and a deadline that has not passed.
Open(j) == job[j] = "APPROVED" /\ j \notin expired

\* Row locks, by the request that holds them.
Applies(r) == req[r].op \in {"apply", "accept"}
HoldsSeeker(r, s) ==
    Applies(r) /\ req[r].seeker = s /\ req[r].pc \in {"seeker", "job", "checked"}
HoldsJob(r, j) == Applies(r) /\ req[r].job = j /\ req[r].pc \in {"job", "checked"}
HoldsInvitation(r, i) == req[r].op = "accept" /\ req[r].inv = i

\* Mistakes: the transaction does not lock the row, or asks for one application that is over.
AnySeeker(s) == TRUE
AnyJob(j) == TRUE
SomeCancelled(s, j) == apps[s][j] = <<>> \/ \E n \in 1 .. Len(apps[s][j]) : apps[s][j][n].void

SeekerFree(s) == \A r \in Requests : ~HoldsSeeker(r, s)
JobFree(j) == \A r \in Requests : ~HoldsJob(r, j)
InvitationFree(i) == \A r \in Requests : ~HoldsInvitation(r, i)

\* canReapplyAfterCancelledContracts
CanReapply(s, j) == \A n \in 1 .. Len(apps[s][j]) : apps[s][j][n].void

Made(s) == {p \in Jobs \X (1 .. MaxTries) : p[2] <= Len(apps[s][p[1]])}
MadeDirectly(s) == {p \in Made(s) : apps[s][p[1]][p[2]].direct}

\* The unique indexes on (employer, seeker, job, status) and on applicationId.
Clashes(i, status) ==
    \E k \in Invitations \ {i} : /\ invite[k].seeker = invite[i].seeker
                                 /\ invite[k].job = invite[i].job
                                 /\ invite[k].status = status

\* At the read; edits other than an administrator's have no check of the status.
MayBegin(op, status) ==
    CASE op \in {"approve", "reject"} -> status = "PENDING"
      [] op = "remove" -> status = "APPROVED"
      [] OTHER -> status # "none"

\* What an edit that read the status saw writes.
Written(op, saw) ==
    CASE op = "update" -> IF saw = "APPROVED" THEN "PENDING" ELSE saw
      [] op \in {"approve", "amend"} -> "APPROVED"
      [] op = "reject" -> "REJECTED"
      [] op = "remove" -> "CLOSED"

-----------------------------------------------------------------------------
(* Jobs *)

\* createAdminJob needs no approval.
PostedByAdmin(j) ==
    /\ job[j] = "none"
    /\ job' = [job EXCEPT ![j] = "APPROVED"]
    /\ UNCHANGED <<expired, apps, invite, req>>

\* createEmployerJob
PostJob(j) ==
    /\ job[j] = "none"
    /\ job' = [job EXCEPT ![j] = "PENDING"]
    /\ UNCHANGED <<expired, apps, invite, req>>

\* updateEmployerJob, approveAdminJob, rejectAdminJob, removeAdminJob and updateAdminJob
\* read the row ...
BeginEdit(r, j, op) ==
    /\ req[r].op = "none"
    /\ job[j] # "none"
    /\ MayBegin(op, job[j])
    /\ req' = [req EXCEPT ![r] = [Idle EXCEPT !.op = op, !.pc = "read", !.job = j,
                                              !.saw = job[j]]]
    /\ UNCHANGED <<job, expired, apps, invite>>

\* ... and write it by its id.  An update brings its own deadline.
FinishEdit(r) ==
    LET q == req[r] IN
    /\ q.op \in Edits
    /\ JobFree(q.job)
    /\ job' = [job EXCEPT ![q.job] = Written(q.op, q.saw)]
    /\ expired' = IF q.op \in {"update", "amend"} THEN expired \ {q.job} ELSE expired
    /\ req' = [req EXCEPT ![r] = Idle]
    /\ UNCHANGED <<apps, invite>>

\* closeEmployerJob, from every status.
CloseJob(j) ==
    /\ job[j] # "none"
    /\ JobFree(j)
    /\ job' = [job EXCEPT ![j] = "CLOSED"]
    /\ UNCHANGED <<expired, apps, invite, req>>

ReachDeadline(j) ==
    /\ Open(j)
    /\ expired' = expired \cup {j}
    /\ UNCHANGED <<job, apps, invite, req>>

-----------------------------------------------------------------------------
(* Applications *)

\* findApplicationJob, the CV and the plan's limit, before the transaction.
BeginApply(r, s, j) ==
    /\ req[r].op = "none"
    /\ Open(j)
    /\ req' = [req EXCEPT ![r] = [Idle EXCEPT !.op = "apply", !.pc = "read",
                                              !.seeker = s, !.job = j]]
    /\ UNCHANGED <<job, expired, apps, invite>>

\* SELECT ... FROM "User" ... FOR UPDATE, of an application and of an acceptance.
LockSeeker(r) ==
    /\ Applies(r)
    /\ req[r].pc = "read"
    /\ SeekerFree(req[r].seeker)
    /\ req' = [req EXCEPT ![r].pc = "seeker"]
    /\ UNCHANGED <<job, expired, apps, invite>>

\* SELECT ... FROM "Job" ... FOR UPDATE
LockJob(r) ==
    /\ Applies(r)
    /\ req[r].pc = "seeker"
    /\ JobFree(req[r].job)
    /\ req' = [req EXCEPT ![r].pc = "job"]
    /\ UNCHANGED <<job, expired, apps, invite>>

\* The job is still open, no application of the seeker for it is open, and the month's
\* applications, accepted invitations among them, are below the limit.
MayApply(s, j) ==
    /\ Open(j)
    /\ CanReapply(s, j)
    /\ Cardinality(Made(s)) < Limit

CheckApplication(r) ==
    /\ req[r].op = "apply"
    /\ req[r].pc = "job"
    /\ req' = [req EXCEPT ![r] = IF MayApply(req[r].seeker, req[r].job)
                                 THEN [req[r] EXCEPT !.pc = "checked"] ELSE Idle]
    /\ UNCHANGED <<job, expired, apps, invite>>

Applied(s, j, direct) ==
    apps' = [apps EXCEPT ![s][j] = Append(@, [void |-> FALSE, direct |-> direct])]

CreateApplication(r) ==
    /\ req[r].op = "apply"
    /\ req[r].pc = "checked"
    /\ Applied(req[r].seeker, req[r].job, TRUE)
    /\ req' = [req EXCEPT ![r] = Idle]
    /\ UNCHANGED <<job, expired, invite>>

\* isSafelyCancelledContract becomes true of the last application.  An edit that gives the
\* job another kind makes it false again (contractTypeMatchesJob); that only refuses
\* applications which are allowed here.
ContractIsCancelled(s, j) ==
    LET n == Len(apps[s][j]) IN
    /\ n \in 1 .. MaxTries - 1
    /\ ~apps[s][j][n].void
    /\ apps' = [apps EXCEPT ![s][j][n].void = TRUE]
    /\ UNCHANGED <<job, expired, invite, req>>

-----------------------------------------------------------------------------
(* Invitations *)

\* createJobInvitation: the job is open and no invitation is pending ...
BeginInvite(r, i, s, j) ==
    /\ req[r].op = "none"
    /\ invite[i].status = "none"
    /\ \A k \in Requests : req[k].inv # i
    /\ Open(j)
    /\ ~\E k \in Invitations : /\ invite[k].seeker = s /\ invite[k].job = j
                               /\ invite[k].status = "PENDING"
    /\ req' = [req EXCEPT ![r] = [op |-> "invite", pc |-> "read", seeker |-> s, job |-> j,
                                  inv |-> i, saw |-> "none"]]
    /\ UNCHANGED <<job, expired, apps, invite>>

\* ... and the transaction; P2002 tells that another invitation was faster.
FinishInvite(r) ==
    LET q == req[r]
        taken == \E k \in Invitations : /\ invite[k].seeker = q.seeker
                                        /\ invite[k].job = q.job
                                        /\ invite[k].status = "PENDING"
    IN
    /\ q.op = "invite"
    /\ invite' = IF taken THEN invite
                 ELSE [invite EXCEPT ![q.inv] = [status |-> "PENDING", seeker |-> q.seeker,
                                                 job |-> q.job, app |-> 0]]
    /\ req' = [req EXCEPT ![r] = Idle]
    /\ UNCHANGED <<job, expired, apps>>

\* respondToJobInvitation, DECLINED: one update under the invitation's row lock, which the
\* unique index refuses when an earlier invitation of the pair was declined.
Decline(i) ==
    /\ invite[i].status = "PENDING"
    /\ InvitationFree(i)
    /\ ~Clashes(i, "DECLINED")
    /\ invite' = [invite EXCEPT ![i].status = "DECLINED"]
    /\ UNCHANGED <<job, expired, apps, req>>

\* respondToJobInvitation, ACCEPTED: the invitation is locked and its job read.
BeginAccept(r, i) ==
    /\ req[r].op = "none"
    /\ invite[i].status = "PENDING"
    /\ InvitationFree(i)
    /\ Open(invite[i].job)
    /\ req' = [req EXCEPT ![r] = [op |-> "accept", pc |-> "read", saw |-> "none",
                                  seeker |-> invite[i].seeker, job |-> invite[i].job,
                                  inv |-> i]]
    /\ UNCHANGED <<job, expired, apps, invite>>

CheckAcceptance(r) ==
    /\ req[r].op = "accept"
    /\ req[r].pc = "job"
    /\ req' = [req EXCEPT ![r] = IF Open(req[r].job)
                                 THEN [req[r] EXCEPT !.pc = "checked"] ELSE Idle]
    /\ UNCHANGED <<job, expired, apps, invite>>

\* The acceptance links the latest application, or a new one when there is none or all
\* are over.  A refused index undoes the whole transaction.
CommitAcceptance(r) ==
    LET q == req[r]
        n == Len(apps[q.seeker][q.job])
        new == CanReapply(q.seeker, q.job)
        linked == IF new THEN n + 1 ELSE n
        refused == \/ Clashes(q.inv, "ACCEPTED")
                   \/ \E k \in Invitations : /\ invite[k].seeker = q.seeker
                                             /\ invite[k].job = q.job
                                             /\ invite[k].app = linked
    IN
    /\ q.op = "accept"
    /\ q.pc = "checked"
    /\ IF refused THEN UNCHANGED <<apps, invite>>
       ELSE /\ IF new THEN Applied(q.seeker, q.job, FALSE) ELSE UNCHANGED apps
            /\ invite' = [invite EXCEPT ![q.inv].status = "ACCEPTED",
                                        ![q.inv].app = linked]
    /\ req' = [req EXCEPT ![r] = Idle]
    /\ UNCHANGED <<job, expired>>

\* The process dies, or a statement fails: the transaction is rolled back.
Abort(r) ==
    /\ req[r] # Idle
    /\ req' = [req EXCEPT ![r] = Idle]
    /\ UNCHANGED <<job, expired, apps, invite>>

-----------------------------------------------------------------------------
(* Specification *)

JobStep ==
    \E j \in Jobs :
        \/ PostJob(j)
        \/ PostedByAdmin(j)
        \/ CloseJob(j)
        \/ ReachDeadline(j)
        \/ \E s \in Seekers : ContractIsCancelled(s, j)

RequestStep(r) ==
    \/ \E j \in Jobs :
         \/ \E op \in Edits : BeginEdit(r, j, op)
         \/ \E s \in Seekers :
              \/ BeginApply(r, s, j)
              \/ \E i \in Invitations : BeginInvite(r, i, s, j)
    \/ FinishEdit(r)
    \/ LockSeeker(r)
    \/ LockJob(r)
    \/ CheckApplication(r)
    \/ CreateApplication(r)
    \/ FinishInvite(r)
    \/ \E i \in Invitations : BeginAccept(r, i)
    \/ CheckAcceptance(r)
    \/ CommitAcceptance(r)
    \/ Abort(r)

Next ==
    \/ JobStep
    \/ \E r \in Requests : RequestStep(r)
    \/ \E i \in Invitations : Decline(i)

Spec == Init /\ [][Next]_vars

-----------------------------------------------------------------------------
(* Properties *)

\* A seeker has at most one application for a job that is not over, however applying and
\* accepting an invitation interleave (the duplicate check of createSeekerApplication and
\* the link of respondToJobInvitation, both under the seeker's and the job's row locks).
OneOpenApplication ==
    \A s \in Seekers, j \in Jobs : \A m, n \in 1 .. Len(apps[s][j]) :
        m < n => apps[s][j][m].void

\* Applying never takes a seeker beyond the plan's monthly limit, although the requests
\* for two jobs share no lock but the seeker's.
MonthlyLimitKept == \A s \in Seekers : Cardinality(MadeDirectly(s)) <= Limit

\* An application is created only while the job is approved: an edit, a rejection or a
\* closing that comes after the check waits for the job's row lock.
AppliedWhileApproved ==
    [][\A s \in Seekers, j \in Jobs :
         Len(apps'[s][j]) > Len(apps[s][j]) => job[j] = "APPROVED"]_vars

=============================================================================
