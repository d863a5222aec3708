------------------------- MODULE Recruitment_proofs -------------------------
(***************************************************************************)
(* Proofs about Interviews, ContractWork and EmployerVerification as       *)
(* Recruitment instantiates them, for any number of applications, rows,    *)
(* files, documents and requests.  The requests of the three check before  *)
(* they write: the invariants tell what stays true in between.             *)
(***************************************************************************)
EXTENDS Hiring_proofs, Recruitment, SequenceTheorems, TLAPS

-----------------------------------------------------------------------------
(* Interviews *)

\* Of an application that is back in INTERVIEW when its interview is cancelled, the employer
\* had put it there.
PreviousIsHanded ==
    \A i \in Rows : interview[i].status = "SCHEDULED" /\ interview[i].previous = "INTERVIEW" =>
        interview[i].app \in handed

\* The inductive invariant of the interviews.
InterviewInv == I!TypeOK /\ PreviousIsHanded /\ InterviewIsScheduled

\* At first no interview is scheduled.
LEMMA InterviewInit ==
    ASSUME I!Init
    PROVE  InterviewInv
  BY ScenesAssumption DEF I!Init, I!Idle, InterviewInv, PreviousIsHanded, InterviewIsScheduled,
         I!InterviewIsScheduled, I!TypeOK, I!Row, I!Request, I!Active, I!Statuses, I!Methods,
              I!Contacts

\* A step that leaves the applications and the scheduled rows as they are.
LEMMA RequestKeepsInterviews ==
    ASSUME InterviewInv, I!TypeOK', UNCHANGED <<status, handed>>,
           \A i \in Rows : /\ interview'[i].app = interview[i].app
                           /\ interview'[i].status = interview[i].status
                           /\ interview'[i].previous = interview[i].previous
    PROVE  InterviewInv'
  BY DEF InterviewInv, PreviousIsHanded, InterviewIsScheduled, I!InterviewIsScheduled,
     I!Scheduled

\* Every action keeps the types.
LEMMA InterviewType ==
    ASSUME I!TypeOK, I!Next
    PROVE  I!TypeOK'
<1> USE DEF I!TypeOK, I!Statuses
<1>1. ASSUME NEW i \in Rows, NEW a \in Applications, NEW m \in I!Methods,
             NEW contacts \in SUBSET I!Contacts, I!Schedule(i, a, m, contacts)
      PROVE  I!TypeOK'
  BY <1>1 DEF I!Schedule, I!Row, I!Active
<1>2. ASSUME NEW i \in Rows, I!Cancel(i)
      PROVE  I!TypeOK'
  BY <1>2 DEF I!Cancel, I!StatusAfterCancel, I!Row
<1>3. ASSUME NEW a \in Applications, I!Select(a)
      PROVE  I!TypeOK'
  BY <1>3 DEF I!Select
<1>4. ASSUME NEW r \in Editors, NEW i \in Rows, NEW m \in I!Methods \cup {"kept"},
             NEW set \in SUBSET I!Contacts, NEW dropped \in SUBSET I!Contacts,
             I!BeginUpdate(r, i, m, set, dropped)
      PROVE  I!TypeOK'
  BY <1>4 DEF I!BeginUpdate, I!Idle, I!Request, I!Row, I!Active
<1>5. ASSUME NEW r \in Editors, I!FinishUpdate(r)
      PROVE  I!TypeOK'
  BY <1>5 DEF I!FinishUpdate, I!Idle, I!Request, I!Row, I!Active, I!Methods, I!Applicable
<1>6. ASSUME NEW r \in Editors, NEW a \in Applications, NEW value \in I!HandStatuses,
             I!BeginStatus(r, a, value)
      PROVE  I!TypeOK'
  BY <1>6 DEF I!BeginStatus, I!Idle, I!Request, I!Active, I!Methods, I!HandStatuses
<1>7. ASSUME NEW r \in Editors, I!FinishStatus(r)
      PROVE  I!TypeOK'
  BY <1>7 DEF I!FinishStatus, I!Idle, I!Request, I!Active, I!Methods
<1>8. ASSUME NEW r \in Editors, I!Abort(r)
      PROVE  I!TypeOK'
  BY <1>8 DEF I!Abort, I!Idle, I!Request, I!Active, I!Methods
<1> QED
  BY <1>1, <1>2, <1>3, <1>4, <1>5, <1>6, <1>7, <1>8 DEF I!Next, I!RequestStep

\* Every action keeps the invariant.  What a cancellation gives back is INTERVIEW only if the
\* employer had set it, so it never leaves an application there without an interview.
LEMMA InterviewStep ==
    ASSUME InterviewInv, [I!Next]_interviews
    PROVE  InterviewInv'
<1> USE DEF InterviewInv
<1>0. CASE UNCHANGED interviews
  BY <1>0 DEF interviews, PreviousIsHanded, InterviewIsScheduled, I!InterviewIsScheduled,
     I!TypeOK,
              I!Scheduled
<1> SUFFICES ASSUME I!Next PROVE InterviewInv'
  BY <1>0
<1>type. I!TypeOK'
  BY InterviewType
<1>1. ASSUME NEW i \in Rows, NEW a \in Applications, NEW m \in I!Methods,
             NEW contacts \in SUBSET I!Contacts, I!Schedule(i, a, m, contacts)
      PROVE  InterviewInv'
  <2> USE <1>1 DEF I!Schedule, I!TypeOK, I!Scheduled
  <2>1. PreviousIsHanded'
    BY DEF PreviousIsHanded, InterviewIsScheduled, I!InterviewIsScheduled
  <2>2. InterviewIsScheduled'
    BY DEF InterviewIsScheduled, I!InterviewIsScheduled
  <2> QED
    BY <1>type, <2>1, <2>2
<1>2. ASSUME NEW i \in Rows, I!Cancel(i)
      PROVE  InterviewInv'
  <2> USE <1>2 DEF I!Cancel, I!TypeOK, I!Scheduled
  <2>1. PreviousIsHanded'
    BY DEF PreviousIsHanded
  <2>2. InterviewIsScheduled'
    BY DEF InterviewIsScheduled, I!InterviewIsScheduled, I!StatusAfterCancel, PreviousIsHanded,
       I!Row
  <2> QED
    BY <1>type, <2>1, <2>2
<1>3. ASSUME NEW a \in Applications, I!Select(a)
      PROVE  InterviewInv'
  BY <1>3, <1>type DEF I!Select, PreviousIsHanded, InterviewIsScheduled, I!InterviewIsScheduled,
                       I!Scheduled, I!TypeOK
<1>4. ASSUME NEW r \in Editors, NEW i \in Rows, NEW m \in I!Methods \cup {"kept"},
             NEW set \in SUBSET I!Contacts, NEW dropped \in SUBSET I!Contacts,
             I!BeginUpdate(r, i, m, set, dropped)
      PROVE  InterviewInv'
  BY <1>4, <1>type, RequestKeepsInterviews DEF I!BeginUpdate
<1>5. ASSUME NEW r \in Editors, I!FinishUpdate(r)
      PROVE  InterviewInv'
  BY <1>5, <1>type, RequestKeepsInterviews DEF I!FinishUpdate, I!TypeOK, I!Row
<1>6. ASSUME NEW r \in Editors, NEW a \in Applications, NEW value \in I!HandStatuses,
             I!BeginStatus(r, a, value)
      PROVE  InterviewInv'
  BY <1>6, <1>type, RequestKeepsInterviews DEF I!BeginStatus
<1>7. ASSUME NEW r \in Editors, I!FinishStatus(r)
      PROVE  InterviewInv'
  <2> USE <1>7 DEF I!FinishStatus, I!TypeOK, I!Scheduled
  <2>1. PreviousIsHanded'
    BY DEF PreviousIsHanded
  <2>2. InterviewIsScheduled'
    BY DEF InterviewIsScheduled, I!InterviewIsScheduled
  <2> QED
    BY <1>type, <2>1, <2>2
<1>8. ASSUME NEW r \in Editors, I!Abort(r)
      PROVE  InterviewInv'
  BY <1>8, <1>type, RequestKeepsInterviews DEF I!Abort
<1> QED
  BY <1>1, <1>2, <1>3, <1>4, <1>5, <1>6, <1>7, <1>8 DEF I!Next, I!RequestStep

\* The invariant holds: the status of an application before its interview is one the employer
\* chose, whatever updates of the row are under way (createInterview, cancelInterview).
THEOREM InterviewInvHolds == I!Spec => []InterviewInv
<1>1. I!Init => InterviewInv
  BY InterviewInit
<1>2. InterviewInv /\ [I!Next]_I!interviewVars => InterviewInv'
  BY InterviewStep DEF interviews, I!interviewVars
<1> QED
  BY <1>1, <1>2, PTL DEF I!Spec

\* An application is in INTERVIEW because of a scheduled interview or by the employer's hand
\* (cancelInterview, updateEmployerApplicationStatus).
THEOREM InterviewIsScheduledHolds == I!Spec => []InterviewIsScheduled
<1>1. InterviewInv => InterviewIsScheduled
  BY DEF InterviewInv
<1> QED
  BY <1>1, InterviewInvHolds, PTL

-----------------------------------------------------------------------------
(* Submissions of work *)

\* The files of a request are its own, and nobody but the request deletes them.
FilesOfRequests ==
    \A r \in Requests :
        /\ workReq[r].pc = "idle" => workReq[r].files = {}
        /\ workReq[r].files \subseteq drawn
        /\ workReq[r].pc = "uploading" => workReq[r].files \subseteq workStored
        /\ \A q \in Requests \ {r} : workReq[q].files \cap workReq[r].files = {}

\* No request can delete a file of a submission that was reported.
ReportedIsApart ==
    \A n \in 1 .. Len(submissions), r \in Requests :
        submissions[n].reported => submissions[n].files \cap workReq[r].files = {}

\* The inductive invariant of the submissions.
WorkInv ==
    /\ W!TypeOK
    /\ FilesOfRequests
    /\ ReportedIsApart
    /\ ReportedFilesAreStored
    /\ OneVerdictEach

\* At first there is neither a submission nor a file.
LEMMA WorkInit ==
    ASSUME W!Init
    PROVE  WorkInv
<1> USE DEF W!Init, W!Idle
<1>1. W!TypeOK
  BY EmptySeq, ScenesAssumption DEF W!TypeOK, W!Request
<1>2. FilesOfRequests /\ ReportedIsApart /\ ReportedFilesAreStored /\ OneVerdictEach
  BY DEF FilesOfRequests, ReportedIsApart, ReportedFilesAreStored, OneVerdictEach,
         W!ReportedFilesAreStored, W!OneVerdictEach
<1> QED
  BY <1>1, <1>2 DEF WorkInv

\* The parts that tell of the submissions are the same when the submissions are.
LEMMA SubmissionsKept ==
    ASSUME WorkInv, W!TypeOK', FilesOfRequests', UNCHANGED submissions,
           \A r \in Requests : workReq'[r].files \subseteq workReq[r].files,
           \A n \in 1 .. Len(submissions) : 
              submissions[n].reported => submissions[n].files \subseteq workStored'
    PROVE  WorkInv'
<1>1. OneVerdictEach'
  BY DEF WorkInv, OneVerdictEach, W!OneVerdictEach
<1>2. ReportedIsApart'
  BY DEF WorkInv, ReportedIsApart
<1>3. ReportedFilesAreStored'
  BY DEF WorkInv, ReportedFilesAreStored, W!ReportedFilesAreStored
<1> QED
  BY <1>1, <1>2, <1>3 DEF WorkInv

\* A commit adds a submission after one that was sent back; the files of a reported one are no
\* longer the request's (submitContractWork).
LEMMA SubmissionMade ==
    ASSUME WorkInv, NEW r \in Requests, NEW told \in BOOLEAN, W!CommitSubmission(r, told)
    PROVE  WorkInv'
<1> DEFINE made == [files |-> workReq[r].files, revisions |-> 0, approvals |-> 0,
                    feedback |-> FALSE, reported |-> told]
           k == Len(submissions)
<1>1. made \in W!Submission /\ k \in Nat
  BY DEF WorkInv, W!TypeOK, W!Submission, W!Request
<1>2. /\ submissions' = Append(submissions, made)
      /\ workReq' = [workReq EXCEPT ![r] = W!AfterCommit(@, told)]
      /\ UNCHANGED <<work, progress, workStored, drawn>>
      /\ workReq[r].pc = "uploading" /\ W!MaySubmit(submissions)
  BY DEF W!CommitSubmission
<1>3. /\ submissions' \in Seq(W!Submission) /\ Len(submissions') = k + 1
      /\ submissions'[k + 1] = made
      /\ \A n \in 1 .. k : submissions'[n] = submissions[n]
  <2>1. submissions \in Seq(W!Submission)
    BY DEF WorkInv, W!TypeOK
  <2> HIDE DEF made
  <2> QED
    BY <1>1, <1>2, <2>1
<1>4. /\ workReq[r] \in W!Request
      /\ workReq'[r] = IF told THEN W!Idle ELSE [workReq[r] EXCEPT !.pc = "failed"]
      /\ \A q \in Requests \ {r} : workReq'[q] = workReq[q]
  BY <1>2 DEF WorkInv, W!TypeOK, W!AfterCommit
<1>5. /\ workReq'[r].files = IF told THEN {} ELSE workReq[r].files
      /\ workReq'[r].pc \in {"idle", "failed"}
      /\ workReq'[r].pc = "idle" => workReq'[r].files = {}
  BY <1>4 DEF W!Idle, W!Request
<1>6. W!TypeOK'
  BY <1>2, <1>3, <1>4 DEF WorkInv, W!TypeOK, W!Idle, W!Request, W!AfterCommit
<1>7. FilesOfRequests'
  BY <1>2, <1>4, <1>5 DEF WorkInv, FilesOfRequests
<1>8. ReportedIsApart'
  <2> SUFFICES ASSUME NEW n \in 1 .. k + 1, NEW q \in Requests, submissions'[n].reported
               PROVE  submissions'[n].files \cap workReq'[q].files = {}
    BY <1>3 DEF ReportedIsApart
  <2>1. CASE n = k + 1
    <3>1. told /\ workReq'[r].files = {} /\ submissions'[n].files = workReq[r].files
      BY <1>3, <1>5, <2>1
    <3>2. CASE q = r
      BY <3>1, <3>2
    <3>3. CASE q # r
      BY <1>4, <3>1, <3>3 DEF WorkInv, FilesOfRequests
    <3> QED
      BY <3>2, <3>3
  <2>2. CASE n # k + 1
    <3>1. n \in 1 .. k /\ submissions'[n] = submissions[n] /\ submissions[n].reported
      BY <1>1, <1>3, <2>2
    <3>2. submissions[n].files \cap workReq[q].files = {}
      BY <3>1 DEF WorkInv, ReportedIsApart
    <3>3. workReq'[q].files \subseteq workReq[q].files
      BY <1>4, <1>5
    <3> QED
      BY <3>1, <3>2, <3>3
  <2> QED
    BY <2>1, <2>2
<1>9. ReportedFilesAreStored'
  BY <1>1, <1>2, <1>3
     DEF WorkInv, FilesOfRequests, ReportedFilesAreStored, W!ReportedFilesAreStored
<1>10. OneVerdictEach'
  <2> SUFFICES ASSUME NEW n \in 1 .. k + 1
               PROVE  /\ submissions'[n].revisions + submissions'[n].approvals <= 1
                      /\ n < k + 1 => submissions'[n].revisions = 1
    BY <1>3 DEF OneVerdictEach, W!OneVerdictEach
  <2>1. CASE n = k + 1
    BY <1>3, <2>1
  <2>2. CASE n # k + 1
    <3>1. n \in 1 .. k /\ submissions'[n] = submissions[n] /\ submissions[n] \in W!Submission
      BY <1>1, <1>3, <2>2 DEF WorkInv, W!TypeOK
    <3>2. n = k => submissions[n].revisions > 0
      BY <1>2, <3>1 DEF W!MaySubmit
    <3> QED
      BY <1>1, <3>1, <3>2 DEF WorkInv, OneVerdictEach, W!OneVerdictEach, W!Submission
  <2> QED
    BY <2>1, <2>2
<1> QED
  BY <1>6, <1>7, <1>8, <1>9, <1>10 DEF WorkInv

\* A reply without a verdict before it is one to the latest submission
\* (reviewContractSubmission).
LEMMA SubmissionReviewed ==
    ASSUME WorkInv, NEW n \in 1 .. Len(submissions), NEW kind \in W!Replies, W!Review(n, kind)
    PROVE  WorkInv'
<1> DEFINE k == Len(submissions)
           s == submissions[n]
<1>1. submissions \in Seq(W!Submission) /\ k \in Nat /\ s \in W!Submission
  BY DEF WorkInv, W!TypeOK
<1>2. /\ s.revisions = 0 /\ s.approvals = 0
      /\ submissions' = [submissions EXCEPT ![n] = W!Reply(s, kind)]
      /\ UNCHANGED <<work, progress, workStored, drawn, workReq>>
  BY <1>1 DEF W!Review, W!Reviewed, W!Submission
<1>3. n = k
  BY <1>1, <1>2 DEF WorkInv, OneVerdictEach, W!OneVerdictEach
<1>4. /\ W!Reply(s, kind) \in W!Submission
      /\ W!Reply(s, kind).files = s.files /\ W!Reply(s, kind).reported = s.reported
      /\ W!Reply(s, kind).revisions + W!Reply(s, kind).approvals <= 1
  <2>1. CASE kind = "REVISION_REQUEST"
    BY <1>1, <1>2, <2>1 DEF W!Reply, W!Submission
  <2>2. CASE kind = "APPROVAL"
    BY <1>1, <1>2, <2>2 DEF W!Reply, W!Submission
  <2>3. CASE kind = "FEEDBACK"
    <3>1. W!Reply(s, kind) = [s EXCEPT !.feedback = TRUE]
      BY <2>3 DEF W!Reply
    <3>2. [s EXCEPT !.feedback = TRUE] \in W!Submission
      BY <1>1 DEF W!Submission
    <3>3. /\ [s EXCEPT !.feedback = TRUE].files = s.files
          /\ [s EXCEPT !.feedback = TRUE].reported = s.reported
          /\ [s EXCEPT !.feedback = TRUE].revisions = s.revisions
          /\ [s EXCEPT !.feedback = TRUE].approvals = s.approvals
      BY <1>1 DEF W!Submission
    <3> QED
      BY <1>2, <3>1, <3>2, <3>3
  <2> QED
    BY <2>1, <2>2, <2>3 DEF W!Replies
<1>5. /\ submissions' \in Seq(W!Submission) /\ Len(submissions') = k
      /\ submissions'[n] = W!Reply(s, kind)
      /\ \A m \in 1 .. k : m # n => submissions'[m] = submissions[m]
  BY <1>1, <1>2, <1>4, ExceptSeq
<1>6. W!TypeOK' /\ FilesOfRequests'
  BY <1>2, <1>5 DEF WorkInv, W!TypeOK, FilesOfRequests
<1>7. \A m \in 1 .. k : /\ submissions'[m].files = submissions[m].files
                        /\ submissions'[m].reported = submissions[m].reported
  BY <1>4, <1>5
<1>8. ReportedIsApart'
  BY <1>2, <1>5, <1>7 DEF WorkInv, ReportedIsApart
<1>9. ReportedFilesAreStored'
  BY <1>2, <1>5, <1>7 DEF WorkInv, ReportedFilesAreStored, W!ReportedFilesAreStored
<1>10. OneVerdictEach'
  <2> SUFFICES ASSUME NEW m \in 1 .. k
               PROVE  /\ submissions'[m].revisions + submissions'[m].approvals <= 1
                      /\ m < k => submissions'[m].revisions = 1
    BY <1>5 DEF OneVerdictEach, W!OneVerdictEach
  <2>1. CASE m = n
    BY <1>3, <1>4, <1>5, <2>1
  <2>2. CASE m # n
    BY <1>5, <2>2 DEF WorkInv, OneVerdictEach, W!OneVerdictEach
  <2> QED
    BY <2>1, <2>2
<1> QED
  BY <1>6, <1>8, <1>9, <1>10 DEF WorkInv

\* Every action keeps the invariant.
LEMMA WorkStep ==
    ASSUME WorkInv, [W!Next]_contractWork
    PROVE  WorkInv'
<1>0. CASE UNCHANGED contractWork
  BY <1>0, SubmissionsKept
     DEF contractWork, WorkInv, W!TypeOK, FilesOfRequests, ReportedFilesAreStored,
    W!ReportedFilesAreStored
<1> SUFFICES ASSUME W!Next PROVE WorkInv'
  BY <1>0
<1>kept. \A n \in 1 .. Len(submissions) :
           submissions[n].reported => /\ submissions[n].files \subseteq workStored
                                      /\ \A r \in Requests : submissions[n].files \cap workReq[r].files = {}
  BY DEF WorkInv, ReportedFilesAreStored, W!ReportedFilesAreStored, ReportedIsApart
<1>1. CASE W!Fund \/ W!End \/ W!PostProgress
  <2>1. W!TypeOK' /\ FilesOfRequests'
    BY <1>1, ScenesAssumption
       DEF W!Fund, W!End, W!PostProgress, W!TypeOK, FilesOfRequests, WorkInv
  <2> QED
    BY <1>1, <1>kept, <2>1, SubmissionsKept DEF W!Fund, W!End, W!PostProgress
<1>2. ASSUME NEW r \in Requests, W!BeginSubmit(r) \/ W!Fail(r) \/ W!Leave(r)
      PROVE  WorkInv'
  <2>1. W!TypeOK' /\ FilesOfRequests' /\ \A q \in Requests : workReq'[q].files \subseteq workReq[q].files
    BY <1>2 DEF W!BeginSubmit, W!Fail, W!Leave, W!TypeOK, FilesOfRequests, WorkInv, W!Idle,
       W!Request
  <2> QED
    BY <1>2, <1>kept, <2>1, SubmissionsKept DEF W!BeginSubmit, W!Fail, W!Leave
<1>3. ASSUME NEW r \in Requests, NEW f \in Files, W!Upload(r, f)
      PROVE  WorkInv'
  <2> USE <1>3 DEF W!Upload
  <2>1. W!TypeOK' /\ FilesOfRequests'
    BY DEF W!TypeOK, FilesOfRequests, WorkInv, W!Request
  <2>2. ReportedIsApart'
    BY <1>kept DEF ReportedIsApart, WorkInv, W!TypeOK
  <2>3. ReportedFilesAreStored' /\ OneVerdictEach'
    BY <1>kept DEF ReportedFilesAreStored, W!ReportedFilesAreStored, WorkInv, OneVerdictEach,
       W!OneVerdictEach
  <2> QED
    BY <2>1, <2>2, <2>3 DEF WorkInv
<1>4. ASSUME NEW r \in Requests, NEW told \in BOOLEAN, W!CommitSubmission(r, told)
      PROVE  WorkInv'
  BY <1>4, SubmissionMade
<1>5. ASSUME NEW r \in Requests, NEW deleted \in SUBSET Files, W!CleanUp(r, deleted)
      PROVE  WorkInv'
  <2> USE <1>5 DEF W!CleanUp
  <2>1. W!TypeOK' /\ \A q \in Requests : workReq'[q].files \subseteq workReq[q].files
    BY DEF W!TypeOK, WorkInv, W!Request, W!Idle
  <2>2. FilesOfRequests'
    BY DEF W!TypeOK, WorkInv, W!Request, W!Idle, FilesOfRequests
  <2>3. \A n \in 1 .. Len(submissions) : submissions[n].reported => submissions[n].files \subseteq workStored'
    BY <1>kept
  <2> QED
    BY <2>1, <2>2, <2>3, SubmissionsKept
<1>6. ASSUME NEW n \in 1 .. Len(submissions), NEW kind \in W!Replies, W!Review(n, kind)
      PROVE  WorkInv'
  BY <1>6, SubmissionReviewed
<1> QED
  BY <1>1, <1>2, <1>3, <1>4, <1>5, <1>6 DEF W!Next

\* The invariant holds: a request deletes only files that no reported submission has
\* (submitContractWork's catch).
THEOREM WorkInvHolds == W!Spec => []WorkInv
<1>1. W!Init => WorkInv
  BY WorkInit
<1>2. WorkInv /\ [W!Next]_W!workVars => WorkInv'
  BY WorkStep DEF contractWork, W!workVars
<1> QED
  BY <1>1, <1>2, PTL DEF W!Spec

\* Every submission but the latest was sent back exactly once, and the latest has at most one
\* verdict (submitContractWork, reviewContractSubmission).
THEOREM OneVerdictEachHolds == W!Spec => []OneVerdictEach
<1>1. WorkInv => OneVerdictEach
  BY DEF WorkInv
<1> QED
  BY <1>1, WorkInvHolds, PTL

\* The files of a submission the seeker was told of stay in the storage
\* (submitContractWork's catch).
THEOREM ReportedFilesAreStoredHolds == W!Spec => []ReportedFilesAreStored
<1>1. WorkInv => ReportedFilesAreStored
  BY DEF WorkInv
<1> QED
  BY <1>1, WorkInvHolds, PTL

-----------------------------------------------------------------------------
(* Verification of an employer *)

\* The inductive invariant of the verification.
VerificationInv == E!TypeOK /\ OneDecisionPerSubmission

\* At first nothing is submitted.
LEMMA VerificationInit ==
    ASSUME E!Init
    PROVE  VerificationInv
  BY DEF E!Init, E!Idle, E!NoRecord, E!TypeOK, E!Request, E!Record, VerificationInv,
     OneDecisionPerSubmission,
         E!OneDecisionPerSubmission, E!UnderReview

\* A step that leaves the row, the submissions and the decisions as they are.
LEMMA VerificationKept ==
    ASSUME VerificationInv, E!TypeOK', UNCHANGED <<record, submitted, decisions>>
    PROVE  VerificationInv'
  BY DEF VerificationInv, OneDecisionPerSubmission, E!OneDecisionPerSubmission, E!UnderReview

\* The requests keep their types when one of them ends.
LEMMA AnswerKeepsTypes ==
    ASSUME E!TypeOK, NEW r \in Visitors, E!Answer(r)
    PROVE  /\ verificationReq' \in [Visitors -> E!Request]
           /\ \A v \in Visitors : verificationReq'[v].op = "upload" => verificationReq'[v].doc \in Documents
  BY DEF E!TypeOK, E!Answer, E!Idle, E!NoRecord, E!Request, E!Record

\* The steps that write the row: it is under review after a submission, and not after a
\* decision or a draft.
LEMMA RowWritten ==
    ASSUME VerificationInv, NEW r \in Visitors,
           \/ E!CreateRecord(r) \/ E!WriteSubmission(r)
           \/ E!Approve(r) \/ E!Reject(r) \/ E!EnsureRecord(r)
    PROVE  VerificationInv'
<1> USE DEF VerificationInv
<1> DEFINE q == verificationReq[r]
<1>0. q \in E!Request /\ q.dossier \in Nat /\ q.seen \in E!Record /\ q.seen.dossier \in Nat
      /\ record \in E!Record /\ submitted \in Nat /\ decisions \in Nat
  BY DEF E!TypeOK, E!Request, E!Record
<1>1. CASE E!CreateRecord(r)
  <2>1. CASE record.status = "none"
    <3>1. /\ record' = [status |-> "PENDING", submitted |-> TRUE, dossier |-> q.dossier]
          /\ submitted' = submitted + 1 /\ E!Answer(r)
          /\ UNCHANGED <<profile, docs, stored, sent, decisions>>
      BY <1>1, <2>1 DEF E!CreateRecord, E!Submitted
    <3>2. E!TypeOK'
      BY <1>0, <3>1, AnswerKeepsTypes DEF E!TypeOK, E!Record
    <3>3. submitted = decisions
      BY <2>1 DEF OneDecisionPerSubmission, E!OneDecisionPerSubmission, E!UnderReview
    <3>4. submitted' = decisions' + 1 /\ record'.status = "PENDING" /\ record'.submitted
      BY <3>1, <3>3
    <3> QED
      BY <3>2, <3>4 DEF OneDecisionPerSubmission, E!OneDecisionPerSubmission, E!UnderReview
  <2>2. CASE record.status # "none"
    <3> DEFINE v == [q EXCEPT !.pc = "write", !.seen = record]
    <3>0. /\ v \in E!Request /\ v.op = q.op /\ v.doc = q.doc
          /\ E!Idle \in E!Request /\ E!Idle.op = "none"
      BY <1>0 DEF E!Request, E!Idle, E!NoRecord, E!Record
    <3>1. PICK w \in E!Request :
             /\ verificationReq' = [verificationReq EXCEPT ![r] = w]
             /\ w.op = "upload" => w.op = q.op /\ w.doc = q.doc
      BY <1>1, <2>2, <3>0 DEF E!CreateRecord
    <3>2. UNCHANGED <<record, submitted, profile, docs, stored, sent, decisions>>
      BY <1>1, <2>2 DEF E!CreateRecord
    <3>3. verificationReq' \in [Visitors -> E!Request]
      BY <3>1 DEF E!TypeOK
    <3>4. ASSUME NEW x \in Visitors, verificationReq'[x].op = "upload"
          PROVE  verificationReq'[x].doc \in Documents
      BY <3>1, <3>4 DEF E!TypeOK
    <3>5. E!TypeOK'
      BY <3>2, <3>3, <3>4 DEF E!TypeOK
    <3> QED
      BY <3>2, <3>5, VerificationKept
  <2> QED
    BY <2>1, <2>2
<1>2. CASE E!WriteSubmission(r)
  <2>1. CASE E!Claims(q.seen)
    <3>1. /\ record' = [status |-> "PENDING", submitted |-> TRUE, dossier |-> q.dossier]
          /\ submitted' = submitted + 1 /\ E!Answer(r)
          /\ UNCHANGED <<profile, docs, stored, sent, decisions>>
      BY <1>2, <2>1 DEF E!WriteSubmission, E!Submitted
    <3>2. E!TypeOK'
      BY <1>0, <3>1, AnswerKeepsTypes DEF E!TypeOK, E!Record
    <3>3. submitted = decisions
      BY <2>1 DEF OneDecisionPerSubmission, E!OneDecisionPerSubmission, E!UnderReview, E!Claims
    <3>4. submitted' = decisions' + 1 /\ record'.status = "PENDING" /\ record'.submitted
      BY <3>1, <3>3
    <3> QED
      BY <3>2, <3>4 DEF OneDecisionPerSubmission, E!OneDecisionPerSubmission, E!UnderReview
  <2>2. CASE ~E!Claims(q.seen)
    <3>1. E!Answer(r) /\ UNCHANGED <<record, submitted, profile, docs, stored, sent, decisions>>
      BY <1>2, <2>2 DEF E!WriteSubmission
    <3>2. E!TypeOK'
      BY <3>1, AnswerKeepsTypes DEF E!TypeOK
    <3> QED
      BY <3>1, <3>2, VerificationKept
  <2> QED
    BY <2>1, <2>2
<1>3. CASE E!Approve(r) \/ E!Reject(r)
  <2>0. E!Answer(r) /\ UNCHANGED <<docs, stored, sent, submitted>>
    BY <1>3 DEF E!Approve, E!Reject
  <2>1. CASE E!StillUnderReview
    <3>1. /\ decisions' = decisions + 1 /\ submitted = decisions + 1
          /\ record'.status \in {"APPROVED", "REJECTED"}
          /\ record' \in E!Record
      BY <1>0, <1>3, <2>1 DEF E!Approve, E!Reject, E!StillUnderReview, E!Record,
         OneDecisionPerSubmission,
           E!OneDecisionPerSubmission
    <3>2. E!TypeOK'
      BY <1>0, <1>3, <2>0, <2>1, <3>1, AnswerKeepsTypes DEF E!TypeOK, E!Approve, E!Reject
    <3> QED
      BY <1>0, <2>0, <3>1, <3>2
         DEF OneDecisionPerSubmission, E!OneDecisionPerSubmission, E!UnderReview
  <2>2. CASE ~E!StillUnderReview
    <3>1. UNCHANGED <<record, profile, decisions>>
      BY <1>3, <2>2 DEF E!Approve, E!Reject
    <3>2. E!TypeOK'
      BY <2>0, <3>1, AnswerKeepsTypes DEF E!TypeOK
    <3> QED
      BY <2>0, <3>1, <3>2, VerificationKept
  <2> QED
    BY <2>1, <2>2
<1>4. CASE E!EnsureRecord(r)
  <2>1. E!TypeOK'
    BY <1>0, <1>4 DEF E!EnsureRecord, E!TypeOK, E!Request, E!NoRecord, E!Record
  <2>2. ~E!UnderReview(record) => ~E!UnderReview(record')
    BY <1>4 DEF E!EnsureRecord, E!UnderReview, E!NoRecord
  <2>3. E!UnderReview(record) => UNCHANGED record
    BY <1>4 DEF E!EnsureRecord, E!UnderReview
  <2> QED
    BY <1>4, <2>1, <2>2, <2>3 DEF OneDecisionPerSubmission, E!OneDecisionPerSubmission,
       E!EnsureRecord, E!UnderReview
<1> QED
  BY <1>1, <1>2, <1>3, <1>4

\* Every action keeps the invariant.
LEMMA VerificationStep ==
    ASSUME VerificationInv, [E!Next]_verification
    PROVE  VerificationInv'
<1> USE DEF VerificationInv
<1>0. CASE UNCHANGED verification
  <2>1. E!TypeOK'
    BY <1>0 DEF verification, E!TypeOK
  <2> QED
    BY <1>0, <2>1, VerificationKept DEF verification
<1> SUFFICES ASSUME NEW r \in Visitors, E!RequestStep(r) PROVE VerificationInv'
  BY <1>0 DEF E!Next
<1>1. CASE E!BeginSubmit(r) \/ \E op \in {"approve", "reject"} : E!BeginReview(r, op)
  <2> DEFINE p == IF record.status = "none" THEN "create" ELSE "write"
             v == [E!Idle EXCEPT !.op = "submit", !.seen = record, !.dossier = sent + 1,
                  !.pc = p]
             w(op) == [E!Idle EXCEPT !.op = op, !.pc = "write", !.seen = record]
  <2>0. p \in {"create", "write"}
    OBVIOUS
  <2>1. v \in E!Request /\ v.op = "submit"
    <3>1. sent + 1 \in Nat /\ record \in E!Record
      BY DEF E!TypeOK
    <3> HIDE DEF p
    <3> QED
      BY <2>0, <3>1 DEF E!Request, E!Idle
  <2>2. \A op \in {"approve", "reject"} : w(op) \in E!Request /\ w(op).op = op
    BY DEF E!TypeOK, E!Request, E!Idle, E!NoRecord, E!Record
  <2>3. CASE E!BeginSubmit(r)
    <3>1. verificationReq' = [verificationReq EXCEPT ![r] = v] /\ sent' = sent + 1
      BY <2>3 DEF E!BeginSubmit
    <3> HIDE DEF v
    <3>2. E!TypeOK'
      BY <2>1, <2>3, <3>1 DEF E!BeginSubmit, E!TypeOK
    <3> QED
      BY <2>3, <3>2, VerificationKept DEF E!BeginSubmit
  <2>4. ASSUME NEW op \in {"approve", "reject"}, E!BeginReview(r, op)
        PROVE  VerificationInv'
    <3>1. verificationReq' = [verificationReq EXCEPT ![r] = w(op)]
      BY <2>4 DEF E!BeginReview
    <3> HIDE DEF w
    <3>2. E!TypeOK'
      BY <2>2, <2>4, <3>1 DEF E!BeginReview, E!TypeOK
    <3> QED
      BY <2>4, <3>2, VerificationKept DEF E!BeginReview
  <2> QED
    BY <1>1, <2>3, <2>4
<1>2. CASE \E d \in Documents : E!BeginUpload(r, d) \/ E!BeginDelete(r, d)
  <2> DEFINE v(op, d) == [E!Idle EXCEPT !.op = op, !.pc = "check", !.doc = d]
  <2>0. \A op \in {"upload", "delete"}, d \in Documents : v(op, d) \in E!Request /\ v(op,
       d).doc = d
    BY DEF E!Request, E!Idle, E!NoRecord, E!Record
  <2>1. \E w \in E!Request : /\ verificationReq' = [verificationReq EXCEPT ![r] = w]
                             /\ w.doc \in Documents
    BY <1>2, <2>0 DEF E!BeginUpload, E!BeginDelete
  <2>2. E!TypeOK'
    BY <1>2, <2>1 DEF E!BeginUpload, E!BeginDelete, E!TypeOK
  <2> QED
    BY <1>2, <2>2, VerificationKept DEF E!BeginUpload, E!BeginDelete
<1>3. CASE E!CheckUpload(r) \/ E!DeleteFile(r)
  <2>1. E!TypeOK'
    BY <1>3, AnswerKeepsTypes DEF E!CheckUpload, E!DeleteFile, E!TypeOK, E!Request
  <2> QED
    BY <1>3, <2>1, VerificationKept DEF E!CheckUpload, E!DeleteFile
<1>4. CASE E!Abort(r) \/ E!DeleteRow(r) \/ \E saved \in BOOLEAN : E!SaveDocument(r, saved)
  <2>0. E!Answer(r) /\ UNCHANGED <<record, profile, sent, submitted, decisions>>
    BY <1>4 DEF E!Abort, E!DeleteRow, E!SaveDocument
  <2>1. docs' \subseteq Documents /\ stored' \subseteq Documents
    BY <1>4 DEF E!Abort, E!DeleteRow, E!SaveDocument, E!TypeOK
  <2>2. E!TypeOK'
    BY <2>0, <2>1, AnswerKeepsTypes DEF E!TypeOK
  <2> QED
    BY <2>0, <2>2, VerificationKept
<1>5. CASE E!CreateRecord(r) \/ E!WriteSubmission(r) \/ E!Approve(r) \/ E!Reject(r) \/ E!EnsureRecord(r)
  BY <1>5, RowWritten
<1> QED
  BY <1>1, <1>2, <1>3, <1>4, <1>5 DEF E!RequestStep

\* Submissions and decisions that take effect alternate, although each acts on a row it read
\* earlier (submitEmployerVerification, approveEmployerVerification,
\* rejectEmployerVerification).
THEOREM OneDecisionPerSubmissionHolds == E!Spec => []OneDecisionPerSubmission
<1>1. E!Init => VerificationInv
  BY VerificationInit
<1>2. VerificationInv /\ [E!Next]_E!verificationVars => VerificationInv'
  BY VerificationStep DEF verification, E!verificationVars
<1>3. VerificationInv => OneDecisionPerSubmission
  BY DEF VerificationInv
<1> QED
  BY <1>1, <1>2, <1>3, PTL DEF E!Spec

-----------------------------------------------------------------------------
(* The four side by side *)

\* A step of the composition is a step of each of the four or leaves it alone.
LEMMA SceneStep ==
    ASSUME [NextInScene]_all
    PROVE  /\ [Next]_vars
           /\ [I!Next]_(I!interviewVars)
           /\ [W!Next]_(W!workVars)
           /\ [E!Next]_(E!verificationVars)
<1> USE DEF interviews, contractWork, verification,
           I!interviewVars, W!workVars, E!verificationVars
<1>0. CASE UNCHANGED all
  BY <1>0 DEF all
<1>1. CASE scene = "hiring" /\ Next /\ UNCHANGED <<scene, interviews, contractWork,
     verification>>
  BY <1>1
<1>2. CASE scene = "interviews" /\ I!Next /\ UNCHANGED <<scene, vars, contractWork,
     verification>>
  BY <1>2
<1>3. CASE scene = "work" /\ W!Next /\ UNCHANGED <<scene, vars, interviews, verification>>
  BY <1>3
<1>4. CASE scene = "verification" /\ E!Next /\ UNCHANGED <<scene, vars, interviews,
     contractWork>>
  BY <1>4
<1> QED
  BY <1>0, <1>1, <1>2, <1>3, <1>4 DEF NextInScene

\* The composition implements each of its four specifications.
THEOREM ScenesImplement == SpecInScene => Spec /\ I!Spec /\ W!Spec /\ E!Spec
<1>1. InitAll => Init /\ I!Init /\ W!Init /\ E!Init
  BY DEF InitAll
<1>2. [NextInScene]_all => /\ [Next]_vars
                          /\ [I!Next]_(I!interviewVars)
                          /\ [W!Next]_(W!workVars)
                          /\ [E!Next]_(E!verificationVars)
  BY SceneStep
<1> QED
  BY <1>1, <1>2, PTL DEF SpecInScene, Spec, I!Spec, W!Spec, E!Spec

\* So what is proved of its parts, those of the applications among them, holds of the
\* composition, which is what the run checks.
THEOREM PropertiesHold ==
    SpecInScene =>
      /\ AppliedWhileApproved
      /\ [](/\ OneOpenApplication /\ MonthlyLimitKept /\ InterviewIsScheduled /\ OneVerdictEach
           /\ ReportedFilesAreStored /\ OneDecisionPerSubmission)
BY ScenesImplement, AppliedWhileApprovedHolds, OneOpenApplicationHolds, MonthlyLimitKeptHolds,
   InterviewIsScheduledHolds, OneVerdictEachHolds, ReportedFilesAreStoredHolds,
   OneDecisionPerSubmissionHolds, PTL

=============================================================================
