---------------------------- MODULE ContractWork ----------------------------
(***************************************************************************)
(* Deliverables of a funded contract: the seeker submits work with files,  *)
(* the employer asks for a revision, approves or comments, and both post   *)
(* progress.                                                               *)
(*                                                                         *)
(* Source: contractWork.service.js.  Every transaction begins with the row *)
(* lock of the Contract and is one atomic step.  Files are uploaded before *)
(* the transaction of a submission and deleted when it fails; the process  *)
(* may die in between, and the reply of a commit may be lost, in which     *)
(* case the files of a committed submission are deleted.                   *)
(*                                                                         *)
(* Funding and completion belong to ContractEscrow: here the work of the   *)
(* contract is open from the one to the other.                             *)
(***************************************************************************)
EXTENDS Integers, Sequences, FiniteSets

CONSTANTS
    Files,           \* object keys; each is drawn once
    Requests,
    MaxSubmissions,  \* bound: submissions of the contract
    MaxProgress      \* bound: progress updates of the contract

VARIABLES
    work,            \* "unfunded", "open" or "ended"
    progress,        \* the number of progress updates
    submissions,     \* SUBMISSION activities in the order of submissionVersion
    stored,          \* object keys in the storage
    drawn,           \* object keys given out so far
    req

workVars == <<work, progress, submissions, stored, drawn, req>>

-----------------------------------------------------------------------------
(* State *)

Replies == {"REVISION_REQUEST", "APPROVAL", "FEEDBACK"}

\* revisions and approvals count the replies of the two kinds that are a verdict;
\* reported: the seeker was told that the submission was made.
Submission == [files : SUBSET Files, revisions : Nat, approvals : Nat, feedback : BOOLEAN,
               reported : BOOLEAN]

\* failed: the catch block of submitContractWork is deleting the files.
Request == [pc : {"idle", "uploading", "failed"}, files : SUBSET Files]

Idle == [pc |-> "idle", files |-> {}]

TypeOK ==
    /\ work \in {"unfunded", "open", "ended"}
    /\ progress \in 0 .. MaxProgress
    /\ submissions \in Seq(Submission)
    /\ stored \subseteq drawn /\ drawn \subseteq Files
    /\ req \in [Requests -> Request]

Init ==
    /\ work = "unfunded"
    /\ progress = 0
    /\ submissions = <<>>
    /\ stored = {}
    /\ drawn = {}
    /\ req = [r \in Requests |-> Idle]

-----------------------------------------------------------------------------
(* Helpers *)

\* ensureWorkIsOpen
WorkIsOpen == work = "open"

\* Mistake: whether the latest submission was approved is asked instead.
UnlessApproved(subs) == Len(subs) > 0 => subs[Len(subs)].approvals = 0

\* No submission yet, or the employer has asked for a revision of the latest.
MaySubmit(subs) == Len(subs) > 0 => subs[Len(subs)].revisions > 0

Reviewed(s) == s.revisions > 0 \/ s.approvals > 0

Reply(s, kind) ==
    CASE kind = "REVISION_REQUEST" -> [s EXCEPT !.revisions = @ + 1]
      [] kind = "APPROVAL" -> [s EXCEPT !.approvals = @ + 1]
      [] kind = "FEEDBACK" -> [s EXCEPT !.feedback = TRUE]

\* What the request does after its commit; the mistake cleans up in either case.
CleansUp(q, told) == [q EXCEPT !.pc = "failed"]
AfterCommit(q, told) == IF told THEN Idle ELSE [q EXCEPT !.pc = "failed"]

-----------------------------------------------------------------------------
(* Contract *)

Fund ==
    /\ work = "unfunded"
    /\ work' = "open"
    /\ UNCHANGED <<progress, submissions, stored, drawn, req>>

\* Completion, cancellation or a dispute.
End ==
    /\ WorkIsOpen
    /\ work' = "ended"
    /\ UNCHANGED <<progress, submissions, stored, drawn, req>>

\* createContractProgressUpdate
PostProgress ==
    /\ WorkIsOpen
    /\ progress < MaxProgress
    /\ progress' = progress + 1
    /\ UNCHANGED <<work, submissions, stored, drawn, req>>

-----------------------------------------------------------------------------
(* Submissions *)

\* submitContractWork, before its transaction; a submission may have no file.
BeginSubmit(r) ==
    /\ WorkIsOpen
    /\ req[r].pc = "idle"
    /\ req' = [req EXCEPT ![r].pc = "uploading"]
    /\ UNCHANGED <<work, progress, submissions, stored, drawn>>

Upload(r, f) ==
    /\ req[r].pc = "uploading"
    /\ f \notin drawn
    /\ drawn' = drawn \cup {f}
    /\ stored' = stored \cup {f}
    /\ req' = [req EXCEPT ![r].files = @ \cup {f}]
    /\ UNCHANGED <<work, progress, submissions>>

\* A file cannot be uploaded, or the transaction ends without a commit.
Fail(r) ==
    /\ req[r].pc = "uploading"
    /\ req' = [req EXCEPT ![r].pc = "failed"]
    /\ UNCHANGED <<work, progress, submissions, stored, drawn>>

\* told is FALSE when the reply of the commit is lost.
CommitSubmission(r, told) ==
    /\ req[r].pc = "uploading"
    /\ WorkIsOpen
    /\ MaySubmit(submissions)
    /\ Len(submissions) < MaxSubmissions
    /\ submissions' = Append(submissions, [files |-> req[r].files, revisions |-> 0,
                                           approvals |-> 0, feedback |-> FALSE,
                                           reported |-> told])
    /\ req' = [req EXCEPT ![r] = AfterCommit(@, told)]
    /\ UNCHANGED <<work, progress, stored, drawn>>

\* Some of the deletions may fail as well; the error is thrown anyway.
CleanUp(r, deleted) ==
    /\ req[r].pc = "failed"
    /\ deleted \subseteq req[r].files
    /\ stored' = stored \ deleted
    /\ req' = [req EXCEPT ![r] = Idle]
    /\ UNCHANGED <<work, progress, submissions, drawn>>

\* The request is over; the process may also die in the middle of it.
Leave(r) ==
    /\ req[r] # Idle
    /\ req' = [req EXCEPT ![r] = Idle]
    /\ UNCHANGED <<work, progress, submissions, stored, drawn>>

\* reviewContractSubmission: of any submission, not only of the latest.
Review(n, kind) ==
    /\ WorkIsOpen
    /\ ~Reviewed(submissions[n])
    /\ submissions' = [submissions EXCEPT ![n] = Reply(@, kind)]
    /\ UNCHANGED <<work, progress, stored, drawn, req>>

-----------------------------------------------------------------------------
(* Specification *)

Next ==
    \/ Fund
    \/ End
    \/ PostProgress
    \/ \E r \in Requests :
         \/ BeginSubmit(r)
         \/ \E f \in Files : Upload(r, f)
         \/ Fail(r)
         \/ \E told \in BOOLEAN : CommitSubmission(r, told)
         \/ \E deleted \in SUBSET Files : CleanUp(r, deleted)
         \/ Leave(r)
    \/ \E n \in 1 .. Len(submissions), kind \in Replies : Review(n, kind)

Spec == Init /\ [][Next]_workVars

-----------------------------------------------------------------------------
(* Properties *)

\* The submissions of a contract are one conversation: every one but the latest was sent
\* back exactly once and never approved, and the latest has at most one verdict, whatever
\* requests of the two sides overlap (submitContractWork, reviewContractSubmission).
OneVerdictEach ==
    \A n \in 1 .. Len(submissions) :
        LET s == submissions[n] IN
        /\ s.revisions + s.approvals <= 1
        /\ n < Len(submissions) => s.revisions = 1

\* The files of a submission that the seeker was told of are in the storage: no later
\* failure or cleanup of another request takes them away (submitContractWork's catch).
ReportedFilesAreStored ==
    \A n \in 1 .. Len(submissions) :
        submissions[n].reported => submissions[n].files \subseteq stored

=============================================================================
