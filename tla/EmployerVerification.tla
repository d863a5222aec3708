------------------------ MODULE EmployerVerification ------------------------
(***************************************************************************)
(* Verification of one employer: the dossier is drafted, submitted,        *)
(* approved or declined, and submitted again; documents come and go while  *)
(* it is not under review.                                                 *)
(*                                                                         *)
(* Source: employerVerification.service.js.  Nothing takes a row lock:     *)
(* every operation reads the row, decides, and later writes under a        *)
(* condition of the UPDATE (or under none, for documents).  A request      *)
(* keeps what it read in between, so the steps of several requests         *)
(* interleave.  An approval writes the company profile from the row it     *)
(* read and changes the status in one transaction.                         *)
(*                                                                         *)
(* Dossiers are numbered in the order they are sent; notifications, which  *)
(* never fail the operation, are left out.                                 *)
(***************************************************************************)
EXTENDS Integers, FiniteSets

CONSTANTS
    Documents,
    Requests,
    MaxDossiers,   \* bound: dossiers the employer sends
    NoDocument     \* the document of a request that has none

VARIABLES
    record,        \* the EmployerVerification row
    profile,       \* the dossier the company profile was published from, 0 for none
    docs,          \* EmployerVerificationDocument rows
    stored,        \* documents whose file is in the storage
    sent,          \* dossiers the employer has sent so far
    submissions,   \* history: submissions that took effect
    decisions,     \* history: decisions that took effect
    req

verificationVars ==
    <<record, profile, docs, stored, sent, submissions, decisions, req>>

-----------------------------------------------------------------------------
(* State *)

Record == [status : {"none", "PENDING", "APPROVED", "REJECTED"}, submitted : BOOLEAN,
           dossier : Nat]

\* seen: the record as the request read it; dossier: the one a submission brings.
Request == [op : {"none", "submit", "approve", "reject", "upload", "delete"},
            pc : {"idle", "create", "write", "check", "ensure", "row"},
            seen : Record, dossier : Nat, doc : Documents \cup {NoDocument}]

NoRecord == [status |-> "none", submitted |-> FALSE, dossier |-> 0]

Idle == [op |-> "none", pc |-> "idle", seen |-> NoRecord, dossier |-> 0,
         doc |-> NoDocument]

TypeOK ==
    /\ record \in Record
    /\ profile \in Nat
    /\ docs \subseteq Documents
    /\ stored \subseteq Documents
    /\ sent \in Nat
    /\ submissions \in Nat
    /\ decisions \in Nat
    /\ req \in [Requests -> Request]
    /\ \A r \in Requests : req[r].op = "upload" => req[r].doc \in Documents

Init ==
    /\ record = NoRecord
    /\ profile = 0
    /\ docs = {}
    /\ stored = {}
    /\ sent = 0
    /\ submissions = 0
    /\ decisions = 0
    /\ req = [r \in Requests |-> Idle]

-----------------------------------------------------------------------------
(* Helpers *)

\* PENDING with a submittedAt; assertReviewableVerification at the read.
UnderReview(v) == v.status = "PENDING" /\ v.submitted

\* What a submission and a document may still change.
Editable(v) == v.status # "APPROVED" /\ ~UnderReview(v)

\* Mistake: the UPDATE names the row only.
AnyRecord(v) == record.status # "none"

\* The condition of the UPDATE of a submission that read v: the same status, and not
\* submitted if it was not.
Claims(v) ==
    /\ record.status = v.status
    /\ v.status = "PENDING" => ~record.submitted

\* The condition of the UPDATE of a decision.
StillUnderReview == UnderReview(record)

Reserved(d) == \E r \in Requests : req[r].doc = d

Answer(r) == req' = [req EXCEPT ![r] = Idle]

-----------------------------------------------------------------------------
(* Submission *)

\* submitEmployerVerification, up to its first read of the row.
BeginSubmit(r) ==
    /\ req[r] = Idle
    /\ sent < MaxDossiers
    /\ Editable(record)
    /\ sent' = sent + 1
    /\ req' = [req EXCEPT ![r] = [Idle EXCEPT
                 !.op = "submit", !.seen = record, !.dossier = sent + 1,
                 !.pc = IF record.status = "none" THEN "create" ELSE "write"]]
    /\ UNCHANGED <<record, profile, docs, stored, submissions, decisions>>

Submitted(n) == record' = [status |-> "PENDING", submitted |-> TRUE, dossier |-> n]

\* The create; after P2002 the row is read once more.
CreateRecord(r) ==
    LET q == req[r] IN
    /\ q.pc = "create"
    /\ IF record.status = "none"
       THEN /\ Submitted(q.dossier)
            /\ submissions' = submissions + 1
            /\ Answer(r)
       ELSE /\ req' = [req EXCEPT ![r] = IF Editable(record)
                         THEN [q EXCEPT !.pc = "write", !.seen = record] ELSE Idle]
            /\ UNCHANGED <<record, submissions>>
    /\ UNCHANGED <<profile, docs, stored, sent, decisions>>

\* The conditional update; a count of 0 is answered with a conflict.
WriteSubmission(r) ==
    LET q == req[r] IN
    /\ q.op = "submit" /\ q.pc = "write"
    /\ IF Claims(q.seen)
       THEN Submitted(q.dossier) /\ submissions' = submissions + 1
       ELSE UNCHANGED <<record, submissions>>
    /\ Answer(r)
    /\ UNCHANGED <<profile, docs, stored, sent, decisions>>

-----------------------------------------------------------------------------
(* Review *)

\* approveEmployerVerification and rejectEmployerVerification read the row.
BeginReview(r, op) ==
    /\ req[r] = Idle
    /\ UnderReview(record)
    /\ req' = [req EXCEPT ![r] = [Idle EXCEPT !.op = op, !.pc = "write", !.seen = record]]
    /\ UNCHANGED <<record, profile, docs, stored, sent, submissions, decisions>>

\* The transaction of an approval: it is rolled back when the row is not under review.
Approve(r) ==
    LET q == req[r] IN
    /\ q.op = "approve"
    /\ IF StillUnderReview
       THEN /\ record' = [record EXCEPT !.status = "APPROVED"]
            /\ profile' = q.seen.dossier
            /\ decisions' = decisions + 1
       ELSE UNCHANGED <<record, profile, decisions>>
    /\ Answer(r)
    /\ UNCHANGED <<docs, stored, sent, submissions>>

Reject(r) ==
    /\ req[r].op = "reject"
    /\ IF StillUnderReview
       THEN /\ record' = [record EXCEPT !.status = "REJECTED"]
            /\ decisions' = decisions + 1
       ELSE UNCHANGED <<record, decisions>>
    /\ Answer(r)
    /\ UNCHANGED <<profile, docs, stored, sent, submissions>>

-----------------------------------------------------------------------------
(* Documents *)

\* uploadVerificationDocument stores the file before it looks at the row ...
BeginUpload(r, d) ==
    /\ req[r] = Idle
    /\ d \notin docs \cup stored
    /\ ~Reserved(d)
    /\ stored' = stored \cup {d}
    /\ req' = [req EXCEPT ![r] = [Idle EXCEPT !.op = "upload", !.pc = "check", !.doc = d]]
    /\ UNCHANGED <<record, profile, docs, sent, submissions, decisions>>

\* ... and deletes it when the documents are closed.
CheckUpload(r) ==
    LET q == req[r] IN
    /\ q.op = "upload" /\ q.pc = "check"
    /\ IF Editable(record)
       THEN /\ req' = [req EXCEPT ![r].pc = IF record.status = "none" THEN "ensure" ELSE "row"]
            /\ UNCHANGED stored
       ELSE /\ stored' = stored \ {q.doc}
            /\ Answer(r)
    /\ UNCHANGED <<record, profile, docs, sent, submissions, decisions>>

\* ensureVerificationRecord: an empty draft, unless a row has appeared.
EnsureRecord(r) ==
    /\ req[r].pc = "ensure"
    /\ record' = IF record.status = "none" THEN [NoRecord EXCEPT !.status = "PENDING"]
                 ELSE record
    /\ req' = [req EXCEPT ![r].pc = "row"]
    /\ UNCHANGED <<profile, docs, stored, sent, submissions, decisions>>

\* The row of the document; when it cannot be saved the file is deleted.
SaveDocument(r, saved) ==
    LET d == req[r].doc IN
    /\ req[r].op = "upload" /\ req[r].pc = "row"
    /\ docs' = IF saved THEN docs \cup {d} ELSE docs
    /\ stored' = IF saved THEN stored ELSE stored \ {d}
    /\ Answer(r)
    /\ UNCHANGED <<record, profile, sent, submissions, decisions>>

\* deleteVerificationDocumentForUser: the check, the file, then the row.
BeginDelete(r, d) ==
    /\ req[r] = Idle
    /\ d \in docs
    /\ Editable(record)
    /\ req' = [req EXCEPT ![r] = [Idle EXCEPT !.op = "delete", !.pc = "check", !.doc = d]]
    /\ UNCHANGED <<record, profile, docs, stored, sent, submissions, decisions>>

DeleteFile(r) ==
    /\ req[r].op = "delete" /\ req[r].pc = "check"
    /\ stored' = stored \ {req[r].doc}
    /\ req' = [req EXCEPT ![r].pc = "row"]
    /\ UNCHANGED <<record, profile, docs, sent, submissions, decisions>>

DeleteRow(r) ==
    /\ req[r].op = "delete" /\ req[r].pc = "row"
    /\ docs' = docs \ {req[r].doc}
    /\ Answer(r)
    /\ UNCHANGED <<record, profile, stored, sent, submissions, decisions>>

\* The process dies, or a call fails and the error is returned.
Abort(r) ==
    /\ req[r] # Idle
    /\ Answer(r)
    /\ UNCHANGED <<record, profile, docs, stored, sent, submissions, decisions>>

-----------------------------------------------------------------------------
(* Specification *)

RequestStep(r) ==
    \/ BeginSubmit(r)
    \/ CreateRecord(r)
    \/ WriteSubmission(r)
    \/ \E op \in {"approve", "reject"} : BeginReview(r, op)
    \/ Approve(r)
    \/ Reject(r)
    \/ \E d \in Documents : BeginUpload(r, d) \/ BeginDelete(r, d)
    \/ CheckUpload(r)
    \/ EnsureRecord(r)
    \/ \E saved \in BOOLEAN : SaveDocument(r, saved)
    \/ DeleteFile(r)
    \/ DeleteRow(r)
    \/ Abort(r)

Next == \E r \in Requests : RequestStep(r)

Spec == Init /\ [][Next]_verificationVars

-----------------------------------------------------------------------------
(* Properties *)

\* Every submission that takes effect is decided at most once, by one administrator, and
\* nothing is decided that was not submitted: the conditional updates of submissions and
\* decisions alternate, although both act on rows read earlier.
OneDecisionPerSubmission ==
    IF UnderReview(record) THEN submissions = decisions + 1 ELSE submissions = decisions

=============================================================================
