----------------------------- MODULE Recruitment -----------------------------
(***************************************************************************)
(* Hiring, Interviews, ContractWork and EmployerVerification side by side. *)
(* They share no row that one of them leaves to another, so a behaviour is *)
(* about one of them, the scene, which its initial state chooses; the      *)
(* variables of the others keep their initial values.                      *)
(***************************************************************************)
EXTENDS Hiring

CONSTANTS
    Applications, Rows, Editors,   \* Editors: requests about interviews
    Files, MaxSubmissions, MaxProgress,
    Documents, MaxDossiers, Visitors   \* Visitors: requests about the verification

ASSUME ScenesAssumption == Applications # {} /\ MaxProgress \in Nat

VARIABLES
    scene,
    status, handed, interview, interviewReq,
    work, progress, submissions, workStored, drawn, workReq,
    record, profile, docs, stored, sent, submitted, decisions, verificationReq

I == INSTANCE Interviews WITH Requests <- Editors, req <- interviewReq, NoRow <- None
W == INSTANCE ContractWork WITH stored <- workStored, req <- workReq
E == INSTANCE EmployerVerification WITH
        Requests <- Visitors, submissions <- submitted, req <- verificationReq, NoDocument <- None

interviews == <<status, handed, interview, interviewReq>>
contractWork == <<work, progress, submissions, workStored, drawn, workReq>>
verification == <<record, profile, docs, stored, sent, submitted, decisions,
                  verificationReq>>
all == <<scene, vars, interviews, contractWork, verification>>

InitAll == Init /\ I!Init /\ W!Init /\ E!Init
             /\ scene \in {"hiring", "interviews", "work", "verification"}

NextInScene ==
    \/ /\ scene = "hiring" /\ Next
       /\ UNCHANGED <<scene, interviews, contractWork, verification>>
    \/ /\ scene = "interviews" /\ I!Next
       /\ UNCHANGED <<scene, vars, contractWork, verification>>
    \/ /\ scene = "work" /\ W!Next
       /\ UNCHANGED <<scene, vars, interviews, verification>>
    \/ /\ scene = "verification" /\ E!Next
       /\ UNCHANGED <<scene, vars, interviews, contractWork>>

SpecInScene == InitAll /\ [][NextInScene]_all

-----------------------------------------------------------------------------
(* Properties of the instances *)

\* An application is in INTERVIEW because an interview of it is scheduled or because the
\* employer put it there (createInterview, cancelInterview,
\* updateEmployerApplicationStatus).
InterviewIsScheduled == I!InterviewIsScheduled

\* Every submission but the latest was sent back exactly once and never approved, and the
\* latest has at most one verdict (submitContractWork, reviewContractSubmission).
OneVerdictEach == W!OneVerdictEach

\* The files of a submission that the seeker was told of are in the storage
\* (submitContractWork's catch).
ReportedFilesAreStored == W!ReportedFilesAreStored

\* Submissions and decisions that take effect alternate (submitEmployerVerification,
\* approveEmployerVerification, rejectEmployerVerification).
OneDecisionPerSubmission == E!OneDecisionPerSubmission

=============================================================================
