----------------------------- MODULE Interviews -----------------------------
(***************************************************************************)
(* Interviews of applications: an employer schedules one, edits it while   *)
(* it is scheduled, and cancels it, which gives the application back the   *)
(* status it had.  Between them the employer also sets that status by      *)
(* hand, or selects the candidate.                                         *)
(*                                                                         *)
(* Source: interviews.service.js and updateEmployerApplicationStatus of    *)
(* employerApplications.service.js.  createInterview, cancelInterview and  *)
(* the writing half of updateInterview are transactions that begin with    *)
(* the row lock of the Application; each is one atomic step.  What is read *)
(* before such a transaction is kept by the request: updateInterview       *)
(* checks and merges the row it read before it took the locks, and a       *)
(* status is written after an earlier look for a contract.                 *)
(*                                                                         *)
(* Schedules, messages and notifications are left out.                     *)
(***************************************************************************)
EXTENDS Integers, FiniteSets

CONSTANTS
    Applications,
    Rows,           \* Interview rows
    Requests,       \* updates of interviews and of statuses in progress
    NoRow           \* the application or row of a request that has none

VARIABLES
    status,         \* Application.status
    handed,         \* applications the employer has put into INTERVIEW by hand
    interview,      \* Interview rows
    req             \* control state of each request

interviewVars == <<status, handed, interview, req>>

-----------------------------------------------------------------------------
(* State *)

\* REVIEWING is treated as SHORTLISTED is, and WITHDRAWN as REJECTED; PAYMENT_PENDING as
\* ACCEPTED.
Active == {"APPLIED", "SHORTLISTED", "INTERVIEW"}
Statuses == Active \cup {"REJECTED", "ACCEPTED"}
HandStatuses == {"SHORTLISTED", "INTERVIEW", "REJECTED"}

\* WHATSAPP is treated as PHONE is, and IN_PERSON as VIDEO with a place for its link.
Methods == {"LEAMJOBS", "VIDEO", "PHONE", "OTHER"}
Contacts == {"meetingUrl", "phoneNumber"}

\* contacts: the contact fields that are not null.
Row == [app : Applications, status : {"none", "SCHEDULED", "CANCELLED"},
        previous : Active, method : Methods, contacts : SUBSET Contacts]

\* seen: the method and contacts updateInterview read; given: the method of the input, or
\* "kept"; set and dropped: the contacts the input gives a value or null.
Request == [op : {"none", "update", "status"}, app : Applications \cup {NoRow},
            row : Rows \cup {NoRow},
            value : Statuses, seen : Methods, had : SUBSET Contacts,
            given : Methods \cup {"kept"}, set : SUBSET Contacts, dropped : SUBSET Contacts]

Idle == [op |-> "none", app |-> NoRow, row |-> NoRow, value |-> "APPLIED", seen |-> "OTHER",
         had |-> {}, given |-> "kept", set |-> {}, dropped |-> {}]

TypeOK ==
    /\ status \in [Applications -> Statuses]
    /\ handed \subseteq Applications
    /\ interview \in [Rows -> Row]
    /\ req \in [Requests -> Request]
    /\ \A r \in Requests :
         /\ req[r].op = "update" => req[r].row \in Rows
         /\ req[r].op = "status" => req[r].app \in Applications

Init ==
    /\ status = [a \in Applications |-> "APPLIED"]
    /\ handed = {}
    /\ interview = [i \in Rows |-> [app |-> CHOOSE a \in Applications : TRUE,
                                    status |-> "none", previous |-> "APPLIED",
                                    method |-> "LEAMJOBS", contacts |-> {}]]
    /\ req = [r \in Requests |-> Idle]

-----------------------------------------------------------------------------
(* Helpers *)

\* clearInapplicableMethodFields
Applicable(m) ==
    CASE m = "LEAMJOBS" -> {}
      [] m = "VIDEO" -> {"meetingUrl"}
      [] m = "PHONE" -> {"phoneNumber"}
      [] m = "OTHER" -> Contacts

\* validateMethodFields
Valid(m, contacts) == m = "LEAMJOBS" \/ Applicable(m) \cap contacts # {}

Scheduled(i, a) == interview[i].app = a /\ interview[i].status = "SCHEDULED"

\* Mistake: the cancellation leaves the status alone.
StatusLeftAlone(i, a) == status[a]

\* updateMany { status: 'INTERVIEW' } of cancelInterview
StatusAfterCancel(i, a) ==
    IF status[a] = "INTERVIEW" THEN interview[i].previous ELSE status[a]

-----------------------------------------------------------------------------
(* Interviews *)

\* createInterview
Schedule(i, a, m, contacts) ==
    /\ interview[i].status = "none"
    /\ status[a] \in Active
    /\ ~\E k \in Rows : Scheduled(k, a)
    /\ contacts \subseteq Applicable(m)
    /\ Valid(m, contacts)
    /\ interview' = [interview EXCEPT ![i] =
                       [app |-> a, status |-> "SCHEDULED", previous |-> status[a],
                        method |-> m, contacts |-> contacts]]
    /\ status' = [status EXCEPT ![a] = "INTERVIEW"]
    /\ UNCHANGED <<handed, req>>

\* cancelInterview; a second cancellation changes nothing.
Cancel(i) ==
    LET a == interview[i].app IN
    /\ interview[i].status = "SCHEDULED"
    /\ interview' = [interview EXCEPT ![i].status = "CANCELLED"]
    /\ status' = [status EXCEPT ![a] = StatusAfterCancel(i, a)]
    /\ UNCHANGED <<handed, req>>

\* updateInterview reads the row before its transaction ...
BeginUpdate(r, i, m, set, dropped) ==
    /\ req[r].op = "none"
    /\ interview[i].status # "none"
    /\ set \cap dropped = {}
    /\ req' = [req EXCEPT ![r] = [Idle EXCEPT
                 !.op = "update", !.row = i, !.seen = interview[i].method,
                 !.had = interview[i].contacts, !.given = m, !.set = set,
                 !.dropped = dropped]]
    /\ UNCHANGED <<status, handed, interview>>

\* ... merges the input with it and writes, under the locks, the fields of the input, and
\* those a new method clears.
FinishUpdate(r) ==
    LET q == req[r]
        method == IF q.given = "kept" THEN q.seen ELSE q.given
        values == ((q.had \cup q.set) \ q.dropped) \cap Applicable(method)
        named == q.set \cup q.dropped
        cleared == IF q.given = "kept" THEN {} ELSE q.had \ values
        accepted == interview[q.row].status = "SCHEDULED" /\ Valid(method, values)
    IN
    /\ q.op = "update"
    /\ interview' = IF ~accepted THEN interview
                    ELSE [interview EXCEPT
                      ![q.row].method = IF q.given = "kept" THEN @ ELSE q.given,
                      ![q.row].contacts = (@ \ (named \cup cleared)) \cup (named \cap values)]
    /\ req' = [req EXCEPT ![r] = Idle]
    /\ UNCHANGED <<status, handed>>

-----------------------------------------------------------------------------
(* Statuses *)

\* updateEmployerApplicationStatus, not ACCEPTED: there is no contract yet ...
BeginStatus(r, a, value) ==
    /\ req[r].op = "none"
    /\ status[a] # "ACCEPTED"
    /\ value \in HandStatuses
    /\ req' = [req EXCEPT ![r] = [Idle EXCEPT !.op = "status", !.app = a, !.value = value]]
    /\ UNCHANGED <<status, handed, interview>>

\* ... and the status is written, whatever it is by then.
FinishStatus(r) ==
    LET q == req[r] IN
    /\ q.op = "status"
    /\ status' = [status EXCEPT ![q.app] = q.value]
    /\ handed' = IF q.value = "INTERVIEW" THEN handed \cup {q.app} ELSE handed
    /\ req' = [req EXCEPT ![r] = Idle]
    /\ UNCHANGED interview

\* updateEmployerApplicationStatus, ACCEPTED: ContractEscrow has what follows.
Select(a) ==
    /\ status[a] # "ACCEPTED"
    /\ status' = [status EXCEPT ![a] = "ACCEPTED"]
    /\ UNCHANGED <<handed, interview, req>>

\* The process dies, or a statement fails: the transaction is rolled back.
Abort(r) ==
    /\ req[r] # Idle
    /\ req' = [req EXCEPT ![r] = Idle]
    /\ UNCHANGED <<status, handed, interview>>

-----------------------------------------------------------------------------
(* Specification *)

RequestStep(r) ==
    \/ \E i \in Rows, m \in Methods \cup {"kept"}, set, dropped \in SUBSET Contacts :
         BeginUpdate(r, i, m, set, dropped)
    \/ FinishUpdate(r)
    \/ \E a \in Applications, value \in HandStatuses : BeginStatus(r, a, value)
    \/ FinishStatus(r)
    \/ Abort(r)

Next ==
    \/ \E i \in Rows :
         \/ Cancel(i)
         \/ \E a \in Applications, m \in Methods, contacts \in SUBSET Contacts :
              Schedule(i, a, m, contacts)
    \/ \E a \in Applications : Select(a)
    \/ \E r \in Requests : RequestStep(r)

Spec == Init /\ [][Next]_interviewVars

-----------------------------------------------------------------------------
(* Properties *)

\* An application is in INTERVIEW because an interview of it is scheduled or because the
\* employer put it there: cancelling, rejecting and scheduling again in any order never
\* leave it there (createInterview, cancelInterview, updateEmployerApplicationStatus).
InterviewIsScheduled ==
    \A a \in Applications : status[a] = "INTERVIEW" /\ a \notin handed =>
        \E i \in Rows : Scheduled(i, a)

=============================================================================
