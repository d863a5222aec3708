--------------------------- MODULE AccountAccess ---------------------------
(***************************************************************************)
(* One account from its registration to its anonymization: e-mail          *)
(* verification, signing in with a password, password resets, and the      *)
(* suspension of a member of staff.                                        *)
(*                                                                         *)
(* Source: auth.service.js, authSession.service.js,                        *)
(* emailVerification.service.js, passwordReset.service.js,                 *)
(* adminStaff.service.js, adminAccountAnonymization.service.js and         *)
(* auth.controller.js.                                                     *)
(*                                                                         *)
(* A sign-in holds the User's row lock from the comparison of the password *)
(* to the insert of the session; every other write of the User waits for   *)
(* it.  Resets, verifications and the sending of codes read outside their  *)
(* transaction and write under a condition: the request keeps what it      *)
(* read.  The process may die between any two steps.                       *)
(*                                                                         *)
(* A request names the address that the account has when it reads it: an   *)
(* anonymization replaces the address, the row stays one like any other.   *)
(*                                                                         *)
(* A token, a code or a session that expires is one that is used or        *)
(* revoked.  The password of a request is the one the account had when     *)
(* the request compared it.                                                *)
(***************************************************************************)
EXTENDS Integers, FiniteSets

CONSTANTS
    Sessions,
    Tokens,          \* PasswordResetToken rows
    Requests,
    MaxAttempts,     \* wrong codes until the code is void
    MaxRows,         \* bound: EmailVerificationCode rows
    MaxChanges,      \* bound: changes of the password, and suspensions
    NoRow            \* the token of a request that has none

ASSUME AccountAssumption ==
    /\ MaxAttempts \in Nat \ {0}
    /\ MaxRows \in Nat
    /\ MaxChanges \in Nat
    /\ NoRow \notin Tokens

VARIABLES
    user,
    code,            \* the EmailVerificationCode row
    token,
    session,
    req

accountVars == <<user, code, token, session, req>>

-----------------------------------------------------------------------------
(* State *)

Kinds == {"none", "PASSWORD", "LEGACY", "STAFF"}

\* password and era count the passwords and the suspensions of the account; forgotten is the
\* last row that a code had when the account was anonymized.
User == [kind : Kinds, active : BOOLEAN, verified : BOOLEAN, suspended : BOOLEAN,
         anonymized : BOOLEAN, password : Nat, era : Nat, forgotten : Nat]

Code == [row : Nat, open : BOOLEAN, exists : BOOLEAN, attempts : Nat]

Session == [state : {"none", "live", "revoked"}, password : Nat, era : Nat]

Request == [op : {"none", "send", "verify", "miss", "login", "reset"},
            on : Tokens \cup {NoRow}, row : Nat, attempts : Nat,
            password : Nat, era : Nat]

Idle == [op |-> "none", on |-> NoRow, row |-> 0, attempts |-> 0, password |-> 0, era |-> 0]

NoSession == [state |-> "none", password |-> 0, era |-> 0]

WellFormed(q) == q.op = "reset" => q.on \in Tokens

TypeOK ==
    /\ user \in User
    /\ code \in Code
    /\ token \in [Tokens -> {"none", "live", "used"}]
    /\ session \in [Sessions -> Session]
    /\ req \in [Requests -> Request]
    /\ \A r \in Requests : WellFormed(req[r])

\* Nobody, or a user from before addresses were verified.
Init ==
    /\ user \in {[kind |-> k, active |-> k = "LEGACY", verified |-> FALSE,
                  suspended |-> FALSE, anonymized |-> FALSE, password |-> 1, era |-> 0,
                  forgotten |-> 0] :
                   k \in {"none", "LEGACY"}}
    /\ code = [row |-> 0, open |-> FALSE, exists |-> FALSE, attempts |-> 0]
    /\ token = [t \in Tokens |-> "none"]
    /\ session = [s \in Sessions |-> NoSession]
    /\ req = [r \in Requests |-> Idle]

-----------------------------------------------------------------------------
(* Helpers *)

\* Mistakes: nothing locks the User, or an anonymization leaves the code.
Unlocked == TRUE
Remembered == code

\* SELECT ... FROM "User" ... FOR UPDATE of loginUser
UserFree == \A r \in Requests : req[r].op # "login"

\* loginUser: verified and active, or active from before there were codes; staff are not
\* suspended.
MayLogIn ==
    /\ user.active
    /\ user.verified \/ ~code.exists
    /\ ~user.suspended

\* An anonymization deletes the row of the code.
Forgotten == [code EXCEPT !.exists = FALSE, !.open = FALSE]

\* authenticate: what a session is worth.
Works(s) == session[s].state = "live" /\ user.active /\ ~user.suspended

NewSession(s, password, era) ==
    /\ session[s].state = "none"
    /\ session' = [session EXCEPT ![s] = [state |-> "live", password |-> password, era |-> era]]

AllRevoked ==
    [s \in Sessions |-> IF session[s].state = "live" THEN [session[s] EXCEPT !.state = "revoked"]
                        ELSE session[s]]

Keep(r, q) == req' = [req EXCEPT ![r] = q]
Answer(r) == Keep(r, Idle)

-----------------------------------------------------------------------------
(* Registration and verification *)

\* registerUser, and acceptAdminInvitation for staff.
Register(kind) ==
    /\ user.kind = "none"
    /\ kind \in {"PASSWORD", "STAFF"}
    /\ user' = [user EXCEPT !.kind = kind, !.active = kind = "STAFF",
                            !.verified = kind = "STAFF"]
    /\ UNCHANGED <<code, token, session, req>>

\* resendEmailVerification, and the end of a registration: the user is read by its address ...
BeginSend(r) ==
    /\ req[r] = Idle
    /\ user.kind # "none" /\ ~user.verified
    /\ Keep(r, [Idle EXCEPT !.op = "send"])
    /\ UNCHANGED <<user, code, token, session>>

\* ... and createEmailVerificationChallenge writes the code over the row, or into a new one.
\* Within the cooldown it does nothing.
FinishSend(r) ==
    /\ req[r].op = "send"
    /\ code.exists \/ code.row < MaxRows
    /\ code' = [row |-> IF code.exists THEN code.row ELSE code.row + 1, open |-> TRUE,
                exists |-> TRUE, attempts |-> 0]
    /\ Answer(r)
    /\ UNCHANGED <<user, token, session>>

CodeExpires ==
    /\ code.open
    /\ code' = [code EXCEPT !.open = FALSE]
    /\ UNCHANGED <<user, token, session, req>>

\* verifyEmailWithCode reads the user and the code and compares ...
BeginVerify(r, op) ==
    /\ req[r] = Idle
    /\ op \in {"verify", "miss"}
    /\ ~user.verified
    /\ code.exists /\ code.open
    /\ Keep(r, [Idle EXCEPT !.op = op, !.row = code.row, !.attempts = code.attempts])
    /\ UNCHANGED <<user, code, token, session>>

\* ... claims the row, whatever code is in it by then, and activates the user ...
FinishVerify(r) ==
    LET claimed == code.exists /\ code.open /\ code.row = req[r].row /\ ~user.verified IN
    /\ req[r].op = "verify"
    /\ UserFree
    /\ code' = IF claimed THEN [code EXCEPT !.open = FALSE] ELSE code
    /\ user' = IF claimed THEN [user EXCEPT !.verified = TRUE, !.active = TRUE] ELSE user
    /\ Answer(r)
    /\ UNCHANGED <<token, session>>

\* ... or counts a wrong code on from the number it read.
CountMiss(r) ==
    LET n == req[r].attempts + 1 IN
    /\ req[r].op = "miss"
    /\ code' = IF code.exists /\ code.open /\ code.row = req[r].row
               THEN [code EXCEPT !.attempts = n, !.open = n < MaxAttempts] ELSE code
    /\ Answer(r)
    /\ UNCHANGED <<user, token, session>>

-----------------------------------------------------------------------------
(* Passwords *)

\* loginUser locks the User and compares the password ...
BeginLogin(r) ==
    /\ req[r] = Idle
    /\ UserFree
    /\ MayLogIn
    /\ Keep(r, [Idle EXCEPT !.op = "login", !.password = user.password, !.era = user.era])
    /\ UNCHANGED <<user, code, token, session>>

\* ... and createAuthenticatedSession.
FinishLogin(r, s) ==
    /\ req[r].op = "login"
    /\ NewSession(s, req[r].password, req[r].era)
    /\ Answer(r)
    /\ UNCHANGED <<user, code, token>>

\* logout, or the session expires.
EndSession(s) ==
    /\ session[s].state = "live"
    /\ session' = [session EXCEPT ![s].state = "revoked"]
    /\ UNCHANGED <<user, code, token, req>>

\* requestPasswordReset, its look at the user and the insert of the token in one step.
RequestReset(t) ==
    /\ user.active
    /\ token[t] = "none"
    /\ token' = [token EXCEPT ![t] = "live"]
    /\ UNCHANGED <<user, code, session, req>>

TokenExpires(t) ==
    /\ token[t] = "live"
    /\ token' = [token EXCEPT ![t] = "used"]
    /\ UNCHANGED <<user, code, session, req>>

\* resetPassword reads the token ...
BeginReset(r, t) ==
    /\ req[r] = Idle
    /\ token[t] = "live"
    /\ user.password <= MaxChanges
    /\ Keep(r, [Idle EXCEPT !.op = "reset", !.on = t])
    /\ UNCHANGED <<user, code, token, session>>

\* ... claims it under the row lock, voids the others, revokes every session and writes
\* the password.
FinishReset(r) ==
    LET claimed == token[req[r].on] = "live" IN
    /\ req[r].op = "reset"
    /\ UserFree
    /\ token' = IF claimed THEN [t \in Tokens |-> IF token[t] = "live" THEN "used" ELSE token[t]]
                ELSE token
    /\ session' = IF claimed THEN AllRevoked ELSE session
    /\ user' = IF claimed THEN [user EXCEPT !.password = @ + 1] ELSE user
    /\ Answer(r)
    /\ UNCHANGED code

-----------------------------------------------------------------------------
(* Administration *)

\* suspendStaff: the user is inactive before the sessions are revoked.
Suspend ==
    /\ user.kind = "STAFF" /\ user.active
    /\ user.era < MaxChanges
    /\ UserFree
    /\ user' = [user EXCEPT !.active = FALSE, !.suspended = TRUE, !.era = @ + 1]
    /\ session' = AllRevoked
    /\ UNCHANGED <<code, token, req>>

\* reactivateStaff
Reactivate ==
    /\ user.suspended
    /\ UserFree
    /\ user' = [user EXCEPT !.active = TRUE, !.suspended = FALSE]
    /\ UNCHANGED <<code, token, session, req>>

\* anonymizeAdminManagedAccount: the address is replaced, codes and tokens are deleted, the
\* password and the sessions stay.
Anonymize ==
    /\ user.kind \in {"PASSWORD", "LEGACY"}
    /\ ~user.anonymized
    /\ UserFree
    /\ user' = [user EXCEPT !.active = FALSE, !.verified = FALSE, !.anonymized = TRUE,
                            !.forgotten = code.row]
    /\ code' = Forgotten
    /\ token' = [t \in Tokens |-> IF token[t] = "none" THEN "none" ELSE "used"]
    /\ UNCHANGED <<session, req>>

\* The process dies, or a call fails; a transaction is rolled back.
Abort(r) ==
    /\ req[r] # Idle
    /\ Answer(r)
    /\ UNCHANGED <<user, code, token, session>>

-----------------------------------------------------------------------------
(* Specification *)

AccountStep ==
    \/ \E kind \in {"PASSWORD", "STAFF"} : Register(kind)
    \/ CodeExpires
    \/ \E s \in Sessions : EndSession(s)
    \/ \E t \in Tokens : RequestReset(t) \/ TokenExpires(t)
    \/ Suspend
    \/ Reactivate
    \/ Anonymize

RequestStep(r) ==
    \/ BeginSend(r)
    \/ FinishSend(r)
    \/ \E op \in {"verify", "miss"} : BeginVerify(r, op)
    \/ FinishVerify(r)
    \/ CountMiss(r)
    \/ BeginLogin(r)
    \/ \E s \in Sessions : FinishLogin(r, s)
    \/ \E t \in Tokens : BeginReset(r, t)
    \/ FinishReset(r)
    \/ Abort(r)

Next == AccountStep \/ \E r \in Requests : RequestStep(r)

Spec == Init /\ [][Next]_accountVars

-----------------------------------------------------------------------------
(* Properties *)

\* A session that works was opened under the password the account has now and since its
\* last suspension: a sign-in that overlaps a reset or a suspension never leaves one that
\* outlives it, after a reactivation either (loginUser, resetPassword, suspendStaff).
WorkingSessionsAreCurrent ==
    \A s \in Sessions : Works(s) =>
        session[s].password = user.password /\ session[s].era = user.era

\* What is stored or under way when an account is anonymized neither opens a session for it
\* nor activates it again, be it a sign-in or a verification that read its code before: it
\* stays inactive until a code stored since is used, as one whose sending read the user before
\* is (anonymizeAdminManagedAccount, createEmailVerificationChallenge, verifyEmailWithCode).
InactiveUntilNewCode ==
    [][user.anonymized /\ ~user.active =>
         /\ user'.active => code.row > user.forgotten
         /\ \A s \in Sessions : session[s].state = "none" => session'[s].state = "none"]_accountVars
=============================================================================
