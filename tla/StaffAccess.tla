----------------------------- MODULE StaffAccess -----------------------------
(***************************************************************************)
(* Staff administrators: a super administrator invites an address, sends   *)
(* the invitation again, revokes it, and changes the permissions of the    *)
(* account that its acceptance creates.                                    *)
(*                                                                         *)
(* Source: adminStaff.service.js, for one address.  A new invitation holds *)
(* the advisory lock of the address, an invitation sent again or accepted  *)
(* its row lock and then that of the address, a change of permissions the  *)
(* row lock of the AdminAccount; a lock is held by the request whose pc is *)
(* past it until its transaction ends.  An acceptance finds its invitation *)
(* by the token before it takes a lock.                                    *)
(*                                                                         *)
(* Tokens are numbered in the order in which they are drawn.  The audit    *)
(* trail and the mail that brings the token are left out; sign-in and      *)
(* suspension are those of AccountAccess.                                  *)
(***************************************************************************)
EXTENDS Integers, FiniteSets

CONSTANTS
    Invitations,    \* AdminInvitation rows of the address
    Permissions,
    Requests,
    MaxTokens,      \* bound: tokens drawn
    NoInvitation    \* the invitation of a request that has none

VARIABLES
    invitation,     \* AdminInvitation rows
    drawn,          \* tokens drawn so far
    accounts,       \* accounts created with the address
    grants,         \* AdminPermissionGrant rows of the account
    ledger,         \* permissions whose last AdminPermissionGrantEvent is GRANTED
    req

staffVars == <<invitation, drawn, accounts, grants, ledger, req>>

-----------------------------------------------------------------------------
(* State *)

\* PENDING: neither accepted nor revoked, and not past expiresAt, as an EXPIRED one is.
Invitation == [status : {"none", "PENDING", "EXPIRED", "ACCEPTED", "REVOKED"}, token : Nat,
               keys : SUBSET Permissions]

Request == [op : {"none", "create", "resend", "accept", "permit"},
            pc : {"idle", "read", "row", "email", "locked"},
            on : Invitations \cup {NoInvitation}, token : Nat,
            keys : SUBSET Permissions, saw : SUBSET Permissions]

Idle == [op |-> "none", pc |-> "idle", on |-> NoInvitation, token |-> 0, keys |-> {},
         saw |-> {}]

NotSent == [status |-> "none", token |-> 0, keys |-> {}]

TypeOK ==
    /\ invitation \in [Invitations -> Invitation]
    /\ drawn \in 0 .. MaxTokens
    /\ accounts \in Nat
    /\ grants \subseteq Permissions
    /\ ledger \subseteq Permissions
    /\ req \in [Requests -> Request]
    /\ \A r \in Requests : req[r].op # "none" /\ req[r].op # "permit" => req[r].on \in Invitations

Init ==
    /\ invitation = [i \in Invitations |-> NotSent]
    /\ drawn = 0
    /\ accounts = 0
    /\ grants = {}
    /\ ledger = {}
    /\ req = [r \in Requests |-> Idle]

-----------------------------------------------------------------------------
(* Helpers *)

\* Mistakes: the account is not locked; the row read again is not asked for its token.
Unlocked == TRUE
ById(i, n) == invitation[i].status = "PENDING"

\* pg_advisory_xact_lock of lockEmail
EmailFree == \A r \in Requests : req[r].pc # "email"

\* lockInvitation
RowFree(i) == \A r \in Requests : req[r].on = i => req[r].pc \notin {"row", "email"}

\* SELECT ... FROM "AdminAccount" ... FOR UPDATE
AccountFree == \A r \in Requests : req[r].pc # "locked"

\* findFirst { id, tokenHash } of an acceptance, not accepted, revoked or expired.
Valid(i, n) == ById(i, n) /\ invitation[i].token = n

Open(i) == invitation[i].status \in {"PENDING", "EXPIRED"}

OtherPending(i) == \E k \in Invitations \ {i} : invitation[k].status = "PENDING"

Keep(r, q) == req' = [req EXCEPT ![r] = q]
Answer(r) == Keep(r, Idle)

-----------------------------------------------------------------------------
(* Invitations *)

\* createAdminInvitation: under the lock of the address, which has no account and no
\* pending invitation ...
BeginCreate(r, i, keys) ==
    /\ req[r] = Idle
    /\ invitation[i].status = "none"
    /\ \A k \in Requests : req[k].on # i
    /\ keys # {}
    /\ EmailFree
    /\ accounts = 0
    /\ ~OtherPending(i)
    /\ drawn < MaxTokens
    /\ drawn' = drawn + 1
    /\ Keep(r, [Idle EXCEPT !.op = "create", !.pc = "email", !.on = i, !.token = drawn + 1,
                            !.keys = keys])
    /\ UNCHANGED <<invitation, accounts, grants, ledger>>

\* ... the row is created.
FinishCreate(r) ==
    LET q == req[r] IN
    /\ q.op = "create"
    /\ invitation' = [invitation EXCEPT ![q.on] = [status |-> "PENDING", token |-> q.token,
                                                   keys |-> q.keys]]
    /\ Answer(r)
    /\ UNCHANGED <<drawn, accounts, grants, ledger>>

\* resendAdminInvitation, of an expired one as well: the row ...
BeginResend(r, i) ==
    /\ req[r] = Idle
    /\ RowFree(i)
    /\ Open(i)
    /\ drawn < MaxTokens
    /\ drawn' = drawn + 1
    /\ Keep(r, [Idle EXCEPT !.op = "resend", !.pc = "row", !.on = i, !.token = drawn + 1])
    /\ UNCHANGED <<invitation, accounts, grants, ledger>>

\* ... the address ...
LockEmail(r) ==
    /\ req[r].op = "resend" /\ req[r].pc = "row"
    /\ EmailFree
    /\ Keep(r, IF OtherPending(req[r].on) THEN Idle ELSE [req[r] EXCEPT !.pc = "email"])
    /\ UNCHANGED <<invitation, drawn, accounts, grants, ledger>>

\* ... and a new token and expiry.
FinishResend(r) ==
    LET q == req[r] IN
    /\ q.op = "resend" /\ q.pc = "email"
    /\ invitation' = [invitation EXCEPT ![q.on].token = q.token, ![q.on].status = "PENDING"]
    /\ Answer(r)
    /\ UNCHANGED <<drawn, accounts, grants, ledger>>

\* revokeAdminInvitation
Revoke(i) ==
    /\ RowFree(i)
    /\ Open(i)
    /\ invitation' = [invitation EXCEPT ![i].status = "REVOKED"]
    /\ UNCHANGED <<drawn, accounts, grants, ledger, req>>

Expire(i) ==
    /\ invitation[i].status = "PENDING"
    /\ invitation' = [invitation EXCEPT ![i].status = "EXPIRED"]
    /\ UNCHANGED <<drawn, accounts, grants, ledger, req>>

\* acceptAdminInvitation finds the row by the token of the link ...
BeginAccept(r, i) ==
    /\ req[r] = Idle
    /\ invitation[i].status # "none"
    /\ Keep(r, [Idle EXCEPT !.op = "accept", !.pc = "read", !.on = i,
                            !.token = invitation[i].token])
    /\ UNCHANGED <<invitation, drawn, accounts, grants, ledger>>

\* ... and, under both locks, reads it again, claims it and creates the account.
FinishAccept(r) ==
    LET q == req[r]
        accepted == Valid(q.on, q.token) /\ accounts = 0
    IN
    /\ q.op = "accept"
    /\ RowFree(q.on)
    /\ EmailFree
    /\ IF accepted
       THEN /\ invitation' = [invitation EXCEPT ![q.on].status = "ACCEPTED"]
            /\ accounts' = accounts + 1
            /\ grants' = invitation[q.on].keys
            /\ ledger' = invitation[q.on].keys
       ELSE UNCHANGED <<invitation, accounts, grants, ledger>>
    /\ Answer(r)
    /\ UNCHANGED drawn

-----------------------------------------------------------------------------
(* Permissions *)

\* updateStaffPermissions reads the grants under the lock of the account ...
BeginPermit(r, keys) ==
    /\ req[r] = Idle
    /\ accounts > 0
    /\ AccountFree
    /\ Keep(r, [Idle EXCEPT !.op = "permit", !.pc = "locked", !.keys = keys, !.saw = grants])
    /\ UNCHANGED <<invitation, drawn, accounts, grants, ledger>>

\* ... and deletes and creates the difference, an event for each.  A deletion that finds
\* no row rolls the change back.
FinishPermit(r) ==
    LET q == req[r]
        toRevoke == q.saw \ q.keys
        toGrant == q.keys \ q.saw
        possible == toRevoke \subseteq grants /\ toGrant \cap grants = {}
    IN
    /\ q.op = "permit"
    /\ grants' = IF possible THEN (grants \ toRevoke) \cup toGrant ELSE grants
    /\ ledger' = IF possible THEN (ledger \ toRevoke) \cup toGrant ELSE ledger
    /\ Answer(r)
    /\ UNCHANGED <<invitation, drawn, accounts>>

\* The process dies, or a statement fails: the transaction is rolled back.
Abort(r) ==
    /\ req[r] # Idle
    /\ Answer(r)
    /\ UNCHANGED <<invitation, drawn, accounts, grants, ledger>>

-----------------------------------------------------------------------------
(* Specification *)

RequestStep(r) ==
    \/ \E i \in Invitations :
         \/ \E keys \in SUBSET Permissions : BeginCreate(r, i, keys)
         \/ BeginResend(r, i)
         \/ BeginAccept(r, i)
    \/ FinishCreate(r)
    \/ LockEmail(r)
    \/ FinishResend(r)
    \/ FinishAccept(r)
    \/ \E keys \in SUBSET Permissions : BeginPermit(r, keys)
    \/ FinishPermit(r)
    \/ Abort(r)

Next ==
    \/ \E r \in Requests : RequestStep(r)
    \/ \E i \in Invitations : Revoke(i) \/ Expire(i)

Spec == Init /\ [][Next]_staffVars

-----------------------------------------------------------------------------
(* Properties *)

\* An invitation is accepted with the token that was sent last, at most once for the
\* address: an older link fails even when it was opened before the newer one was sent
\* (acceptAdminInvitation).
AcceptedWithLastToken ==
    [][\A i \in Invitations :
         invitation[i].status # "ACCEPTED" /\ invitation'[i].status = "ACCEPTED" =>
            /\ accounts = 0 /\ accounts' = 1
            /\ \E r \in Requests : req[r].op = "accept" /\ req[r].on = i
                                   /\ req[r].token = invitation[i].token /\ req'[r] = Idle]_staffVars

\* A change of permissions leaves exactly the permissions it was asked for, and the events
\* tell what is granted, when two administrators change them at once
\* (updateStaffPermissions).
PermissionsAsAsked ==
    [][\A r \in Requests : req[r].op = "permit" /\ grants' # grants /\ req'[r] = Idle =>
         grants' = req[r].keys /\ ledger' = grants']_staffVars

=============================================================================
