--------------------------- MODULE PayoutAccounts ----------------------------
(***************************************************************************)
(* Where a seeker's money goes: payout accounts are added, changed and     *)
(* made the default, a quote shows what a withdrawal would pay and where,  *)
(* and the withdrawal is confirmed with the quote.                         *)
(*                                                                         *)
(* Source: seekerPayoutAccount.service.js, platformFee.service.js and the  *)
(* quotes of seekerWithdrawal.service.js, for one seeker and one currency. *)
(* A quote is a signed copy of what was read, with the updatedAt of the    *)
(* account and of the fee configuration.  A withdrawal holds the wallet's  *)
(* row lock, then shares that of the fee configuration, and reads the      *)
(* account without a lock.  Accounts are changed after checks of their own *)
(* transaction that lock nothing either.                                   *)
(*                                                                         *)
(* Balances, idempotency keys and what becomes of a withdrawal belong to   *)
(* Withdrawal; the verification of details by the provider is a choice.    *)
(***************************************************************************)
EXTENDS Integers, FiniteSets

CONSTANTS
    Accounts,       \* PayoutAccount rows
    Withdrawals,    \* Withdrawal rows
    Requests,
    Details,        \* bank details
    Fees,           \* withdrawal charges
    MaxVersion,     \* bound: changes of an account, and of the fee configuration
    MaxQuotes,      \* bound: quotes at a time
    NoRow           \* the account or withdrawal of a request that has none

VARIABLES
    account,
    fee,            \* PlatformFeeConfiguration
    quotes,         \* quotes that have been given out and have not expired
    withdrawal,
    req

payoutVars == <<account, fee, quotes, withdrawal, req>>

-----------------------------------------------------------------------------
(* State *)

\* version is updatedAt; details are those of the snapshot of a quote or a withdrawal too.
Account == [exists : BOOLEAN, details : Details, version : Nat, isDefault : BOOLEAN]

Fee == [charge : Fees, version : Nat]

Quote == [account : Accounts, version : Nat, shown : Details, charge : Fees,
          feeVersion : Nat]

AnyDetails == CHOOSE d \in Details : TRUE
AnyQuote == [account |-> CHOOSE a \in Accounts : TRUE, version |-> 0, shown |-> AnyDetails,
             charge |-> CHOOSE f \in Fees : TRUE, feeVersion |-> 0]

\* pays: the snapshot of the account; quote: the one it was confirmed with, whose account
\* and charge it takes over.
Withdrawal == [status : {"none", "PENDING", "over"}, pays : Details, quote : Quote]

\* replaces: the former default account is to give way.
Request == [op : {"none", "create", "update", "withdraw"},
            pc : {"idle", "asked", "resolved", "checked", "wallet", "fee", "account"},
            on : Accounts \cup Withdrawals \cup {NoRow}, details : Details,
            isDefault : BOOLEAN, replaces : BOOLEAN, quote : Quote]

Idle == [op |-> "none", pc |-> "idle", on |-> NoRow, details |-> AnyDetails,
         isDefault |-> FALSE, replaces |-> FALSE, quote |-> AnyQuote]

TypeOK ==
    /\ account \in [Accounts -> Account]
    /\ fee \in Fee
    /\ quotes \subseteq Quote
    /\ withdrawal \in [Withdrawals -> Withdrawal]
    /\ req \in [Requests -> Request]

Init ==
    /\ account = [a \in Accounts |-> [exists |-> FALSE, details |-> AnyDetails,
                                      version |-> 0, isDefault |-> FALSE]]
    /\ fee \in [charge : Fees, version : {1}]
    /\ quotes = {}
    /\ withdrawal = [w \in Withdrawals |->
                       [status |-> "none", pays |-> AnyDetails, quote |-> AnyQuote]]
    /\ req = [r \in Requests |-> Idle]

-----------------------------------------------------------------------------
(* Helpers *)

\* Mistakes: the account's updatedAt, or the lock of the configuration, is left out.
AnyVersion(q) == TRUE
Unlocked == TRUE

\* payoutAccount.updatedAt against quote.payoutAccountVersion
AccountUnchanged(q) == account[q.account].version = q.version

\* SELECT ... FROM "PlatformFeeConfiguration" ... FOR SHARE
FeeFree == \A r \in Requests : req[r].pc \notin {"fee", "account"}

\* SELECT ... FROM "Wallet" ... FOR UPDATE
WalletFree == \A r \in Requests : req[r].pc \notin {"wallet", "fee", "account"}

\* isDuplicateOfExisting
Duplicate(a, d) == \E b \in Accounts \ {a} : account[b].exists /\ account[b].details = d

InUse(a) ==
    \E w \in Withdrawals : withdrawal[w].status = "PENDING" /\ withdrawal[w].quote.account = a

Saved(a, d, isDefault) ==
    [exists |-> TRUE, details |-> d, version |-> account[a].version + 1,
     isDefault |-> isDefault]

Defaults == {a \in Accounts : account[a].isDefault}

\* The account is saved; if it replaces the default, that row is updated before it.  The
\* partial unique index refuses a second default.
Save(a, d, isDefault, replaces) ==
    /\ isDefault => replaces \/ Defaults \subseteq {a}
    /\ account' = [b \in Accounts |->
          IF b = a THEN Saved(a, d, isDefault)
          ELSE IF replaces /\ b \in Defaults THEN Saved(b, account[b].details, FALSE)
          ELSE account[b]]

Changeable(a) == \A b \in Accounts : account[b].version < MaxVersion

Keep(r, q) == req' = [req EXCEPT ![r] = q]
Answer(r) == Keep(r, Idle)

-----------------------------------------------------------------------------
(* Accounts *)

\* createSeekerPayoutAccount ...
BeginCreate(r, a, d, isDefault) ==
    /\ req[r] = Idle
    /\ ~account[a].exists
    /\ \A k \in Requests : req[k].op = "create" => req[k].on # a
    /\ Keep(r, [Idle EXCEPT !.op = "create", !.pc = "asked", !.on = a, !.details = d,
                            !.isDefault = isDefault])
    /\ UNCHANGED <<account, fee, quotes, withdrawal>>

\* ... or updateSeekerPayoutAccount with details, of an account that is the seeker's ...
BeginUpdate(r, a, d, isDefault) ==
    /\ req[r] = Idle
    /\ account[a].exists
    /\ Keep(r, [Idle EXCEPT !.op = "update", !.pc = "asked", !.on = a, !.details = d,
                            !.isDefault = isDefault])
    /\ UNCHANGED <<account, fee, quotes, withdrawal>>

\* ... asks the provider for the account's name, unless the country needs none, and goes on
\* if the details are accepted ...
Resolve(r, accepted) ==
    /\ req[r].pc = "asked"
    /\ Keep(r, IF accepted THEN [req[r] EXCEPT !.pc = "resolved"] ELSE Idle)
    /\ UNCHANGED <<account, fee, quotes, withdrawal>>

\* ... and no account of the seeker has them; the first account is the default ...
CheckCreate(r) ==
    LET q == req[r]
        first == \A a \in Accounts : ~account[a].exists IN
    /\ q.op = "create" /\ q.pc = "resolved"
    /\ Keep(r, IF Duplicate(q.on, q.details) THEN Idle
               ELSE [q EXCEPT !.pc = "checked", !.isDefault = @ \/ first,
                              !.replaces = q.isDefault \/ first])
    /\ UNCHANGED <<account, fee, quotes, withdrawal>>

\* ... or no other account has them and no withdrawal to it is under way ...
CheckUpdate(r) ==
    LET q == req[r] IN
    /\ q.op = "update" /\ q.pc = "resolved"
    /\ Keep(r, IF InUse(q.on) \/ Duplicate(q.on, q.details) THEN Idle
               ELSE [q EXCEPT !.pc = "checked", !.isDefault = @ \/ account[q.on].isDefault,
                              !.replaces = q.isDefault /\ ~account[q.on].isDefault])
    /\ UNCHANGED <<account, fee, quotes, withdrawal>>

\* ... and the row is written.
SaveAccount(r) ==
    /\ req[r].pc = "checked"
    /\ Changeable(req[r].on)
    /\ Save(req[r].on, req[r].details, req[r].isDefault, req[r].replaces)
    /\ Answer(r)
    /\ UNCHANGED <<fee, quotes, withdrawal>>

\* updateSeekerPayoutAccount, isDefault only.
SetDefault(a, isDefault) ==
    /\ account[a].exists
    /\ Changeable(a)
    /\ Save(a, account[a].details, isDefault, isDefault)
    /\ UNCHANGED <<fee, quotes, withdrawal, req>>

\* updatePlatformFeeConfiguration
UpdateFee(charge) ==
    /\ FeeFree
    /\ fee.version < MaxVersion
    /\ fee' = [charge |-> charge, version |-> fee.version + 1]
    /\ UNCHANGED <<account, quotes, withdrawal, req>>

-----------------------------------------------------------------------------
(* Withdrawals *)

\* getSeekerWithdrawalQuote
GiveQuote(a) ==
    /\ account[a].exists
    /\ Cardinality(quotes) < MaxQuotes
    /\ quotes' = quotes \cup {[account |-> a, version |-> account[a].version,
                               shown |-> account[a].details, charge |-> fee.charge,
                               feeVersion |-> fee.version]}
    /\ UNCHANGED <<account, fee, withdrawal, req>>

QuoteExpires(q) ==
    /\ quotes' = quotes \ {q}
    /\ UNCHANGED <<account, fee, withdrawal, req>>

\* createSeekerWithdrawal: the wallet's lock and the age of the quote ...
BeginWithdraw(r, w, q) ==
    /\ req[r] = Idle
    /\ withdrawal[w].status = "none"
    /\ \A k \in Requests : req[k].on # w
    /\ WalletFree
    /\ Keep(r, [Idle EXCEPT !.op = "withdraw", !.pc = "wallet", !.on = w, !.quote = q])
    /\ UNCHANGED <<account, fee, quotes, withdrawal>>

\* ... the fee configuration, which stays as it is from here ...
CheckFee(r) ==
    LET q == req[r].quote IN
    /\ req[r].pc = "wallet"
    /\ Keep(r, IF fee.version = q.feeVersion /\ fee.charge = q.charge
               THEN [req[r] EXCEPT !.pc = "fee"] ELSE Idle)
    /\ UNCHANGED <<account, fee, quotes, withdrawal>>

\* ... the account ...
CheckAccount(r) ==
    LET q == req[r].quote IN
    /\ req[r].pc = "fee"
    /\ Keep(r, IF AccountUnchanged(q)
               THEN [req[r] EXCEPT !.pc = "account", !.details = account[q.account].details]
               ELSE Idle)
    /\ UNCHANGED <<account, fee, quotes, withdrawal>>

\* ... and the row, with a snapshot of what was read.
CreateWithdrawal(r) ==
    LET q == req[r].quote IN
    /\ req[r].pc = "account"
    /\ withdrawal' = [withdrawal EXCEPT ![req[r].on] =
                        [status |-> "PENDING", pays |-> req[r].details, quote |-> q]]
    /\ Answer(r)
    /\ UNCHANGED <<account, fee, quotes>>

\* The withdrawal is paid or has failed.
EndWithdrawal(w) ==
    /\ withdrawal[w].status = "PENDING"
    /\ withdrawal' = [withdrawal EXCEPT ![w].status = "over"]
    /\ UNCHANGED <<account, fee, quotes, req>>

\* The process dies, or a transaction fails.
Abort(r) ==
    /\ req[r] # Idle
    /\ Answer(r)
    /\ UNCHANGED <<account, fee, quotes, withdrawal>>

-----------------------------------------------------------------------------
(* Specification *)

RequestStep(r) ==
    \/ \E a \in Accounts, d \in Details, isDefault \in BOOLEAN :
         BeginCreate(r, a, d, isDefault) \/ BeginUpdate(r, a, d, isDefault)
    \/ \E accepted \in BOOLEAN : Resolve(r, accepted)
    \/ CheckCreate(r)
    \/ CheckUpdate(r)
    \/ SaveAccount(r)
    \/ \E w \in Withdrawals, q \in quotes : BeginWithdraw(r, w, q)
    \/ CheckFee(r)
    \/ CheckAccount(r)
    \/ CreateWithdrawal(r)
    \/ Abort(r)

Next ==
    \/ \E a \in Accounts :
         \/ GiveQuote(a)
         \/ \E isDefault \in BOOLEAN : SetDefault(a, isDefault)
    \/ \E charge \in Fees : UpdateFee(charge)
    \/ \E q \in quotes : QuoteExpires(q)
    \/ \E w \in Withdrawals : EndWithdrawal(w)
    \/ \E r \in Requests : RequestStep(r)

Spec == Init /\ [][Next]_payoutVars

-----------------------------------------------------------------------------
(* Properties *)

\* A withdrawal pays to the bank details its quote showed, at the charge the quote showed,
\* which is the one in force: accounts and charges that change between the quote, the
\* confirmation and its commit send nobody's money elsewhere (createSeekerWithdrawal).
PaysAsQuoted ==
    [][\A w \in Withdrawals :
         withdrawal[w].status = "none" /\ withdrawal'[w].status = "PENDING" =>
            /\ withdrawal'[w].pays = withdrawal'[w].quote.shown
            /\ withdrawal'[w].quote.charge = fee.charge]_payoutVars

=============================================================================
