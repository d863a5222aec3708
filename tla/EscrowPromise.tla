---------------------------- MODULE EscrowPromise ----------------------------
(***************************************************************************)
(* What protected work promises to the employer who pays and the seeker    *)
(* who works, without attempts, verifications or late answers: of a job's  *)
(* contracts of one type one at most may cost anything; its escrow takes   *)
(* the money of a payment that was made, once; approved money goes to the  *)
(* seeker once; disputed money stays; and a cancelled or an archived       *)
(* contract takes no money any more.                                       *)
(***************************************************************************)
EXTENDS Naturals

CONSTANTS Contracts, JobOf, Types

VARIABLES
    type,     \* what kind of contract was agreed upon
    escrow,   \* where the money of each contract is
    paid,     \* contracts the provider took a payment for
    earned,   \* how often the seeker got the money of each contract
    archived  \* contracts the employer has put away

vars == <<type, escrow, paid, earned, archived>>

Init ==
    /\ type = [c \in Contracts |-> "none"]
    /\ escrow = [c \in Contracts |-> "none"]
    /\ paid = {}
    /\ earned = [c \in Contracts |-> 0]
    /\ archived = {}

Stands(c) == escrow[c] \notin {"none", "CANCELLED"}
Moves(c, from, to) == escrow[c] \in from /\ escrow' = [escrow EXCEPT ![c] = to]

Agree(c, t) ==
    /\ \A d \in Contracts \ {c} : JobOf[d] = JobOf[c] /\ type[d] = t => ~Stands(d)
    /\ type' = [type EXCEPT ![c] = t]
    /\ Moves(c, {"none"}, "UNFUNDED")
    /\ UNCHANGED <<paid, earned, archived>>

Cancel(c) ==
    /\ c \notin paid
    /\ Moves(c, {"UNFUNDED"}, "CANCELLED")
    /\ UNCHANGED <<type, paid, earned, archived>>

\* A page that was opened before the money was released may still be paid.
Pay(c) ==
    /\ Stands(c)
    /\ c \in archived => escrow[c] = "RELEASED"
    /\ paid' = paid \cup {c}
    /\ UNCHANGED <<type, escrow, earned, archived>>

Fund(c) ==
    /\ c \in paid \ archived
    /\ Moves(c, {"UNFUNDED"}, "FUNDED")
    /\ UNCHANGED <<type, paid, earned, archived>>

Approve(c) ==
    /\ Moves(c, {"FUNDED"}, "RELEASE_ELIGIBLE")
    /\ UNCHANGED <<type, paid, earned, archived>>

Dispute(c) ==
    /\ Moves(c, {"FUNDED", "RELEASE_ELIGIBLE"}, "DISPUTED")
    /\ UNCHANGED <<type, paid, earned, archived>>

Release(c) ==
    /\ Moves(c, {"RELEASE_ELIGIBLE"}, "RELEASED")
    /\ earned' = [earned EXCEPT ![c] = @ + 1]
    /\ UNCHANGED <<type, paid, archived>>

Archive(c) ==
    /\ escrow[c] \in {"CANCELLED", "RELEASED"} \/ (escrow[c] = "UNFUNDED" /\ c \notin paid)
    /\ archived' = archived \cup {c}
    /\ UNCHANGED <<type, escrow, paid, earned>>

Next == \E c \in Contracts :
    \/ \E t \in Types : Agree(c, t)
    \/ Cancel(c) \/ Pay(c) \/ Fund(c)
    \/ Approve(c) \/ Dispute(c) \/ Release(c) \/ Archive(c)

Spec == Init /\ [][Next]_vars
=============================================================================
