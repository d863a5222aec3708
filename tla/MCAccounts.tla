----------------------------- MODULE MCAccounts ------------------------------
(***************************************************************************)
(* An instance of Accounts for TLC.                                        *)
(***************************************************************************)
EXTENDS Accounts, TLC

Symmetry ==
    Permutations(Requests) \cup Permutations(Sessions) \cup Permutations(Tokens)

\* A campaign is addressed to the registered users, to one of them, or to the subscribers.
Addressed == {People, {CHOOSE p \in People : TRUE}, Subscribers}

\* Zones far from UTC and across the date line, the first change up to fifteen hours to either
\* side of midnight and a stay of three hours or of months between them.
ChangingZones ==
    {[first |-> a, second |-> b, third |-> c, start |-> s, end |-> s + d] :
        a, b, c \in {-48, 0, 4, 56}, s \in {6 * k : k \in -10 .. 10}, d \in {12, 9999}}

MomentsAround == {-200, 0}

=============================================================================
