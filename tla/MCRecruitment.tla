---------------------------- MODULE MCRecruitment ----------------------------
(***************************************************************************)
(* An instance of Recruitment for TLC.                                     *)
(***************************************************************************)
EXTENDS Recruitment, TLC

Symmetry == Permutations(Requests) \cup Permutations(Jobs) \cup Permutations(Invitations)

=============================================================================
