-------------------------- MODULE MCReviewHandoff --------------------------
(***************************************************************************)
(* Instances of ReviewHandoff for TLC: graphics that all differ, or that   *)
(* are all alike, so that the duplicate gate never or always fires.        *)
(***************************************************************************)
EXTENDS ReviewHandoff, TLC

AllDifferent == [s \in Subjects |-> s]
AllAlike     == [s \in Subjects |-> "alike"]

ReviewersAlike == Permutations(Reviewers)
Alike          == ReviewersAlike \union Permutations(Subjects)

=============================================================================
