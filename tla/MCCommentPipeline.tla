-------------------------- MODULE MCCommentPipeline --------------------------
(***************************************************************************)
(* Small instances of the comment pipeline for TLC.                        *)
(***************************************************************************)
EXTENDS CommentRefinement, TLC

CONSTANTS c1, c2, c3, s1, shopA, shopB

TwoOwners == [e \in Events |-> IF e = s1 THEN shopB ELSE shopA]
OneOwner == [e \in Events |-> shopA]

\* The workers run the same code, and nothing names one of them.
Symmetry == Permutations(Workers)
=============================================================================
