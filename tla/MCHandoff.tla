------------------------------ MODULE MCHandoff ------------------------------
(***************************************************************************)
(* Small instances of the hand-off for TLC.                                *)
(***************************************************************************)
EXTENDS HandoffRefinement, TLC

\* Requests, rows, admins and conversations are interchangeable: no constant
\* and no action singles one of them out.
Symmetry ==
  Permutations(Requests) \cup Permutations(Threads) \cup Permutations(Admins)
    \cup Permutations(Conversations)
=============================================================================
