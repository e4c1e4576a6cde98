-------------------------- MODULE CommentRefinement --------------------------
(***************************************************************************)
(* The pipeline of CommentPipeline implements the promise of               *)
(* CommentDelivery: a row's status, seen from outside, is an outcome.      *)
(***************************************************************************)
EXTENDS CommentPipeline

OutcomeOf(s) ==
  IF s = "absent" THEN "unknown"
  ELSE IF s \in {"pending", "matched", "deferred"} THEN "open"
  ELSE IF s \in {"no_match", "dropped_stale"} THEN "silent"
  ELSE s

Delivery == INSTANCE CommentDelivery WITH
  outcome <- [e \in Events |-> OutcomeOf(status[e])],
  delivered <- dms

\* Every step of webhook and workers, faults included, is a step of the
\* abstract delivery or leaves outcomes and DMs alone: DMs are sent only while
\* the outcome is open, and an outcome is given once and in keeping with the DM.
ImplementsDelivery == Delivery!Spec
=============================================================================
