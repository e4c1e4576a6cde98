----------------------------- MODULE MCOnboarding -----------------------------
(***************************************************************************)
(* A small instance of the onboarding for TLC: clothing shops are offered  *)
(* one topic more than the others.  Either one user goes through all of    *)
(* it, or two who may hold the same link connect their bots.               *)
(***************************************************************************)
EXTENDS Onboarding, TLC

CONSTANTS u1, u2, l1

MCVerticals == {"clothing", "other"}
MCTopicsOf == [clothing |-> {"sizes", "payment"}, other |-> {"payment"}]
MCTargets == DOMAIN ReentryState
MCCasts == {[users |-> {u1}, links |-> {}, goOn |-> TRUE],
            [users |-> {u1, u2}, links |-> {l1}, goOn |-> FALSE]}
Symmetry == Permutations(Requests) \cup Permutations(Bots)
=============================================================================
