--------------------------- MODULE CommentDelivery ---------------------------
(***************************************************************************)
(* What the Instagram pipeline promises about one inbound comment, without *)
(* queues, retries or workers: it is accepted once, answered by a DM at    *)
(* most once and only while it is open, and its outcome is given once.     *)
(***************************************************************************)
EXTENDS Naturals

CONSTANT Events

VARIABLES outcome, delivered

vars == <<outcome, delivered>>

Outcome == {"unknown", "open", "replied", "silent", "failed"}

Init ==
  /\ outcome = [e \in Events |-> "unknown"]
  /\ delivered = [e \in Events |-> 0]

\* One webhook request may carry several comments.
Accept(batch) ==
  /\ \A e \in batch : outcome[e] = "unknown"
  /\ outcome' = [e \in Events |-> IF e \in batch THEN "open" ELSE outcome[e]]
  /\ UNCHANGED delivered

Deliver(e) ==
  /\ outcome[e] = "open"
  /\ delivered[e] = 0
  /\ delivered' = [delivered EXCEPT ![e] = 1]
  /\ UNCHANGED outcome

Settle(e, o) ==
  /\ outcome[e] = "open"
  /\ \/ o = "replied" /\ delivered[e] = 1
     \/ o = "silent" /\ delivered[e] = 0
     \/ o = "failed"
  /\ outcome' = [outcome EXCEPT ![e] = o]
  /\ UNCHANGED delivered

Next ==
  \/ \E batch \in SUBSET Events : Accept(batch)
  \/ \E e \in Events : Deliver(e)
  \/ \E e \in Events, o \in Outcome : Settle(e, o)

Spec == Init /\ [][Next]_vars
=============================================================================
