--------------------------- MODULE HandoffRefinement ---------------------------
(***************************************************************************)
(* The hand-off of Handoff implements the promise of HandoffDesk: a thread *)
(* is there once its row is committed, and a reply is on its way while its *)
(* request has yet to relay it.                                            *)
(***************************************************************************)
EXTENDS Handoff

ThreadOf(t) ==
  IF status[t] \in {"open", "released"}
  THEN [state |-> status[t], admin |-> owner[t], about |-> target[t], ids |-> ids[t]]
  ELSE [state |-> "none", admin |-> NoAdmin, about |-> NoConversation, ids |-> {}]

ReplyOf(r) ==
  IF pc[r] = "relay"
  THEN [admin |-> answering[r].admin, message |-> answering[r].message, to |-> conv[r]]
  ELSE [admin |-> NoAdmin, message |-> 0, to |-> NoConversation]

DeskThreads == [t \in Threads |-> ThreadOf(t)]
DeskReplies == [r \in Requests |-> ReplyOf(r)]

Desk == INSTANCE HandoffDesk WITH
  withAdmins <- needsHuman,
  chat <- about,
  thread <- DeskThreads,
  reply <- DeskReplies

\* Every step of the two webhooks is a step of the abstract desk or leaves it alone,
\* although requests overlap, sessions hold rows that others have changed, and any
\* request may roll back: what a commit writes is about its own conversation, threads
\* are opened and closed once, and replies follow the message.
ImplementsDesk == Desk!Spec

\* What a commit of the hand-off rests on beyond RoutingInv: the rows a session made,
\* closes or notes are of the conversation it serves, rows it notes are stored or its
\* own, and a session that made rows means its conversation to be with the admins.
Serving(r) ==
  /\ pc[r] \in {"idle", "stale"} => made[r] = {}
  /\ pc[r] = "idle" => noted[r] \cup closing[r] = {}
  /\ pc[r] \in {"stale", "escalate", "forward"} \/ made[r] # {} => needs[r]
  /\ \A t \in noted[r] \cup made[r] \cup closing[r] : target[t] = conv[r]
  /\ \A t \in noted[r] : status[t] \in {"open", "released"} \/ t \in made[r]

DeskInv ==
  /\ \A t \in Threads : status[t] # "free" => owner[t] \in Admins
  /\ \A r \in Requests : Serving(r)
=============================================================================
