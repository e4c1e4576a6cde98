------------------------------ MODULE HandoffDesk ------------------------------
(***************************************************************************)
(* What the hand-off promises the admins of a shop, without sessions,      *)
(* flushes or commits: they get messages, each about one conversation; an  *)
(* escalation gives an admin a thread for that conversation, which is      *)
(* opened once and closed once; whatever one request stores is about one   *)
(* conversation and is stored at once; a conversation that is handed to    *)
(* them is not taken away in the same breath; and a reply to a message     *)
(* goes to the customer the message is about.                              *)
(***************************************************************************)
EXTENDS Naturals, Sequences

CONSTANTS Conversations, Admins, Threads, Requests, NoConversation, NoAdmin

VARIABLES
  withAdmins,  \* whether a conversation is with the admins
  chat,        \* per admin: what each message from the platform bot is about
  thread,      \* escalation threads: whose, about what, and the messages kept
  reply        \* per request: the admin's reply that is on its way

vars == <<withAdmins, chat, thread, reply>>

Rows == [state : {"none", "open", "released"}, admin : Admins \cup {NoAdmin},
         about : Conversations \cup {NoConversation}, ids : SUBSET Nat]
NoThread == [state |-> "none", admin |-> NoAdmin, about |-> NoConversation, ids |-> {}]
NoReply == [admin |-> NoAdmin, message |-> 0, to |-> NoConversation]

Init ==
  /\ withAdmins = [c \in Conversations |-> FALSE]
  /\ chat = [a \in Admins |-> <<>>]
  /\ thread = [t \in Threads |-> NoThread]
  /\ reply = [r \in Requests |-> NoReply]

\* The messages an admin got about a conversation.
About(a, c) == {n \in 1..Len(chat[a]) : chat[a][n] = c}

Notify(a, c) ==
  /\ chat' = [chat EXCEPT ![a] = Append(@, c)]
  /\ UNCHANGED <<withAdmins, thread, reply>>

\* What may become of a thread of conversation c: it is opened for an admin, closed
\* for good, or keeps other messages that this admin got about c.
Moves(old, new, c) ==
  /\ new.about = c /\ new.admin \in Admins
  /\ new.ids \subseteq About(new.admin, c)
  /\ \/ old.state = "none" /\ new.state = "open"
     \/ /\ old.admin = new.admin /\ old.about = c
        /\ \/ new.state = old.state
           \/ old.state = "open" /\ new.state = "released"

\* A request is stored: the flag of one conversation, and threads of the same one.  It
\* does not open a thread and take the conversation away from the admins.
Store(c, flag) ==
  /\ withAdmins' = [withAdmins EXCEPT ![c] = flag]
  /\ thread' \in [Threads -> Rows]
  /\ \A t \in Threads : thread'[t] # thread[t] =>
       /\ Moves(thread[t], thread'[t], c)
       /\ thread[t].state = "none" => flag \/ ~withAdmins[c]
  /\ UNCHANGED <<chat, reply>>

\* An admin answers a message that an open thread of theirs holds.
TakeReply(r, a, n) ==
  /\ reply[r] = NoReply
  /\ \E t \in Threads :
       thread[t].state = "open" /\ thread[t].admin = a /\ n \in thread[t].ids
  /\ reply' = [reply EXCEPT ![r] = [admin |-> a, message |-> n, to |-> chat[a][n]]]
  /\ UNCHANGED <<withAdmins, chat, thread>>

\* The reply is sent, or lost.
EndReply(r) ==
  /\ reply' = [reply EXCEPT ![r] = NoReply]
  /\ UNCHANGED <<withAdmins, chat, thread>>

Next ==
  \/ \E a \in Admins, c \in Conversations : Notify(a, c)
  \/ \E c \in Conversations, flag \in BOOLEAN : Store(c, flag)
  \/ \E r \in Requests : EndReply(r) \/ \E a \in Admins : \E n \in 1..Len(chat[a]) : TakeReply(r, a, n)

Spec == Init /\ [][Next]_vars
=============================================================================
