------------------------------- MODULE Handoff -------------------------------
(***************************************************************************)
(* The hand-off of a customer's conversation to the shop's admins          *)
(* (app/handoff/service.py): the tenant webhook that suppresses, forwards, *)
(* answers or escalates a message (app/telegram/webhook.py), and the       *)
(* platform webhook where an admin releases a conversation or answers by   *)
(* replying to a notification (app/onboarding/router.py).                  *)
(*                                                                         *)
(* Every webhook request runs in a thread of its own with a database       *)
(* session of its own: it reads committed rows, keeps what it loaded and   *)
(* changed in the session (autoflush is off), and writes the changed       *)
(* columns at its one commit.  A step is one read, one call to Telegram    *)
(* with the bookkeeping around it, or the commit.                          *)
(***************************************************************************)
EXTENDS Integers, Sequences, FiniteSets

CONSTANTS
  Conversations,   \* one merchant's conversations
  Admins,          \* that merchant's MerchantAdmin rows
  Requests,        \* threads serving the two webhooks
  Threads,         \* bound: ids for PendingAdminReply rows of kind "escalation"
  HandoffTimeout,  \* _HANDOFF_TIMEOUT
  MaxTime,         \* bound: the clock stops here
  MaxMessage,      \* bound: notifications Telegram accepts per admin
  NoConversation,
  NoAdmin

ASSUME HandoffAssumption ==
  /\ HandoffTimeout \in Nat /\ MaxTime \in Nat /\ MaxMessage \in Nat
  /\ NoConversation \notin Conversations
  /\ NoAdmin \notin Admins

VARIABLES
  pc,          \* per request: the next step
  conv,        \* per request: the conversation it serves
  needsHuman,  \* conversations.needs_human
  status,      \* pending_admin_replies.status; "free", "inserted" (not yet
               \* committed) and "void" (rolled back) while there is no row
  owner,       \* .merchant_admin_id
  target,      \* .target_id
  ids,         \* .platform_message_ids
  active,      \* .last_activity_at
  clock,
  about,       \* history: per admin, what each message in the admin's chat with
               \* the platform bot is about; its position is its message_id
  seen,        \* per request: needs_human as loaded
  needs,       \* per request: needs_human in the session
  todo,        \* per request: admins still to be notified
  loaded,      \* per request: rows in the session
  copy,        \* per request: their message ids and activity, as the session has them
  made,        \* per request: rows it inserted
  noted,       \* per request: rows it recorded a notification on
  closing,     \* per request: rows it set to "released"
  flushed,     \* per request: those of closing its own queries see as released
  wrote,       \* per request: its transaction has written needs_human
  answering    \* per request: the admin, and the message that admin replied to

rowVars == <<status, owner, target, ids, active>>
sessionVars == <<loaded, copy, made, noted, closing, flushed, wrote>>
vars == <<needsHuman, status, owner, target, ids, active, clock, about, pc, conv,
          seen, needs, todo, loaded, copy, made, noted, closing, flushed, wrote,
          answering>>

Times == 0..MaxTime
MessageIds == 1..MaxMessage
Blank == [ids |-> {}, at |-> 0]
NoAnswer == [admin |-> NoAdmin, message |-> 0]

Init ==
  /\ needsHuman = [c \in Conversations |-> FALSE]
  /\ status = [t \in Threads |-> "free"]
  /\ owner = [t \in Threads |-> NoAdmin]
  /\ target = [t \in Threads |-> NoConversation]
  /\ ids = [t \in Threads |-> {}]
  /\ active = [t \in Threads |-> 0]
  /\ clock = 0
  /\ about = [a \in Admins |-> <<>>]
  /\ pc = [r \in Requests |-> "idle"]
  /\ conv = [r \in Requests |-> NoConversation]
  /\ seen = [r \in Requests |-> FALSE]
  /\ needs = [r \in Requests |-> FALSE]
  /\ todo = [r \in Requests |-> {}]
  /\ loaded = [r \in Requests |-> {}]
  /\ copy = [r \in Requests |-> [t \in Threads |-> Blank]]
  /\ made = [r \in Requests |-> {}]
  /\ noted = [r \in Requests |-> {}]
  /\ closing = [r \in Requests |-> {}]
  /\ flushed = [r \in Requests |-> {}]
  /\ wrote = [r \in Requests |-> FALSE]
  /\ answering = [r \in Requests |-> NoAnswer]

Goto(r, from, to) ==
  /\ pc[r] = from
  /\ pc' = [pc EXCEPT ![r] = to]

\* What a SELECT for rows with status "open" on conversation c returns.
OpenThreads(c) == {t \in Threads : status[t] = "open" /\ target[t] = c}

\* Rows a SELECT returned: those new to the session take the values read, those
\* it holds already keep the session's.
Load(r, found) ==
  /\ loaded' = [loaded EXCEPT ![r] = @ \cup found]
  /\ copy' = [copy EXCEPT ![r] =
       [t \in Threads |-> IF t \in found \ loaded[r]
                          THEN [ids |-> ids[t], at |-> active[t]] ELSE @[t]]]

-----------------------------------------------------------------------------
(* A customer's message: receive_update.                                    *)

CustomerMessage(r, c) ==
  /\ Goto(r, "idle", IF needsHuman[c] THEN "stale" ELSE "answer")
  /\ conv' = [conv EXCEPT ![r] = c]
  /\ seen' = [seen EXCEPT ![r] = needsHuman[c]]
  /\ needs' = [needs EXCEPT ![r] = needsHuman[c]]
  /\ UNCHANGED <<needsHuman, rowVars, clock, about, todo, sessionVars, answering>>

\* A tap on a carousel's button, whoever has the conversation: the product
\* confirmed is sent, "none of these" escalates.
CarouselTap(r, c) ==
  /\ \/ /\ Goto(r, "idle", "tell")
        /\ needs' = [needs EXCEPT ![r] = needsHuman[c]]
        /\ UNCHANGED todo
     \/ /\ Goto(r, "idle", "escalate")
        /\ needs' = [needs EXCEPT ![r] = TRUE]
        /\ todo' = [todo EXCEPT ![r] = Admins]
  /\ conv' = [conv EXCEPT ![r] = c]
  /\ seen' = [seen EXCEPT ![r] = needsHuman[c]]
  /\ UNCHANGED <<needsHuman, rowVars, clock, about, sessionVars, answering>>

\* release_if_stale: a thread nobody touched for the timeout.
Idle(open) ==
  /\ open # {}
  /\ \A t \in open : clock - active[t] >= HandoffTimeout

\* release_if_stale releases, and the message is handled like any other.
ReleaseIfStale(r) ==
  LET open == OpenThreads(conv[r]) IN
    /\ Goto(r, "stale", "answer")
    /\ Idle(open)
    /\ needs' = [needs EXCEPT ![r] = FALSE]
    /\ closing' = [closing EXCEPT ![r] = open]
    /\ Load(r, open)
    /\ UNCHANGED <<needsHuman, rowVars, clock, about, conv, seen, todo, made, noted,
                   flushed, wrote, answering>>

\* The conversation stays with the admins: a text is forwarded to every one of
\* them, anything else is only recorded.
Suppress(r) ==
  LET open == OpenThreads(conv[r]) IN
    /\ ~Idle(open)
    /\ Load(r, open)
    /\ \/ Goto(r, "stale", "forward") /\ todo' = [todo EXCEPT ![r] = Admins]
       \/ Goto(r, "stale", "commit") /\ UNCHANGED todo
    /\ UNCHANGED <<needsHuman, rowVars, clock, about, conv, seen, needs, made, noted,
                   closing, flushed, wrote, answering>>

\* A flush sends the session's pending changes into its transaction.
Flush(r) ==
  /\ flushed' = [flushed EXCEPT ![r] = closing[r]]
  /\ wrote' = [wrote EXCEPT ![r] = @ \/ needs[r] # seen[r]]

\* handle_photo_message logs its search and flushes, whether or not it goes on
\* to find a product; without a release pending the flush has nothing to send.
SearchPhoto(r) ==
  /\ pc[r] = "answer"
  /\ flushed[r] # closing[r]
  /\ Flush(r)
  /\ UNCHANGED <<needsHuman, rowVars, clock, about, pc, conv, seen, needs, todo, loaded,
                 copy, made, noted, closing, answering>>

\* Some layer of the pipeline has an answer.
BotAnswers(r) ==
  /\ Goto(r, "answer", "reply")
  /\ UNCHANGED <<needsHuman, rowVars, clock, about, conv, seen, needs, todo,
                 sessionVars, answering>>

\* escalate: no layer has one.
Escalate(r) ==
  /\ Goto(r, "answer", "escalate")
  /\ needs' = [needs EXCEPT ![r] = TRUE]
  /\ todo' = [todo EXCEPT ![r] = Admins]
  /\ UNCHANGED <<needsHuman, rowVars, clock, about, conv, seen, sessionVars, answering>>

\* The open threads of admin a that r's own query finds.  A row the session has
\* released and not flushed is still "open" to the query.  (The mutant's query
\* forgets which conversation it is about.)
MutantFoundAnyTarget(r, a) ==
  {t \in Threads \ flushed[r] : status[t] = "open" /\ owner[t] = a} \cup
    {t \in made[r] : owner[t] = a}
Found(r, a) ==
  {t \in OpenThreads(conv[r]) \ flushed[r] : owner[t] = a}
    \cup {t \in made[r] : owner[t] = a /\ target[t] = conv[r]}

\* _notify_admin and _record_notification on row t.  Telegram may refuse: then
\* nothing is recorded.  copy is what the session held after the row was loaded.
Notify(r, a, t, held) ==
  \/ /\ Len(about[a]) < MaxMessage
     /\ about' = [about EXCEPT ![a] = Append(@, conv[r])]
     /\ copy' = [copy EXCEPT ![r] =
          [held EXCEPT ![t] = [ids |-> @.ids \cup {Len(about[a]) + 1}, at |-> clock]]]
     /\ noted' = [noted EXCEPT ![r] = @ \cup {t}]
  \/ /\ copy' = [copy EXCEPT ![r] = held]
     /\ UNCHANGED <<about, noted>>

\* _get_or_create_pending_reply finds a row: any of those that match.
NotifyOnThread(r, a) ==
  /\ pc[r] \in {"escalate", "forward"}
  /\ a \in todo[r]
  /\ todo' = [todo EXCEPT ![r] = @ \ {a}]
  /\ \E t \in Found(r, a) :
       /\ loaded' = [loaded EXCEPT ![r] = @ \cup {t}]
       /\ Notify(r, a, t,
            IF t \in loaded[r] THEN copy[r]
            ELSE [copy[r] EXCEPT ![t] = [ids |-> ids[t], at |-> active[t]]])
  /\ UNCHANGED <<needsHuman, rowVars, clock, pc, conv, seen, needs, made, closing,
                 flushed, wrote, answering>>

\* It finds none: a row is inserted, and the flush sends every pending change
\* of the session with it.
NotifyOnNewThread(r, a) ==
  /\ pc[r] \in {"escalate", "forward"}
  /\ a \in todo[r]
  /\ todo' = [todo EXCEPT ![r] = @ \ {a}]
  /\ Found(r, a) = {}
  /\ \E t \in Threads :
       /\ status[t] = "free"
       /\ status' = [status EXCEPT ![t] = "inserted"]
       /\ owner' = [owner EXCEPT ![t] = a]
       /\ target' = [target EXCEPT ![t] = conv[r]]
       /\ made' = [made EXCEPT ![r] = @ \cup {t}]
       /\ loaded' = [loaded EXCEPT ![r] = @ \cup {t}]
       /\ Flush(r)
       /\ Notify(r, a, t, [copy[r] EXCEPT ![t] = [ids |-> {}, at |-> clock]])
  /\ UNCHANGED <<needsHuman, ids, active, clock, pc, conv, seen, needs, closing, answering>>

\* After an escalation the customer is told so; a forwarded message gets no reply.
NotifyDone(r) ==
  /\ \/ Goto(r, "escalate", "tell")
     \/ Goto(r, "forward", "commit")
  /\ todo[r] = {}
  /\ UNCHANGED <<needsHuman, rowVars, clock, about, conv, seen, needs, todo,
                 sessionVars, answering>>

\* The send to the customer: an answer of the bot, or a reply the flag does not
\* hold back (the escalation text, the product of a tap).
\* Whether it arrives changes nothing here.
SendReply(r) ==
  /\ pc[r] \in {"reply", "tell"}
  /\ pc' = [pc EXCEPT ![r] = "commit"]
  /\ UNCHANGED <<needsHuman, rowVars, clock, about, conv, seen, needs, todo,
                 sessionVars, answering>>

-----------------------------------------------------------------------------
(* The admin's side: receive_platform_update.                               *)

\* The release button of a thread, or /release: release_conversation sets the
\* flag and looks for the open threads.
ReleaseConversation(r, c) ==
  /\ Goto(r, "idle", "close")
  /\ conv' = [conv EXCEPT ![r] = c]
  /\ seen' = [seen EXCEPT ![r] = needsHuman[c]]
  /\ needs' = [needs EXCEPT ![r] = FALSE]
  /\ UNCHANGED <<needsHuman, rowVars, clock, about, todo, sessionVars, answering>>

CloseThreads(r) ==
  /\ Goto(r, "close", "commit")
  /\ closing' = [closing EXCEPT ![r] = OpenThreads(conv[r])]
  /\ Load(r, OpenThreads(conv[r]))
  /\ UNCHANGED <<needsHuman, rowVars, clock, about, conv, seen, needs, todo, made,
                 noted, flushed, wrote, answering>>

\* _handle_reply_to_message: the open threads of this admin that hold the
\* message replied to.
RepliedThreads(a, m) ==
  {t \in Threads : owner[t] = a /\ status[t] = "open" /\ m \in ids[t]}

\* The admin replies to a message of the platform bot; the reply goes to the
\* customer of the thread's conversation.
AdminReply(r, a, m) ==
  /\ Goto(r, "idle", "relay")
  /\ m \in 1..Len(about[a])
  /\ \E t \in RepliedThreads(a, m) : conv' = [conv EXCEPT ![r] = target[t]]
  /\ answering' = [answering EXCEPT ![r] = [admin |-> a, message |-> m]]
  /\ UNCHANGED <<needsHuman, rowVars, clock, about, seen, needs, todo, sessionVars>>

-----------------------------------------------------------------------------

\* The session is closed.  (The mutant keeps it for the next request.)
MutantKeepSession(r) ==
  /\ pc' = [pc EXCEPT ![r] = "idle"]
  /\ UNCHANGED <<conv, seen, needs, todo, sessionVars, answering>>
EndRequest(r) ==
  /\ pc' = [pc EXCEPT ![r] = "idle"]
  /\ conv' = [conv EXCEPT ![r] = NoConversation]
  /\ seen' = [seen EXCEPT ![r] = FALSE]
  /\ needs' = [needs EXCEPT ![r] = FALSE]
  /\ todo' = [todo EXCEPT ![r] = {}]
  /\ loaded' = [loaded EXCEPT ![r] = {}]
  /\ copy' = [copy EXCEPT ![r] = [t \in Threads |-> Blank]]
  /\ made' = [made EXCEPT ![r] = {}]
  /\ noted' = [noted EXCEPT ![r] = {}]
  /\ closing' = [closing EXCEPT ![r] = {}]
  /\ flushed' = [flushed EXCEPT ![r] = {}]
  /\ wrote' = [wrote EXCEPT ![r] = FALSE]
  /\ answering' = [answering EXCEPT ![r] = NoAnswer]

RelayToCustomer(r) ==
  /\ pc[r] = "relay"
  /\ EndRequest(r)
  /\ UNCHANGED <<needsHuman, rowVars, clock, about>>

\* The commit writes the columns that changed: needs_human when a flush wrote it
\* or it differs from what was loaded, the status of inserted and released rows, the ids and the
\* activity of rows with a new notification.  Any update of a row stamps its
\* activity.  (The mutants write every loaded column back.)
MutantFlagAlways(r) == needs[r]
FlagAfter(r) ==
  IF wrote[r] \/ needs[r] # seen[r] THEN needs[r] ELSE needsHuman[conv[r]]

MutantStatusAlways(r, t) ==
  IF t \in closing[r] THEN "released" ELSE IF t \in loaded[r] THEN "open" ELSE status[t]
StatusAfter(r, t) ==
  IF t \in made[r] THEN "open" ELSE IF t \in closing[r] THEN "released" ELSE status[t]

Commit(r) ==
  /\ pc[r] = "commit"
  /\ needsHuman' = [needsHuman EXCEPT ![conv[r]] = FlagAfter(r)]
  /\ status' = [t \in Threads |-> StatusAfter(r, t)]
  /\ ids' = [t \in Threads |-> IF t \in noted[r] THEN copy[r][t].ids ELSE ids[t]]
  /\ active' = [t \in Threads |->
       IF t \in noted[r] \cup made[r] THEN copy[r][t].at
       ELSE IF t \in closing[r] THEN clock ELSE active[t]]
  /\ EndRequest(r)
  /\ UNCHANGED <<owner, target, clock, about>>

\* The process dies or the database fails: the transaction is rolled back.
\* What was sent to Telegram stays sent.
Abort(r) ==
  /\ pc[r] # "idle"
  /\ status' = [t \in Threads |-> IF t \in made[r] THEN "void" ELSE status[t]]
  /\ EndRequest(r)
  /\ UNCHANGED <<needsHuman, owner, target, ids, active, clock, about>>

Tick ==
  /\ clock < MaxTime
  /\ clock' = clock + 1
  /\ UNCHANGED <<needsHuman, rowVars, about, pc, conv, seen, needs, todo, sessionVars,
                 answering>>

CustomerStep(r) ==
  \/ \E c \in Conversations : CustomerMessage(r, c) \/ CarouselTap(r, c)
  \/ ReleaseIfStale(r) \/ Suppress(r) \/ SearchPhoto(r) \/ BotAnswers(r) \/ Escalate(r)
  \/ \E a \in Admins : NotifyOnThread(r, a) \/ NotifyOnNewThread(r, a)
  \/ NotifyDone(r) \/ SendReply(r)

AdminStep(r) ==
  \/ \E c \in Conversations : ReleaseConversation(r, c)
  \/ CloseThreads(r)
  \/ \E a \in Admins, m \in MessageIds : AdminReply(r, a, m)
  \/ RelayToCustomer(r)

Next ==
  \/ \E r \in Requests : CustomerStep(r) \/ AdminStep(r) \/ Commit(r) \/ Abort(r)
  \/ Tick

Spec == Init /\ [][Next]_vars

-----------------------------------------------------------------------------
(* Properties.                                                              *)

\* Every variable has its type.
TypeOK ==
  /\ needsHuman \in [Conversations -> BOOLEAN]
  /\ status \in [Threads -> {"free", "inserted", "void", "open", "released"}]
  /\ owner \in [Threads -> Admins \cup {NoAdmin}]
  /\ target \in [Threads -> Conversations \cup {NoConversation}]
  /\ ids \in [Threads -> SUBSET MessageIds]
  /\ active \in [Threads -> Times]
  /\ clock \in Times
  /\ about \in [Admins -> Seq(Conversations)]
  /\ \A a \in Admins : Len(about[a]) <= MaxMessage
  /\ pc \in [Requests -> {"idle", "stale", "answer", "reply", "escalate", "forward",
                          "tell", "close", "relay", "commit"}]
  /\ conv \in [Requests -> Conversations \cup {NoConversation}]
  /\ seen \in [Requests -> BOOLEAN]
  /\ needs \in [Requests -> BOOLEAN]
  /\ todo \in [Requests -> SUBSET Admins]
  /\ loaded \in [Requests -> SUBSET Threads]
  /\ copy \in [Requests -> [Threads -> [ids : SUBSET MessageIds, at : Times]]]
  /\ made \in [Requests -> SUBSET Threads]
  /\ noted \in [Requests -> SUBSET Threads]
  /\ closing \in [Requests -> SUBSET Threads]
  /\ flushed \in [Requests -> SUBSET Threads]
  /\ wrote \in [Requests -> BOOLEAN]
  /\ answering \in [Requests -> [admin : Admins \cup {NoAdmin}, message : 0..MaxMessage]]
  /\ \A r \in Requests : pc[r] = "idle" <=> conv[r] = NoConversation

\* What routing an admin's reply rests on: a message id is kept, in the row and
\* in every session, only on a thread of the admin who got the message and of
\* the conversation it is about; an inserted row belongs to one request, and
\* only rows that were open are being closed.
KnownMessages(t, kept) ==
  \A m \in kept :
    /\ owner[t] \in Admins
    /\ m \in 1..Len(about[owner[t]])
    /\ about[owner[t]][m] = target[t]

RoutingInv ==
  /\ TypeOK
  /\ \A t \in Threads : KnownMessages(t, ids[t])
  /\ \A t \in Threads : status[t] = "free" => ids[t] = {}
  /\ \A t \in Threads : status[t] # "free" => target[t] \in Conversations
  /\ \A r \in Requests : \A t \in loaded[r] :
       status[t] # "free" /\ KnownMessages(t, copy[r][t].ids)
  /\ \A r \in Requests : noted[r] \cup made[r] \cup closing[r] \subseteq loaded[r]
  /\ \A r \in Requests : \A t \in made[r] :
       status[t] = "inserted" /\ \A q \in Requests : t \in made[q] => q = r
  /\ \A r \in Requests : \A t \in closing[r] : status[t] \in {"open", "released"}
  /\ \A r \in Requests : pc[r] = "relay" =>
       /\ answering[r].admin \in Admins
       /\ answering[r].message \in 1..Len(about[answering[r].admin])
       /\ conv[r] = about[answering[r].admin][answering[r].message]

\* An admin's reply goes to the customer the replied-to message was about,
\* although message ids repeat from one admin's chat to the next and rows are
\* shared, released and made anew meanwhile.
RepliesReachTheirCustomer ==
  \A r \in Requests : pc[r] = "relay" =>
    conv[r] = about[answering[r].admin][answering[r].message]

\* A released thread stays released: no request that loaded it while it was
\* open writes it back.
ReleasedStaysReleased ==
  [][\A t \in Threads : status[t] = "released" => status'[t] = "released"]_vars

\* An escalation is undone only by a request that saw the conversation with the
\* admins and handed it back: a message answered at the same time, from a
\* session that loaded the flag before, does not wipe it out.
EscalationNotLost ==
  [][\A c \in Conversations : needsHuman[c] /\ ~needsHuman'[c] =>
       \E r \in Requests : conv[r] = c /\ pc[r] = "commit" /\ seen[r] /\ ~needs[r]]_vars

\* "a fresh escalation after a previous release starts a new [row]"
\* (handoff/service.py:75-79), "each in their own thread" (:126-129): once no
\* request is at work, a conversation with the admins has a thread open.
EscalatedHasThread ==
  \A c \in Conversations :
    needsHuman[c] /\ (\A r \in Requests : pc[r] = "idle") => OpenThreads(c) # {}

\* "While a conversation's needs_human flag is set, the webhook suppresses all
\* automated replies on that thread" (handoff/service.py:17-18): the bot answers a
\* message only if the flag is clear, or is being cleared by the answering request.  A
\* tap on a carousel is no message of this module: it is answered whatever the flag
\* says (image_search/carousel.py, _handle_confirm), so this is said of messages only.
SilentWhileHuman ==
  [][\A r \in Requests : pc[r] = "reply" /\ pc'[r] = "commit" =>
       ~needsHuman[conv[r]] \/ closing[r] # {}]_vars
=============================================================================
