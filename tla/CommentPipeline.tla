--------------------------- MODULE CommentPipeline ---------------------------
(***************************************************************************)
(* The Instagram comment-to-DM pipeline: the webhook that records an       *)
(* inbound comment or story reply (app/instagram/router.py), the Redis     *)
(* list and sorted set that carry its row id (queue.py), the worker loop   *)
(* (worker.py), the per-row processing (service.py) and the hourly call    *)
(* budget (budget.py).                                                     *)
(*                                                                         *)
(* A step is what one process does between two interactions with shared    *)
(* state: one Redis command, one database read, one commit, one Graph API  *)
(* call.  Everything between two such points is local to the process.      *)
(***************************************************************************)
EXTENDS Integers, Sequences, FiniteSets

CONSTANTS
  Events,           \* inbound (merchant_id, external_id) pairs Meta delivers
  Comments,         \* those on the instagram_comment channel; the rest are story replies
  Merchants,
  Owner,            \* the merchant each event belongs to
  Connected,        \* merchants whose row holds an access token
  Handlers,         \* web server processes running receive_webhook
  Workers,          \* worker processes running worker.run
  NoEvent,          \* no job in a worker's hands
  HourlyCallCap,    \* HOURLY_CALL_CAP
  CallsPerMatch,    \* CALLS_PER_MATCH
  CommentWindow,    \* REPLY_WINDOW, in hours
  StoryWindow,      \* STORY_REPLY_WINDOW, in hours
  MaxHour,          \* bound: the clock stops here
  LastArrivalHour,  \* bound: Meta delivers nothing after this hour
  Faults            \* which failures may happen: "web", "raise", "crash"

ASSUME PipelineAssumption ==
  /\ Comments \subseteq Events
  /\ Owner \in [Events -> Merchants]
  /\ Connected \subseteq Merchants
  /\ NoEvent \notin Events
  /\ HourlyCallCap \in Nat /\ CallsPerMatch \in Nat
  /\ CommentWindow \in Nat /\ StoryWindow \in Nat
  /\ MaxHour \in Nat /\ LastArrivalHour \in Nat
  /\ Faults \subseteq {"web", "raise", "crash"}

\* The clock runs on until every event is past its reply window.
ASSUME BoundAssumption ==
  /\ LastArrivalHour + CommentWindow < MaxHour
  /\ LastArrivalHour + StoryWindow < MaxHour

VARIABLES
  status,     \* comment_events.status, "absent" before the row exists
  created,    \* comment_events.created_at, as an hour
  outbox,     \* per handler: enqueued_ids committed and not yet pushed
  queue,      \* the Redis list ig:comments, head popped first
  deferred,   \* members of the Redis sorted set ig:deferred
  dueAt,      \* the score an event was last given in ig:deferred, 0 if never
  used,       \* the ig_budget counters, per merchant and hour
  hour,       \* the wall clock
  pc,         \* per worker: the next shared-state interaction
  cur,        \* per worker: the event _process was called with
  due,        \* per worker: members ZRANGEBYSCORE returned, ZREM still to do
  claimed,    \* per worker: members won by ZREM, not yet processed
  dms,        \* history: DMs Meta delivered for an event
  publics,    \* history: public replies Meta posted for an event
  calls,      \* history: Graph API reply calls made, per merchant and hour
  dropped     \* history: events whose job some failure let go of

webVars == <<outbox>>
redisVars == <<queue, deferred, dueAt, used>>
rowVars == <<status, created>>
loopVars == <<due, claimed>>
historyVars == <<dms, publics, calls, dropped>>
vars == <<status, created, outbox, queue, deferred, dueAt, used, hour,
          pc, cur, due, claimed, dms, publics, calls, dropped>>

Hours == 0..MaxHour
Settled == {"replied", "no_match", "dropped_stale", "failed"}
Status == {"absent", "pending", "matched", "deferred"} \cup Settled

\* The points where a worker is inside process_comment_event.
InJob == {"load", "decide", "consume", "defer", "parked", "send", "public",
          "finish", "fail"}
InLoop == {"poll", "claim", "drain", "brpop"}

ReplyWindow(e) == IF e \in Comments THEN CommentWindow ELSE StoryWindow

Init ==
  /\ status = [e \in Events |-> "absent"]
  /\ created = [e \in Events |-> 0]
  /\ outbox = [h \in Handlers |-> {}]
  /\ queue = <<>>
  /\ deferred = {}
  /\ dueAt = [e \in Events |-> 0]
  /\ used = [m \in Merchants |-> [h \in Hours |-> 0]]
  /\ hour = 0
  /\ pc = [w \in Workers |-> "poll"]
  /\ cur = [w \in Workers |-> NoEvent]
  /\ due = [w \in Workers |-> {}]
  /\ claimed = [w \in Workers |-> {}]
  /\ dms = [e \in Events |-> 0]
  /\ publics = [e \in Events |-> 0]
  /\ calls = [m \in Merchants |-> [h \in Hours |-> 0]]
  /\ dropped = {}

-----------------------------------------------------------------------------
(* receive_webhook.  The inserts of one request are one transaction: a      *)
(* conflicting insert waits for the other transaction, so the outcome is    *)
(* the one decided at commit.                                               *)

\* _insert_event: a row that exists already is left alone (ON CONFLICT DO
\* NOTHING) and gives no id to enqueue.
MutantUpsert(batch) == batch
Fresh(batch) == {e \in batch : status[e] = "absent"}

ReceiveWebhook(h, batch) ==
  /\ outbox[h] = {}
  /\ hour <= LastArrivalHour
  /\ status' = [e \in Events |-> IF e \in Fresh(batch) THEN "pending" ELSE status[e]]
  /\ created' = [e \in Events |-> IF e \in Fresh(batch) THEN hour ELSE created[e]]
  /\ outbox' = [outbox EXCEPT ![h] = Fresh(batch)]
  /\ UNCHANGED <<redisVars, hour, pc, cur, loopVars, historyVars>>

MutantEnqueueTwice(h) ==
  \E e \in outbox[h] :
    /\ queue' = queue \o <<e, e>>
    /\ outbox' = [outbox EXCEPT ![h] = @ \ {e}]
    /\ UNCHANGED <<rowVars, deferred, dueAt, used, hour, pc, cur, loopVars, historyVars>>
EnqueueComment(h) ==
  \E e \in outbox[h] :
    /\ queue' = Append(queue, e)
    /\ outbox' = [outbox EXCEPT ![h] = @ \ {e}]
    /\ UNCHANGED <<rowVars, deferred, dueAt, used, hour, pc, cur, loopVars, historyVars>>

\* The process dies after the commit, or LPUSH raises: the ids still in
\* enqueued_ids are gone, and a redelivery finds their rows already there.
WebFails(h) ==
  /\ "web" \in Faults
  /\ outbox[h] # {}
  /\ outbox' = [outbox EXCEPT ![h] = {}]
  /\ dropped' = dropped \cup outbox[h]
  /\ UNCHANGED <<rowVars, redisVars, hour, pc, cur, loopVars, dms, publics, calls>>

-----------------------------------------------------------------------------
(* worker.run and queue.pop_due_deferred.                                   *)

Goto(w, from, to) ==
  /\ pc[w] = from
  /\ pc' = [pc EXCEPT ![w] = to]

PollDeferred(w) ==
  /\ Goto(w, "poll", "claim")
  /\ due' = [due EXCEPT ![w] = {e \in deferred : dueAt[e] <= hour}]
  /\ UNCHANGED <<rowVars, webVars, redisVars, hour, cur, claimed, historyVars>>

\* One ZREM: it succeeds for one claimer only.  (The mutant claims without
\* looking at what ZREM returned.)
MutantClaimUnchecked(w) ==
  /\ pc[w] = "claim"
  /\ \E e \in due[w] :
       /\ due' = [due EXCEPT ![w] = @ \ {e}]
       /\ claimed' = [claimed EXCEPT ![w] = @ \cup {e}]
       /\ deferred' = deferred \ {e}
  /\ UNCHANGED <<rowVars, webVars, queue, dueAt, used, hour, pc, cur, historyVars>>
ClaimDeferred(w) ==
  /\ pc[w] = "claim"
  /\ \E e \in due[w] :
       /\ due' = [due EXCEPT ![w] = @ \ {e}]
       /\ claimed' = [claimed EXCEPT ![w] = IF e \in deferred THEN @ \cup {e} ELSE @]
       /\ deferred' = deferred \ {e}
  /\ UNCHANGED <<rowVars, webVars, queue, dueAt, used, hour, pc, cur, historyVars>>

ClaimDone(w) ==
  /\ Goto(w, "claim", "drain")
  /\ due[w] = {}
  /\ UNCHANGED <<rowVars, webVars, redisVars, hour, cur, loopVars, historyVars>>

ProcessClaimed(w) ==
  /\ Goto(w, "drain", "load")
  /\ \E e \in claimed[w] : cur' = [cur EXCEPT ![w] = e]
  /\ UNCHANGED <<rowVars, webVars, redisVars, hour, loopVars, historyVars>>

DrainDone(w) ==
  /\ Goto(w, "drain", "brpop")
  /\ claimed[w] = {}
  /\ UNCHANGED <<rowVars, webVars, redisVars, hour, cur, loopVars, historyVars>>

PopQueue(w) ==
  /\ Goto(w, "brpop", "load")
  /\ queue # <<>>
  /\ cur' = [cur EXCEPT ![w] = Head(queue)]
  /\ queue' = Tail(queue)
  /\ UNCHANGED <<rowVars, webVars, deferred, dueAt, used, hour, loopVars, historyVars>>

\* BRPOP's own timeout, or the client's TimeoutError on an empty list.
PopTimeout(w) ==
  /\ Goto(w, "brpop", "poll")
  /\ queue = <<>>
  /\ UNCHANGED <<rowVars, webVars, redisVars, hour, cur, loopVars, historyVars>>

\* The client's TimeoutError, about as long as BRPOP's timeout, races an answer: Redis
\* has popped the id, and the loop goes on as if the list had been empty.
PopSwallowed(w) ==
  /\ Goto(w, "brpop", "poll")
  /\ queue # <<>>
  /\ queue' = Tail(queue)
  /\ dropped' = dropped \cup {Head(queue)}
  /\ UNCHANGED <<rowVars, webVars, deferred, dueAt, used, hour, cur, loopVars, dms,
                 publics, calls>>

\* _process returns: to the loop over the claimed list, or to the loop's top.
\* (The mutants leave the loop after its first job, and forget to let go.)
MutantReturnToTop(w) ==
  /\ pc' = [pc EXCEPT ![w] = "poll"]
  /\ cur' = [cur EXCEPT ![w] = NoEvent]
  /\ claimed' = [claimed EXCEPT ![w] = {}]
  /\ UNCHANGED due
MutantReturnHolding(w) ==
  /\ pc' = [pc EXCEPT ![w] = IF cur[w] \in claimed[w] THEN "drain" ELSE "poll"]
  /\ claimed' = [claimed EXCEPT ![w] = @ \ {cur[w]}]
  /\ UNCHANGED <<cur, due>>
Return(w) ==
  /\ pc' = [pc EXCEPT ![w] = IF cur[w] \in claimed[w] THEN "drain" ELSE "poll"]
  /\ cur' = [cur EXCEPT ![w] = NoEvent]
  /\ claimed' = [claimed EXCEPT ![w] = @ \ {cur[w]}]
  /\ UNCHANGED due

\* _finish(db, event, s): the commit, then back to the loop.
FinishAs(w, s) ==
  /\ status' = [status EXCEPT ![cur[w]] = s]
  /\ Return(w)
  /\ UNCHANGED <<created, webVars, redisVars, hour, historyVars>>

-----------------------------------------------------------------------------
(* process_comment_event.                                                   *)

\* The statuses a job may start from; anything else is skipped.
MutantRetryMatched == {"pending", "matched", "deferred"}
MutantPendingOnly == {"pending"}
Unprocessed == {"pending", "deferred"}

LoadEvent(w) ==
  /\ Goto(w, "load", "decide")
  /\ status[cur[w]] \in Unprocessed
  /\ UNCHANGED <<rowVars, webVars, redisVars, hour, cur, loopVars, historyVars>>

SkipEvent(w) ==
  /\ pc[w] = "load"
  /\ status[cur[w]] \notin Unprocessed
  /\ Return(w)
  /\ UNCHANGED <<rowVars, webVars, redisVars, hour, historyVars>>

IsStale(e) == hour - created[e] > ReplyWindow(e)

DecideFailed(w) ==
  /\ pc[w] = "decide"
  /\ Owner[cur[w]] \notin Connected
  /\ FinishAs(w, "failed")

DecideStale(w) ==
  /\ pc[w] = "decide"
  /\ Owner[cur[w]] \in Connected
  /\ IsStale(cur[w])
  /\ FinishAs(w, "dropped_stale")

\* No text, or match_flow finds no rule; the merchant may edit the rules at
\* any time, so either outcome is possible each time the event is processed.
DecideNoMatch(w) ==
  /\ pc[w] = "decide"
  /\ Owner[cur[w]] \in Connected
  /\ ~IsStale(cur[w])
  /\ FinishAs(w, "no_match")

DecideMatched(w) ==
  /\ Goto(w, "decide", "consume")
  /\ Owner[cur[w]] \in Connected
  /\ ~IsStale(cur[w])
  /\ status' = [status EXCEPT ![cur[w]] = "matched"]
  /\ UNCHANGED <<created, webVars, redisVars, hour, cur, loopVars, historyVars>>

\* try_consume_calls: INCRBY, then compare.  A rejected attempt stays counted.
\* (The mutant compares the count read before its own INCRBY.)
MutantCheckThenAdd(w) ==
  /\ pc[w] = "consume"
  /\ LET m == Owner[cur[w]]
         count == used[m][hour]
     IN /\ used' = [used EXCEPT ![m][hour] = count + CallsPerMatch]
        /\ pc' = [pc EXCEPT ![w] = IF count <= HourlyCallCap THEN "send" ELSE "defer"]
  /\ UNCHANGED <<rowVars, webVars, queue, deferred, dueAt, hour, cur, loopVars, historyVars>>
TryConsumeCalls(w) ==
  /\ pc[w] = "consume"
  /\ LET m == Owner[cur[w]]
         count == used[m][hour] + CallsPerMatch
     IN /\ used' = [used EXCEPT ![m][hour] = count]
        /\ pc' = [pc EXCEPT ![w] = IF count <= HourlyCallCap THEN "send" ELSE "defer"]
  /\ UNCHANGED <<rowVars, webVars, queue, deferred, dueAt, hour, cur, loopVars, historyVars>>

\* next_hour_epoch().  At the bound the clock stands for every later hour, so
\* a retry is due at once.
NextHour == IF hour < MaxHour THEN hour + 1 ELSE MaxHour

\* defer_comment(next_hour_epoch()), before the row says "deferred".
DeferComment(w) ==
  /\ Goto(w, "defer", "parked")
  /\ deferred' = deferred \cup {cur[w]}
  /\ dueAt' = [dueAt EXCEPT ![cur[w]] = NextHour]
  /\ UNCHANGED <<rowVars, webVars, queue, used, hour, cur, loopVars, historyVars>>

FinishDeferred(w) ==
  /\ pc[w] = "parked"
  /\ FinishAs(w, "deferred")

CountCall(e) == calls' = [calls EXCEPT ![Owner[e]][hour] = @ + 1]

\* send_private_reply or send_message.  Meta may deliver the DM and the
\* answer still be lost (the 10 second timeout): accepted without answered.
SendReply(w) ==
  /\ pc[w] = "send"
  /\ CountCall(cur[w])
  /\ \/ /\ dms' = [dms EXCEPT ![cur[w]] = @ + 1]
        /\ \E next \in {"public", "fail"} : pc' = [pc EXCEPT ![w] = next]
     \/ /\ pc' = [pc EXCEPT ![w] = "fail"]
        /\ UNCHANGED dms
  /\ UNCHANGED <<rowVars, webVars, redisVars, hour, cur, loopVars, publics, dropped>>

FinishFailed(w) ==
  /\ pc[w] = "fail"
  /\ FinishAs(w, "failed")

\* Posted only on the comment channel, for a rule with a public reply and an
\* exact keyword; its failure is logged and changes nothing.
PublicReply(w) ==
  /\ Goto(w, "public", "finish")
  /\ \/ UNCHANGED <<publics, calls>>
     \/ /\ cur[w] \in Comments
        /\ CountCall(cur[w])
        /\ \/ publics' = [publics EXCEPT ![cur[w]] = @ + 1]
           \/ UNCHANGED publics
  /\ UNCHANGED <<rowVars, webVars, redisVars, hour, cur, loopVars, dms, dropped>>

FinishReplied(w) ==
  /\ pc[w] = "finish"
  /\ FinishAs(w, "replied")

\* Any exception inside _process (Redis, the database, a malformed rule) is
\* logged there and the loop goes on; nothing writes the row.
JobRaises(w) ==
  /\ "raise" \in Faults
  /\ pc[w] \in InJob
  /\ Return(w)
  /\ dropped' = dropped \cup {cur[w]}
  /\ UNCHANGED <<rowVars, webVars, redisVars, hour, dms, publics, calls>>

\* The process dies and is started again: its memory is gone.
WorkerCrash(w) ==
  /\ "crash" \in Faults
  /\ pc[w] # "poll"
  /\ pc' = [pc EXCEPT ![w] = "poll"]
  /\ cur' = [cur EXCEPT ![w] = NoEvent]
  /\ due' = [due EXCEPT ![w] = {}]
  /\ claimed' = [claimed EXCEPT ![w] = {}]
  /\ dropped' = dropped \cup claimed[w] \cup ({cur[w]} \ {NoEvent})
  /\ UNCHANGED <<rowVars, webVars, redisVars, hour, dms, publics, calls>>

-----------------------------------------------------------------------------

Tick ==
  /\ hour < MaxHour
  /\ hour' = hour + 1
  /\ UNCHANGED <<rowVars, webVars, redisVars, pc, cur, loopVars, historyVars>>

LoopStep(w) ==
  \/ PollDeferred(w) \/ ClaimDeferred(w) \/ ClaimDone(w)
  \/ ProcessClaimed(w) \/ DrainDone(w)
  \/ PopQueue(w) \/ PopTimeout(w) \/ PopSwallowed(w)

JobStep(w) ==
  \/ LoadEvent(w) \/ SkipEvent(w)
  \/ DecideFailed(w) \/ DecideStale(w) \/ DecideNoMatch(w) \/ DecideMatched(w)
  \/ TryConsumeCalls(w) \/ DeferComment(w) \/ FinishDeferred(w)
  \/ SendReply(w) \/ FinishFailed(w) \/ PublicReply(w) \/ FinishReplied(w)

WorkerStep(w) == LoopStep(w) \/ JobStep(w)

WorkerFault(w) == JobRaises(w) \/ WorkerCrash(w)

WebStep(h) ==
  \/ \E batch \in SUBSET Events : ReceiveWebhook(h, batch)
  \/ EnqueueComment(h)
  \/ WebFails(h)

Next ==
  \/ \E h \in Handlers : WebStep(h)
  \/ \E w \in Workers : WorkerStep(w) \/ WorkerFault(w)
  \/ Tick

Spec == Init /\ [][Next]_vars

\* The worker loop never blocks for good (BRPOP has a timeout), a handler
\* that has committed goes on to its LPUSHes, and time passes.
Fairness ==
  /\ \A w \in Workers : WF_vars(WorkerStep(w))
  /\ \A h \in Handlers : WF_vars(EnqueueComment(h))
  /\ WF_vars(Tick)

FairSpec == Spec /\ Fairness

-----------------------------------------------------------------------------
(* Properties.                                                              *)

\* Every variable has its type; a worker holds an event exactly while it is
\* inside process_comment_event.
TypeOK ==
  /\ status \in [Events -> Status]
  /\ created \in [Events -> Hours]
  /\ outbox \in [Handlers -> SUBSET Events]
  /\ queue \in Seq(Events)
  /\ deferred \subseteq Events
  /\ dueAt \in [Events -> Hours]
  /\ used \in [Merchants -> [Hours -> Nat]]
  /\ hour \in Hours
  /\ pc \in [Workers -> InLoop \cup InJob]
  /\ cur \in [Workers -> Events \cup {NoEvent}]
  /\ due \in [Workers -> SUBSET Events]
  /\ claimed \in [Workers -> SUBSET Events]
  /\ dms \in [Events -> Nat]
  /\ publics \in [Events -> Nat]
  /\ calls \in [Merchants -> [Hours -> Nat]]
  /\ dropped \subseteq Events
  /\ \A w \in Workers : cur[w] \in Events <=> pc[w] \in InJob

\* A customer is never sent a second DM for one comment, whatever is
\* redelivered, retried, deferred, claimed twice or cut short by a crash.
AtMostOneDM == \A e \in Events : dms[e] <= 1

\* What the row says agrees with what the customer saw: "replied" only once
\* the DM is out; silence ("no_match", "dropped_stale") and a job still to be
\* retried only while it is not; a public reply only under an answered
\* comment, and once.
StatusTellsTruth ==
  \A e \in Events :
    /\ status[e] = "replied" => dms[e] = 1
    /\ status[e] \in {"absent", "pending", "deferred", "no_match", "dropped_stale"}
         => dms[e] = 0
    /\ publics[e] <= dms[e]

\* A settled row is never written again: no late worker, retry or redelivery
\* reopens or rewrites an outcome.
SettledIsFinal ==
  [][\A e \in Events : status[e] \in Settled => status'[e] = status[e]]_vars

\* The Graph calls of one hour exceed the hourly cap by at most one match
\* per worker: the one it had paid for when the hour turned.
CallsWithinSlack ==
  \A m \in Merchants, h \in Hours :
    calls[m][h] <= HourlyCallCap + CallsPerMatch * Cardinality(Workers)

-----------------------------------------------------------------------------
(* Why a comment gets at most one DM: the inductive strengthening.          *)

Queued(e) == \E i \in 1..Len(queue) : queue[i] = e

\* A worker holds the one claim on e.  At "parked" the claim is already back
\* in the sorted set.
Holds(w, e) ==
  \/ e \in claimed[w] /\ e # cur[w]
  \/ e = cur[w] /\ pc[w] \in InJob \ {"parked"}

\* A worker has read e as unprocessed and may still write its row.
Active(w, e) == e = cur[w] /\ pc[w] \in InJob \ {"load"}

\* The claim on an event is in one place only, and says where its row is.
OneClaim ==
  /\ \A h \in Handlers : \A e \in outbox[h] :
       /\ status[e] = "pending"
       /\ ~Queued(e)
       /\ e \notin deferred
       /\ \A w \in Workers : ~Holds(w, e)
       /\ \A g \in Handlers : e \in outbox[g] => g = h
  /\ \A i, j \in 1..Len(queue) : queue[i] = queue[j] => i = j
  /\ \A i \in 1..Len(queue) :
       /\ status[queue[i]] = "pending"
       /\ queue[i] \notin deferred
       /\ \A w \in Workers : ~Holds(w, queue[i])
  /\ \A e \in deferred :
       /\ status[e] \in {"matched", "deferred"}
       /\ \A w \in Workers : ~Holds(w, e)
  /\ \A w \in Workers, e \in Events : Holds(w, e) =>
       /\ status[e] # "absent"
       /\ \A v \in Workers : Holds(v, e) => v = w

\* A row is written by one worker at a time.
OneWriter ==
  \A v, w \in Workers, e \in Events : Active(v, e) /\ Active(w, e) => v = w

\* How far a worker is tells what its row says and what the customer saw.
ProgressAgrees ==
  \A w \in Workers :
    /\ pc[w] = "decide" => status[cur[w]] \in {"pending", "deferred"}
    /\ pc[w] \in {"consume", "defer", "parked", "send"} =>
         status[cur[w]] = "matched" /\ dms[cur[w]] = 0
    /\ pc[w] = "public" =>
         status[cur[w]] = "matched" /\ dms[cur[w]] = 1 /\ publics[cur[w]] = 0
    /\ pc[w] = "finish" => status[cur[w]] = "matched" /\ dms[cur[w]] = 1
    /\ pc[w] = "fail" => status[cur[w]] = "matched"

\* The inductive invariant: what AtMostOneDM and StatusTellsTruth rest on.
DeliveryInv ==
  /\ TypeOK
  /\ OneClaim
  /\ OneWriter
  /\ ProgressAgrees
  /\ AtMostOneDM
  /\ StatusTellsTruth

-----------------------------------------------------------------------------
(* Loss and progress.                                                       *)

\* Somebody still has the event: the webhook, the list, the sorted set, or a
\* worker that will go on to process it or to write its outcome.
Tracked(e) ==
  \/ \E h \in Handlers : e \in outbox[h]
  \/ Queued(e)
  \/ e \in deferred
  \/ \E w \in Workers : e = cur[w] \/ e \in claimed[w]

\* An accepted event that has no outcome yet is still in somebody's hands, unless a
\* failure let go of that very job: its LPUSH or its answer was lost, it raised, or its
\* worker died.  A job that fails takes none of those claimed with it along
\* (worker.py:50-51), and nothing else loses one.
NoJobLost ==
  \A e \in Events \ dropped :
    status[e] \in {"pending", "matched", "deferred"} => Tracked(e)

\* Every accepted event gets its outcome, unless a failure let go of its job.
EveryEventSettles ==
  \A e \in Events :
    status[e] = "pending" ~> status[e] \in Settled \/ e \in dropped

\* The status "pending" means "webhook accepted, queued" (models.py:482).
PendingIsQueued == \A e \in Events : status[e] = "pending" => Tracked(e)

\* "a job that raises is marked failed by the service layer" (worker.py:11-12):
\* a job a worker no longer holds is settled or waits for its retry.
RaisedJobIsMarked ==
  [][\A w \in Workers :
       pc[w] \in InJob /\ pc'[w] \notin InJob =>
         status'[cur[w]] \in Settled \cup {"deferred"}]_vars

\* "a capped job is DEFERRED ..., never dropped" (budget.py:3-5): an event
\* that was once deferred is settled or still in somebody's hands.
CappedJobNotDropped ==
  \A e \in Events : dueAt[e] > 0 => status[e] \in Settled \/ Tracked(e)
=============================================================================
