------------------------ MODULE CommentDeliveryProofs ------------------------
(***************************************************************************)
(* Type correctness, at most one DM per comment, truthful and final        *)
(* outcomes, and the implementation of CommentDelivery, for any number of  *)
(* events, merchants, handlers and workers, any cap, and every fault.      *)
(* The argument is DeliveryInv: the claim on an event is in one place, a   *)
(* row has one writer, and a worker's progress tells what the row says.    *)
(* Last, that one worker loses no job but the one a failure let go of, and *)
(* what an hour's calls can be.                                            *)
(***************************************************************************)
EXTENDS CommentRefinement, FiniteSetTheorems, TLAPS

\* The commit of a job and the return to the loop keep every type: a status
\* from Status goes into the row, and the worker lets go of its event.
LEMMA FinishAsType ==
  ASSUME TypeOK, NEW w \in Workers, NEW s \in Status, pc[w] \in InJob,
         FinishAs(w, s)
  PROVE  TypeOK'
<1>1. cur[w] \in Events
  BY DEF TypeOK
<1> QED
  BY <1>1, PipelineAssumption
  DEF TypeOK, FinishAs, Return, webVars, redisVars, historyVars, InJob, InLoop, Status, Settled

\* Counting one Graph call keeps the call history in its type.
LEMMA CountCallType ==
  ASSUME TypeOK, NEW e \in Events, CountCall(e)
  PROVE  calls' \in [Merchants -> [Hours -> Nat]]
<1>1. Owner[e] \in Merchants
  BY PipelineAssumption
<1>2. calls \in [Merchants -> [Hours -> Nat]] /\ hour \in Hours
  BY DEF TypeOK
<1> QED
  BY <1>1, <1>2 DEF CountCall

\* Every step keeps every variable in its type.
LEMMA TypeStep == TypeOK /\ [Next]_vars => TypeOK'
<1> SUFFICES ASSUME TypeOK, [Next]_vars PROVE TypeOK'
  OBVIOUS
<1> USE PipelineAssumption
<1> USE DEF InJob, InLoop
<1>1. ASSUME NEW h \in Handlers, NEW batch \in SUBSET Events, ReceiveWebhook(h, batch)
      PROVE  TypeOK'
  BY <1>1 DEF ReceiveWebhook, Fresh, TypeOK, redisVars, loopVars, historyVars, Status
<1>2. ASSUME NEW h \in Handlers, EnqueueComment(h) PROVE TypeOK'
  BY <1>2 DEF EnqueueComment, TypeOK, rowVars, loopVars, historyVars
<1>3. ASSUME NEW h \in Handlers, WebFails(h) PROVE TypeOK'
  BY <1>3 DEF WebFails, TypeOK, rowVars, redisVars, loopVars, historyVars
<1>4. ASSUME NEW w \in Workers, LoopStep(w) PROVE TypeOK'
  <2>1. CASE PollDeferred(w)
    BY <2>1 DEF PollDeferred, Goto, TypeOK, rowVars, webVars, redisVars, historyVars
  <2>2. CASE ClaimDeferred(w)
    BY <2>2 DEF ClaimDeferred, TypeOK, rowVars, webVars, historyVars
  <2>3. CASE ClaimDone(w)
    BY <2>3 DEF ClaimDone, Goto, TypeOK, rowVars, webVars, redisVars, loopVars, historyVars
  <2>4. CASE ProcessClaimed(w)
    BY <2>4 DEF ProcessClaimed, Goto, TypeOK, rowVars, webVars, redisVars, loopVars, historyVars
  <2>5. CASE DrainDone(w)
    BY <2>5 DEF DrainDone, Goto, TypeOK, rowVars, webVars, redisVars, loopVars, historyVars
  <2>6. CASE PopQueue(w)
    <3> DEFINE e == Head(queue)
    <3>1. queue \in Seq(Events) /\ queue # <<>>
      BY <2>6 DEF PopQueue, TypeOK
    <3>2. e \in Events /\ queue' \in Seq(Events)
      BY <2>6, <3>1 DEF PopQueue
    <3>3. /\ cur' = [cur EXCEPT ![w] = e]
          /\ pc[w] = "brpop" /\ pc' = [pc EXCEPT ![w] = "load"]
          /\ UNCHANGED <<status, created, outbox, deferred, dueAt, used, hour, due,
                         claimed, dms, publics, calls, dropped>>
      BY <2>6 DEF PopQueue, Goto, rowVars, webVars, loopVars, historyVars
    <3> HIDE DEF e
    <3>4. \A v \in Workers : cur'[v] \in Events <=> pc'[v] \in InJob
      BY <3>2, <3>3 DEF TypeOK
    <3> QED
      BY <3>2, <3>3, <3>4 DEF TypeOK
  <2>7. CASE PopTimeout(w)
    BY <2>7 DEF PopTimeout, Goto, TypeOK, rowVars, webVars, redisVars, loopVars, historyVars
  <2>8. CASE PopSwallowed(w)
    <3>1. queue' \in Seq(Events) /\ Head(queue) \in Events
      BY <2>8 DEF PopSwallowed, TypeOK
    <3> QED
      BY <2>8, <3>1 DEF PopSwallowed, Goto, TypeOK, rowVars, webVars, loopVars
  <2> QED
    BY <1>4, <2>1, <2>2, <2>3, <2>4, <2>5, <2>6, <2>7, <2>8 DEF LoopStep
<1>5. ASSUME NEW w \in Workers, JobStep(w) PROVE TypeOK'
  <2>0. pc[w] \in InJob => cur[w] \in Events /\ Owner[cur[w]] \in Merchants
    BY DEF TypeOK
  <2>1. CASE LoadEvent(w)
    BY <2>1 DEF LoadEvent, Goto, TypeOK, rowVars, webVars, redisVars, loopVars, historyVars
  <2>2. CASE SkipEvent(w)
    BY <2>2 DEF SkipEvent, Return, TypeOK, rowVars, webVars, redisVars, historyVars
  <2>3. CASE DecideFailed(w) \/ DecideStale(w) \/ DecideNoMatch(w)
             \/ FinishDeferred(w) \/ FinishFailed(w) \/ FinishReplied(w)
    BY <2>3, FinishAsType DEF DecideFailed, DecideStale, DecideNoMatch, FinishDeferred,
       FinishFailed, FinishReplied, Status, Settled
  <2>4. CASE DecideMatched(w)
    BY <2>4 DEF DecideMatched, Goto, TypeOK, webVars, redisVars, loopVars, historyVars, Status
  <2>5. CASE TryConsumeCalls(w)
    <3> DEFINE m == Owner[cur[w]]
               count == used[m][hour] + CallsPerMatch
    <3>1. m \in Merchants
      BY <2>0, <2>5 DEF TryConsumeCalls
    <3>2. used' = [used EXCEPT ![m][hour] = count] /\ count \in Nat
      BY <3>1, <2>5 DEF TryConsumeCalls, TypeOK
    <3>3. used' \in [Merchants -> [Hours -> Nat]]
      BY <3>1, <3>2 DEF TypeOK
    <3> QED
      BY <2>5, <3>3 DEF TryConsumeCalls, TypeOK, rowVars, webVars, loopVars, historyVars
  <2>6. CASE DeferComment(w)
    <3>1. NextHour \in Hours
      BY DEF NextHour, TypeOK, Hours
    <3> QED
      BY <2>0, <2>6, <3>1 DEF DeferComment, Goto, TypeOK, rowVars, webVars, loopVars, historyVars
  <2>7. CASE SendReply(w)
    <3>1. calls' \in [Merchants -> [Hours -> Nat]]
      BY <2>0, <2>7, CountCallType DEF SendReply
    <3>2. /\ dms' = dms \/ dms' = [dms EXCEPT ![cur[w]] = @ + 1]
          /\ \E next \in {"public", "fail"} : pc' = [pc EXCEPT ![w] = next]
      BY <2>7 DEF SendReply
    <3>3. dms' \in [Events -> Nat]
      <4>1. dms \in [Events -> Nat] /\ cur[w] \in Events
        BY <2>0, <2>7 DEF SendReply, TypeOK
      <4>2. [dms EXCEPT ![cur[w]] = @ + 1] \in [Events -> Nat]
        BY <4>1
      <4> QED
        BY <3>2, <4>1, <4>2
    <3>4. UNCHANGED <<rowVars, webVars, redisVars, hour, cur, loopVars, publics, dropped>>
          /\ pc[w] = "send"
      BY <2>7 DEF SendReply
    <3>5. pc' \in [Workers -> InLoop \cup InJob] /\ pc'[w] \in InJob
          /\ \A v \in Workers : v # w => pc'[v] = pc[v]
      BY <3>2 DEF TypeOK
    <3>6. \A v \in Workers : cur'[v] \in Events <=> pc'[v] \in InJob
      BY <2>0, <3>4, <3>5 DEF TypeOK
    <3> QED
      BY <3>1, <3>3, <3>4, <3>5, <3>6 DEF TypeOK, rowVars, webVars, redisVars, loopVars
  <2>8. CASE PublicReply(w)
    <3>1. calls' \in [Merchants -> [Hours -> Nat]]
      BY <2>0, <2>8, CountCallType DEF PublicReply, Goto, TypeOK
    <3>2. publics' \in [Events -> Nat]
      <4>1. publics \in [Events -> Nat] /\ cur[w] \in Events
        BY <2>0, <2>8 DEF PublicReply, Goto, TypeOK
      <4>2. [publics EXCEPT ![cur[w]] = @ + 1] \in [Events -> Nat]
        BY <4>1
      <4> QED
        BY <2>8, <4>1, <4>2 DEF PublicReply
    <3> QED
      BY <2>0, <2>8, <3>1, <3>2 DEF PublicReply, Goto, TypeOK, rowVars, webVars, redisVars, loopVars
  <2> QED
    BY <1>5, <2>1, <2>2, <2>3, <2>4, <2>5, <2>6, <2>7, <2>8 DEF JobStep
<1>6. ASSUME NEW w \in Workers, JobRaises(w) PROVE TypeOK'
  BY <1>6 DEF JobRaises, Return, TypeOK, rowVars, webVars, redisVars, historyVars
<1>7. ASSUME NEW w \in Workers, WorkerCrash(w) PROVE TypeOK'
  <2>1. dropped' \subseteq Events
    BY <1>7 DEF WorkerCrash, TypeOK
  <2>2. /\ pc' = [pc EXCEPT ![w] = "poll"] /\ cur' = [cur EXCEPT ![w] = NoEvent]
        /\ due' = [due EXCEPT ![w] = {}] /\ claimed' = [claimed EXCEPT ![w] = {}]
        /\ UNCHANGED <<rowVars, webVars, redisVars, hour, dms, publics, calls>>
    BY <1>7 DEF WorkerCrash
  <2>3. /\ pc' \in [Workers -> InLoop \cup InJob]
        /\ cur' \in [Workers -> Events \cup {NoEvent}]
        /\ \A v \in Workers : cur'[v] \in Events <=> pc'[v] \in InJob
    BY <2>2 DEF TypeOK
  <2>4. due' \in [Workers -> SUBSET Events] /\ claimed' \in [Workers -> SUBSET Events]
    BY <2>2 DEF TypeOK
  <2> QED
    BY <2>1, <2>2, <2>3, <2>4 DEF TypeOK, rowVars, webVars, redisVars
<1>8. CASE Tick
  <2>1. hour' \in Hours
    BY <1>8 DEF Tick, TypeOK, Hours
  <2> QED
    BY <1>8, <2>1 DEF Tick, TypeOK, rowVars, webVars, redisVars, loopVars, historyVars
<1>9. CASE UNCHANGED vars
  BY <1>9 DEF vars, TypeOK
<1> QED
  BY <1>1, <1>2, <1>3, <1>4, <1>5, <1>6, <1>7, <1>8, <1>9
  DEF Next, WebStep, WorkerStep, WorkerFault

\* The initial state is well typed.
LEMMA TypeInit == Init => TypeOK
BY PipelineAssumption DEF Init, TypeOK, Status, Hours, InLoop, InJob

\* Type correctness of the whole pipeline: status, Redis contents, worker
\* memory and clock stay in their types in every reachable state.
THEOREM PipelineTyped == Spec => []TypeOK
BY TypeInit, TypeStep, PTL DEF Spec

ClaimVars == <<status, outbox, queue, deferred>>

\* A step that moves no claim, writes no row and sends nothing keeps the
\* claims and writers apart, provided workers only let go of events.
LEMMA Frame ==
  ASSUME TypeOK, OneClaim, OneWriter, AtMostOneDM, StatusTellsTruth,
         UNCHANGED ClaimVars, UNCHANGED <<dms, publics>>,
         \A v \in Workers, e \in Events : Holds(v, e)' => Holds(v, e),
         \A v \in Workers, e \in Events : Active(v, e)' => Active(v, e)
  PROVE  OneClaim' /\ OneWriter' /\ AtMostOneDM' /\ StatusTellsTruth'
<1>1. \A h \in Handlers : outbox[h] \subseteq Events
  BY DEF TypeOK
<1>2. \A i \in 1..Len(queue) : queue[i] \in Events
  BY DEF TypeOK
<1>3. deferred \subseteq Events
  BY DEF TypeOK
<1>4. OneClaim'
  <2>1. \A e : Queued(e)' <=> Queued(e)
    BY DEF Queued, ClaimVars
  <2> QED
    BY <1>1, <1>2, <1>3, <2>1 DEF OneClaim, ClaimVars
<1>5. OneWriter'
  BY DEF OneWriter
<1>6. AtMostOneDM' /\ StatusTellsTruth'
  BY DEF AtMostOneDM, StatusTellsTruth, ClaimVars
<1> QED
  BY <1>4, <1>5, <1>6

\* The commit of an outcome the DM history agrees with keeps the invariant.
LEMMA FinishStep ==
  ASSUME DeliveryInv, TypeOK', NEW w \in Workers, NEW s \in Settled \cup {"deferred"},
         FinishAs(w, s), pc[w] \in InJob \ {"load"},
         s = "deferred" <=> pc[w] = "parked",
         s = "replied" => dms[cur[w]] = 1,
         s \in {"deferred", "no_match", "dropped_stale"} => dms[cur[w]] = 0
  PROVE  DeliveryInv'
<1> DEFINE e == cur[w]
<1>1. /\ e \in Events /\ e # NoEvent
      /\ Active(w, e)
      /\ status[e] \in {"pending", "deferred", "matched"}
      /\ pc[w] = "parked" => status[e] = "matched"
      /\ pc[w] # "parked" => Holds(w, e)
  <2>1. e \in Events /\ e # NoEvent
    BY PipelineAssumption DEF DeliveryInv, TypeOK
  <2>2. Active(w, e) /\ (pc[w] # "parked" => Holds(w, e))
    BY DEF Active, Holds
  <2>3. status[e] \in {"pending", "deferred", "matched"} /\ (pc[w] = "parked" => status[e] = "matched")
    BY DEF DeliveryInv, ProgressAgrees, InJob
  <2> QED
    BY <2>1, <2>2, <2>3
<1>2. /\ status' = [status EXCEPT ![e] = s]
      /\ UNCHANGED <<outbox, queue, deferred, dms, publics>>
  BY DEF FinishAs, webVars, redisVars, historyVars
<1>3. /\ \A v \in Workers : v # w => pc'[v] = pc[v] /\ cur'[v] = cur[v] /\ claimed'[v] = claimed[v]
      /\ pc'[w] \in {"drain", "poll"} /\ cur'[w] = NoEvent /\ claimed'[w] = claimed[w] \ {e}
  BY DEF DeliveryInv, TypeOK, FinishAs, Return
<1>4. \A v \in Workers, x \in Events : Holds(v, x)' => Holds(v, x) /\ (v = w => x # e)
  BY <1>3, PipelineAssumption DEF Holds, InJob
<1>5. \A v \in Workers, x \in Events : Active(v, x)' => Active(v, x) /\ v # w
  BY <1>3, PipelineAssumption DEF Active, InJob
<1>6. \A v \in Workers : v # w => ~Active(v, e)
  BY <1>1 DEF DeliveryInv, OneWriter
<1>7. OneClaim'
  <2>1. \A h \in Handlers : e \notin outbox[h]
    BY <1>1 DEF DeliveryInv, OneClaim
  <2>2. \A i \in 1..Len(queue) : queue[i] # e /\ queue[i] \in Events
    <3>1. \A i \in 1..Len(queue) : queue[i] \in Events
      BY DEF DeliveryInv, TypeOK
    <3>2. \A i \in 1..Len(queue) : queue[i] # e
      BY <1>1 DEF DeliveryInv, OneClaim
    <3> QED
      BY <3>1, <3>2
  <2>3. e \in deferred => s = "deferred"
    BY <1>1 DEF DeliveryInv, OneClaim
  <2>4. \A x : Queued(x)' <=> Queued(x)
    BY <1>2 DEF Queued
  <2>5. status' \in [Events -> Status] /\ s # "absent" /\ \A x \in Events : x # e => status'[x] = status[x]
    BY <1>2 DEF TypeOK, DeliveryInv, Settled
  <2>6. status'[e] = s
    BY <1>1, <1>2 DEF TypeOK, DeliveryInv
  <2>7. (\A h \in Handlers : outbox[h] \subseteq Events) /\ deferred \subseteq Events
    BY DEF TypeOK, DeliveryInv
  <2> QED
    BY <1>2, <1>4, <2>1, <2>2, <2>3, <2>4, <2>5, <2>6, <2>7 DEF DeliveryInv, OneClaim
<1>8. OneWriter'
  BY <1>5 DEF DeliveryInv, OneWriter
<1>9. ProgressAgrees'
  <2> SUFFICES ASSUME NEW v \in Workers, pc'[v] \in InJob \ {"load"}
               PROVE  v # w /\ cur'[v] = cur[v] /\ pc'[v] = pc[v] /\ status'[cur[v]] = status[cur[v]]
    BY <1>2 DEF DeliveryInv, ProgressAgrees, InJob
  <2>1. v # w /\ cur'[v] = cur[v] /\ pc'[v] = pc[v]
    BY <1>3 DEF InJob
  <2>2. cur[v] \in Events /\ cur[v] # e
    BY <1>6, <2>1 DEF DeliveryInv, TypeOK, Active
  <2> QED
    BY <1>2, <2>1, <2>2 DEF DeliveryInv, TypeOK
<1>10. AtMostOneDM' /\ StatusTellsTruth'
  BY <1>1, <1>2 DEF DeliveryInv, TypeOK, AtMostOneDM, StatusTellsTruth, Settled
<1> QED
  BY <1>7, <1>8, <1>9, <1>10 DEF DeliveryInv

\* A loop step of a worker, the skip of a processed row, a budget check and
\* every fault move no claim (they may drop one) and write no row.
LEMMA QuietStep ==
  ASSUME DeliveryInv, TypeOK', NEW w \in Workers,
         \/ PollDeferred(w) \/ ClaimDone(w) \/ ProcessClaimed(w) \/ DrainDone(w)
         \/ PopTimeout(w) \/ SkipEvent(w) \/ TryConsumeCalls(w)
         \/ JobRaises(w) \/ WorkerCrash(w)
  PROVE  DeliveryInv'
<1>1. UNCHANGED ClaimVars /\ UNCHANGED <<dms, publics>>
  BY DEF PollDeferred, ClaimDone, ProcessClaimed, DrainDone, PopTimeout, SkipEvent,
     TryConsumeCalls, JobRaises, WorkerCrash, Return, ClaimVars, rowVars, webVars,
     redisVars, historyVars
<1>2. \A v \in Workers : v # w => pc'[v] = pc[v] /\ cur'[v] = cur[v] /\ claimed'[v] = claimed[v]
  BY DEF PollDeferred, ClaimDone, ProcessClaimed, DrainDone, PopTimeout, SkipEvent,
     TryConsumeCalls, JobRaises, WorkerCrash, Return, Goto, loopVars, DeliveryInv, TypeOK
<1>3. \/ pc'[w] \in InLoop /\ cur'[w] = NoEvent /\ claimed'[w] \subseteq claimed[w] \ {cur[w]}
      \/ /\ pc[w] = "drain" /\ pc'[w] = "load"
         /\ cur'[w] \in claimed[w] /\ claimed'[w] = claimed[w]
      \/ /\ pc[w] = "consume" /\ pc'[w] \in {"send", "defer"}
         /\ cur'[w] = cur[w] /\ claimed'[w] = claimed[w]
  <2>1. CASE PollDeferred(w) \/ ClaimDone(w) \/ DrainDone(w) \/ PopTimeout(w)
    <3>1. cur[w] = NoEvent /\ NoEvent \notin claimed[w]
      BY <2>1, PipelineAssumption DEF PollDeferred, ClaimDone, DrainDone, PopTimeout, Goto,
         DeliveryInv, TypeOK, InJob
    <3> QED
      BY <2>1, <3>1 DEF PollDeferred, ClaimDone, DrainDone, PopTimeout, Goto, InLoop,
         loopVars, DeliveryInv, TypeOK
  <2>2. CASE ProcessClaimed(w)
    BY <2>2 DEF ProcessClaimed, Goto, loopVars, DeliveryInv, TypeOK
  <2>3. CASE SkipEvent(w) \/ JobRaises(w)
    BY <2>3 DEF SkipEvent, JobRaises, Return, InLoop, DeliveryInv, TypeOK
  <2>4. CASE TryConsumeCalls(w)
    BY <2>4 DEF TryConsumeCalls, loopVars, DeliveryInv, TypeOK
  <2>5. CASE WorkerCrash(w)
    BY <2>5 DEF WorkerCrash, InLoop, DeliveryInv, TypeOK
  <2> QED
    BY <2>1, <2>2, <2>3, <2>4, <2>5
<1>4. \A v \in Workers, x \in Events : Holds(v, x)' => Holds(v, x)
  <2> SUFFICES ASSUME NEW v \in Workers, NEW x \in Events, Holds(v, x)' PROVE Holds(v, x)
    OBVIOUS
  <2>1. CASE v # w
    BY <1>2, <2>1 DEF Holds
  <2>2. CASE v = w
    BY <1>3, <2>2, PipelineAssumption DEF Holds, InJob, InLoop, DeliveryInv, TypeOK
  <2> QED
    BY <2>1, <2>2
<1>5. \A v \in Workers, x \in Events : Active(v, x)' => Active(v, x)
  BY <1>2, <1>3, PipelineAssumption DEF Active, InJob, InLoop
<1>6. OneClaim' /\ OneWriter' /\ AtMostOneDM' /\ StatusTellsTruth'
  BY <1>1, <1>4, <1>5, Frame DEF DeliveryInv
<1>7. ProgressAgrees'
  BY <1>1, <1>2, <1>3 DEF DeliveryInv, ProgressAgrees, InLoop, ClaimVars
<1> QED
  BY <1>6, <1>7 DEF DeliveryInv

\* The webhook's insert creates rows nobody has a claim on yet.
LEMMA ReceiveStep ==
  ASSUME DeliveryInv, TypeOK', NEW h \in Handlers, NEW batch \in SUBSET Events,
         ReceiveWebhook(h, batch)
  PROVE  DeliveryInv'
<1> DEFINE fresh == {e \in batch : status[e] = "absent"}
<1>1. /\ \A e \in Events : status'[e] = IF e \in fresh THEN "pending" ELSE status[e]
      /\ outbox[h] = {} /\ outbox'[h] = fresh
      /\ \A g \in Handlers : g # h => outbox'[g] = outbox[g]
      /\ UNCHANGED <<queue, deferred, pc, cur, claimed, dms, publics>>
  BY DEF ReceiveWebhook, Fresh, redisVars, loopVars, historyVars, DeliveryInv, TypeOK
<1>2. \A e \in fresh :
        /\ e \in Events /\ status[e] = "absent" /\ ~Queued(e) /\ e \notin deferred
        /\ \A g \in Handlers : e \notin outbox[g]
        /\ \A w \in Workers : ~Holds(w, e)
  BY DEF DeliveryInv, OneClaim, Queued
<1>3. /\ \A w, e : Holds(w, e)' <=> Holds(w, e)
      /\ \A w, e : Active(w, e)' <=> Active(w, e)
      /\ \A e : Queued(e)' <=> Queued(e)
  BY <1>1 DEF Holds, Active, Queued
<1>4. /\ \A g \in Handlers : outbox[g] \subseteq Events
      /\ \A i \in 1..Len(queue) : queue[i] \in Events
      /\ deferred \subseteq Events
  BY DEF DeliveryInv, TypeOK
<1>5. OneClaim'
  <2>1. \A g \in Handlers : \A e \in outbox'[g] :
          /\ status'[e] = "pending" /\ ~Queued(e) /\ e \notin deferred
          /\ \A w \in Workers : ~Holds(w, e)
          /\ \A f \in Handlers : e \in outbox'[f] => f = g
    BY <1>1, <1>2, <1>4 DEF DeliveryInv, OneClaim
  <2>2. \A i \in 1..Len(queue) : status'[queue[i]] = "pending"
    BY <1>1, <1>4 DEF DeliveryInv, OneClaim
  <2>3. \A e \in deferred : status'[e] \in {"matched", "deferred"}
    BY <1>1, <1>4 DEF DeliveryInv, OneClaim
  <2>4. \A w \in Workers, e \in Events : Holds(w, e) => status'[e] # "absent"
    BY <1>1, <1>2 DEF DeliveryInv, OneClaim
  <2> QED
    BY <1>1, <1>3, <2>1, <2>2, <2>3, <2>4 DEF DeliveryInv, OneClaim
<1>6. OneWriter'
  BY <1>3 DEF DeliveryInv, OneWriter
<1>7. ProgressAgrees'
  <2>1. \A w \in Workers : pc[w] \in InJob \ {"load"} =>
          cur[w] \in Events /\ status[cur[w]] # "absent"
    BY DEF DeliveryInv, TypeOK, ProgressAgrees, InJob
  <2>2. \A w \in Workers : pc[w] \in InJob \ {"load"} => status'[cur[w]] = status[cur[w]]
    BY <1>1, <2>1
  <2> QED
    BY <1>1, <2>2 DEF DeliveryInv, ProgressAgrees, InJob
<1>8. AtMostOneDM' /\ StatusTellsTruth'
  BY <1>1 DEF DeliveryInv, AtMostOneDM, StatusTellsTruth
<1> QED
  BY <1>5, <1>6, <1>7, <1>8 DEF DeliveryInv

\* LPUSH moves a claim from the handler's list to the Redis list.
LEMMA EnqueueStep ==
  ASSUME DeliveryInv, TypeOK', NEW h \in Handlers, EnqueueComment(h)
  PROVE  DeliveryInv'
<1>1. PICK e \in outbox[h] : /\ queue' = Append(queue, e)
                             /\ outbox' = [outbox EXCEPT ![h] = @ \ {e}]
                             /\ UNCHANGED <<status, deferred, pc, cur, claimed, dms, publics>>
  BY DEF EnqueueComment, rowVars, loopVars, historyVars
<1>2. e \in Events /\ queue \in Seq(Events)
  BY DEF DeliveryInv, TypeOK
<1>3. /\ Len(queue') = Len(queue) + 1 /\ Len(queue) \in Nat
      /\ queue'[Len(queue) + 1] = e
      /\ \A i \in 1..Len(queue) : queue'[i] = queue[i]
  BY <1>1, <1>2
<1>4. /\ status[e] = "pending" /\ ~Queued(e) /\ e \notin deferred
      /\ \A w \in Workers : ~Holds(w, e)
      /\ \A g \in Handlers : e \in outbox[g] => g = h
  BY DEF DeliveryInv, OneClaim
<1>5. /\ \A w, x : Holds(w, x)' <=> Holds(w, x)
      /\ \A w, x : Active(w, x)' <=> Active(w, x)
  BY <1>1 DEF Holds, Active
<1>6. \A x : Queued(x)' => Queued(x) \/ x = e
  BY <1>3 DEF Queued
<1>7. \A g \in Handlers : outbox'[g] \subseteq outbox[g] /\ e \notin outbox'[g]
  BY <1>1, <1>4 DEF DeliveryInv, TypeOK
<1>8. OneClaim'
  <2>1. \A g \in Handlers : \A x \in outbox'[g] :
          /\ status[x] = "pending" /\ ~Queued(x)' /\ x \notin deferred
          /\ \A w \in Workers : ~Holds(w, x)
          /\ \A f \in Handlers : x \in outbox'[f] => f = g
    BY <1>6, <1>7 DEF DeliveryInv, OneClaim
  <2>2. \A i, j \in 1..Len(queue') : queue'[i] = queue'[j] => i = j
    BY <1>3, <1>4 DEF DeliveryInv, OneClaim, Queued
  <2>3. \A i \in 1..Len(queue') :
          /\ status[queue'[i]] = "pending" /\ queue'[i] \notin deferred
          /\ \A w \in Workers : ~Holds(w, queue'[i])
    BY <1>3, <1>4 DEF DeliveryInv, OneClaim
  <2> QED
    BY <1>1, <1>5, <2>1, <2>2, <2>3 DEF DeliveryInv, OneClaim
<1>9. OneWriter' /\ ProgressAgrees' /\ AtMostOneDM' /\ StatusTellsTruth'
  BY <1>1, <1>5 DEF DeliveryInv, OneWriter, ProgressAgrees, AtMostOneDM, StatusTellsTruth
<1> QED
  BY <1>8, <1>9 DEF DeliveryInv

\* ZREM moves a claim from the sorted set to the worker that won it.
LEMMA ClaimStep ==
  ASSUME DeliveryInv, TypeOK', NEW w \in Workers, ClaimDeferred(w)
  PROVE  DeliveryInv'
<1>1. PICK e \in due[w] :
        /\ claimed' = [claimed EXCEPT ![w] = IF e \in deferred THEN @ \cup {e} ELSE @]
        /\ deferred' = deferred \ {e}
        /\ pc[w] = "claim"
        /\ UNCHANGED <<status, outbox, queue, pc, cur, dms, publics>>
  BY DEF ClaimDeferred, rowVars, webVars, historyVars
<1>2. e \in Events
  BY DEF DeliveryInv, TypeOK
<1>3. /\ \A v \in Workers, x \in Events :
           Holds(v, x)' => Holds(v, x) \/ (v = w /\ x = e /\ e \in deferred)
      /\ \A v, x : Active(v, x)' <=> Active(v, x)
      /\ \A x : Queued(x)' <=> Queued(x)
  BY <1>1 DEF Holds, Active, Queued, DeliveryInv, TypeOK
<1>4. e \in deferred =>
        /\ status[e] \in {"matched", "deferred"}
        /\ \A v \in Workers : ~Holds(v, e)
        /\ ~Queued(e) /\ \A h \in Handlers : e \notin outbox[h]
  BY DEF DeliveryInv, OneClaim, Queued
<1>5. /\ \A g \in Handlers : outbox[g] \subseteq Events
      /\ \A i \in 1..Len(queue) : queue[i] \in Events
      /\ deferred \subseteq Events
  BY DEF DeliveryInv, TypeOK
<1>6. OneClaim'
  <2>1. \A g \in Handlers : \A x \in outbox[g] :
          /\ status[x] = "pending" /\ ~Queued(x) /\ x \notin deferred'
          /\ \A v \in Workers : ~Holds(v, x)'
          /\ \A f \in Handlers : x \in outbox[f] => f = g
    BY <1>1, <1>3, <1>4, <1>5 DEF DeliveryInv, OneClaim
  <2>2. \A i \in 1..Len(queue) :
          /\ status[queue[i]] = "pending" /\ queue[i] \notin deferred'
          /\ \A v \in Workers : ~Holds(v, queue[i])'
    BY <1>1, <1>3, <1>4, <1>5 DEF DeliveryInv, OneClaim, Queued
  <2>3. \A x \in deferred' :
          /\ status[x] \in {"matched", "deferred"}
          /\ \A v \in Workers : ~Holds(v, x)'
    BY <1>1, <1>3, <1>5 DEF DeliveryInv, OneClaim
  <2>4. \A v \in Workers, x \in Events : Holds(v, x)' =>
          status[x] # "absent" /\ \A u \in Workers : Holds(u, x)' => u = v
    BY <1>1, <1>3, <1>4 DEF DeliveryInv, OneClaim
  <2> QED
    BY <1>1, <1>3, <2>1, <2>2, <2>3, <2>4 DEF DeliveryInv, OneClaim
<1>7. OneWriter' /\ ProgressAgrees' /\ AtMostOneDM' /\ StatusTellsTruth'
  BY <1>1, <1>3 DEF DeliveryInv, OneWriter, ProgressAgrees, AtMostOneDM, StatusTellsTruth
<1> QED
  BY <1>6, <1>7 DEF DeliveryInv

\* BRPOP moves a claim from the Redis list to the worker.
LEMMA PopStep ==
  ASSUME DeliveryInv, TypeOK', NEW w \in Workers, PopQueue(w)
  PROVE  DeliveryInv'
<1> DEFINE e == Head(queue)
<1>1. /\ pc[w] = "brpop" /\ queue # <<>> /\ queue' = Tail(queue)
      /\ pc' = [pc EXCEPT ![w] = "load"] /\ cur' = [cur EXCEPT ![w] = e]
      /\ UNCHANGED <<status, outbox, deferred, claimed, dms, publics>>
  BY DEF PopQueue, Goto, rowVars, webVars, loopVars, historyVars
<1>2. queue \in Seq(Events)
  BY DEF DeliveryInv, TypeOK
<1>3. /\ e = queue[1] /\ 1 \in 1..Len(queue) /\ e \in Events
      /\ Len(queue') = Len(queue) - 1 /\ Len(queue) \in Nat
      /\ \A i \in 1..Len(queue') : queue'[i] = queue[i + 1] /\ i + 1 \in 1..Len(queue)
  BY <1>1, <1>2
<1>4. /\ status[e] = "pending" /\ e \notin deferred
      /\ \A v \in Workers : ~Holds(v, e)
      /\ \A h \in Handlers : e \notin outbox[h]
  BY <1>3 DEF DeliveryInv, OneClaim, Queued
<1>5. cur[w] = NoEvent /\ NoEvent \notin Events /\ claimed[w] \subseteq Events
  BY <1>1, PipelineAssumption DEF DeliveryInv, TypeOK, InJob
<1>6. /\ \A v \in Workers, x \in Events : Holds(v, x)' => Holds(v, x) \/ (v = w /\ x = e)
      /\ \A v \in Workers, x \in Events : Active(v, x)' => Active(v, x)
      /\ \A x : Queued(x)' => Queued(x)
  <2>1. \A v \in Workers, x \in Events : Holds(v, x)' => Holds(v, x) \/ (v = w /\ x = e)
    BY <1>1, <1>5 DEF Holds, DeliveryInv, TypeOK
  <2>2. \A v \in Workers, x \in Events : Active(v, x)' => Active(v, x)
    BY <1>1 DEF Active, DeliveryInv, TypeOK
  <2>3. \A x : Queued(x)' => Queued(x)
    BY <1>3 DEF Queued
  <2> QED
    BY <2>1, <2>2, <2>3
<1>7. /\ \A g \in Handlers : outbox[g] \subseteq Events
      /\ \A i \in 1..Len(queue) : queue[i] \in Events
      /\ deferred \subseteq Events
  BY DEF DeliveryInv, TypeOK
<1>8. OneClaim'
  <2>1. \A g \in Handlers : \A x \in outbox[g] :
          /\ status[x] = "pending" /\ ~Queued(x)' /\ x \notin deferred
          /\ \A v \in Workers : ~Holds(v, x)'
          /\ \A f \in Handlers : x \in outbox[f] => f = g
    BY <1>4, <1>6, <1>7 DEF DeliveryInv, OneClaim
  <2>2. \A i, j \in 1..Len(queue') : queue'[i] = queue'[j] => i = j
    BY <1>3 DEF DeliveryInv, OneClaim
  <2>3. \A i \in 1..Len(queue') :
          /\ status[queue'[i]] = "pending" /\ queue'[i] \notin deferred
          /\ \A v \in Workers : ~Holds(v, queue[i])'
    <3>1. ASSUME NEW i \in 1..Len(queue')
          PROVE  /\ queue'[i] \in Events /\ queue'[i] # e
                 /\ status[queue'[i]] = "pending" /\ queue'[i] \notin deferred
                 /\ \A v \in Workers : ~Holds(v, queue'[i])
      <4>1. /\ queue'[i] = queue[i + 1] /\ i + 1 \in 1..Len(queue)
            /\ i + 1 # 1 /\ 1 \in 1..Len(queue) /\ e = queue[1]
        BY <1>3
      <4>2. queue[i + 1] # queue[1]
        BY <4>1 DEF DeliveryInv, OneClaim
      <4> QED
        BY <1>7, <4>1, <4>2 DEF DeliveryInv, OneClaim
    <3> QED
      BY <1>6, <3>1
  <2>4. \A x \in deferred :
          /\ status[x] \in {"matched", "deferred"}
          /\ \A v \in Workers : ~Holds(v, x)'
    BY <1>4, <1>6, <1>7 DEF DeliveryInv, OneClaim
  <2>5. \A v \in Workers, x \in Events : Holds(v, x)' =>
          status[x] # "absent" /\ \A u \in Workers : Holds(u, x)' => u = v
    BY <1>4, <1>6 DEF DeliveryInv, OneClaim
  <2>6. UNCHANGED <<status, outbox, deferred>>
    BY <1>1
  <2> HIDE DEF e
  <2> QED
    BY <2>1, <2>2, <2>3, <2>4, <2>5, <2>6 DEF OneClaim
<1>9. OneWriter' /\ AtMostOneDM' /\ StatusTellsTruth'
  BY <1>1, <1>6 DEF DeliveryInv, OneWriter, AtMostOneDM, StatusTellsTruth
<1>10. ProgressAgrees'
  BY <1>1 DEF DeliveryInv, TypeOK, ProgressAgrees
<1> QED
  BY <1>8, <1>9, <1>10 DEF DeliveryInv

\* The claim of an id popped for nobody leaves the list; nobody gains it.
LEMMA SwallowStep ==
  ASSUME DeliveryInv, TypeOK', NEW w \in Workers, PopSwallowed(w)
  PROVE  DeliveryInv'
<1>1. /\ pc[w] = "brpop" /\ queue # <<>> /\ queue' = Tail(queue)
      /\ pc' = [pc EXCEPT ![w] = "poll"]
      /\ UNCHANGED <<status, outbox, deferred, cur, claimed, dms, publics>>
  BY DEF PopSwallowed, Goto, rowVars, webVars, loopVars
<1>2. queue \in Seq(Events)
  BY DEF DeliveryInv, TypeOK
<1>3. /\ Len(queue') = Len(queue) - 1 /\ Len(queue) \in Nat
      /\ \A i \in 1..Len(queue') : queue'[i] = queue[i + 1] /\ i + 1 \in 1..Len(queue)
  BY <1>1, <1>2
<1>4. /\ \A v \in Workers, x \in Events : Holds(v, x)' => Holds(v, x)
      /\ \A v \in Workers, x \in Events : Active(v, x)' => Active(v, x)
      /\ \A x : Queued(x)' => Queued(x)
  <2>1. /\ \A v \in Workers, x \in Events : Holds(v, x)' => Holds(v, x)
        /\ \A v \in Workers, x \in Events : Active(v, x)' => Active(v, x)
    BY <1>1 DEF Holds, Active, InJob, DeliveryInv, TypeOK
  <2>2. \A x : Queued(x)' => Queued(x)
    BY <1>3 DEF Queued
  <2> QED
    BY <2>1, <2>2
<1>5. /\ \A g \in Handlers : outbox[g] \subseteq Events
      /\ \A i \in 1..Len(queue) : queue[i] \in Events
      /\ deferred \subseteq Events
  BY DEF DeliveryInv, TypeOK
<1>6. OneClaim'
  <2>1. \A g \in Handlers : \A x \in outbox[g] :
          /\ status[x] = "pending" /\ ~Queued(x)' /\ x \notin deferred
          /\ \A v \in Workers : ~Holds(v, x)'
          /\ \A f \in Handlers : x \in outbox[f] => f = g
    BY <1>4, <1>5 DEF DeliveryInv, OneClaim
  <2>2. \A i, j \in 1..Len(queue') : queue'[i] = queue'[j] => i = j
    BY <1>3 DEF DeliveryInv, OneClaim
  <2>3. \A i \in 1..Len(queue') :
          /\ status[queue'[i]] = "pending" /\ queue'[i] \notin deferred
          /\ \A v \in Workers : ~Holds(v, queue[i])'
    <3>1. ASSUME NEW i \in 1..Len(queue')
          PROVE  /\ queue'[i] \in Events
                 /\ status[queue'[i]] = "pending" /\ queue'[i] \notin deferred
                 /\ \A v \in Workers : ~Holds(v, queue'[i])
      BY <1>3, <1>5 DEF DeliveryInv, OneClaim
    <3> QED
      BY <1>4, <3>1
  <2>4. \A x \in deferred :
          /\ status[x] \in {"matched", "deferred"}
          /\ \A v \in Workers : ~Holds(v, x)'
    BY <1>4, <1>5 DEF DeliveryInv, OneClaim
  <2>5. \A v \in Workers, x \in Events : Holds(v, x)' =>
          status[x] # "absent" /\ \A u \in Workers : Holds(u, x)' => u = v
    BY <1>4 DEF DeliveryInv, OneClaim
  <2>6. UNCHANGED <<status, outbox, deferred>>
    BY <1>1
  <2> QED
    BY <2>1, <2>2, <2>3, <2>4, <2>5, <2>6 DEF OneClaim
<1>7. OneWriter' /\ AtMostOneDM' /\ StatusTellsTruth'
  BY <1>1, <1>4 DEF DeliveryInv, OneWriter, AtMostOneDM, StatusTellsTruth
<1>8. ProgressAgrees'
  BY <1>1 DEF DeliveryInv, TypeOK, ProgressAgrees
<1> QED
  BY <1>6, <1>7, <1>8 DEF DeliveryInv

\* A handler that dies takes its claims with it; nobody gains one.
LEMMA WebFailsStep ==
  ASSUME DeliveryInv, TypeOK', NEW h \in Handlers, WebFails(h)
  PROVE  DeliveryInv'
<1>1. /\ \A g \in Handlers : outbox'[g] \subseteq outbox[g]
      /\ UNCHANGED <<status, queue, deferred, pc, cur, claimed, dms, publics>>
  BY DEF WebFails, rowVars, redisVars, loopVars, historyVars, DeliveryInv, TypeOK
<1>2. /\ \A w, x : Holds(w, x)' <=> Holds(w, x)
      /\ \A w, x : Active(w, x)' <=> Active(w, x)
      /\ \A x : Queued(x)' <=> Queued(x)
  BY <1>1 DEF Holds, Active, Queued
<1>3. OneClaim'
  <2>1. \A g \in Handlers : \A x \in outbox'[g] :
          /\ status[x] = "pending" /\ ~Queued(x) /\ x \notin deferred
          /\ \A w \in Workers : ~Holds(w, x)
          /\ \A f \in Handlers : x \in outbox'[f] => f = g
    BY <1>1 DEF DeliveryInv, OneClaim
  <2> QED
    BY <1>1, <1>2, <2>1 DEF DeliveryInv, OneClaim
<1> QED
  BY <1>1, <1>2, <1>3 DEF DeliveryInv, OneWriter, ProgressAgrees, AtMostOneDM, StatusTellsTruth

\* A worker that finds the row unprocessed becomes its only writer: whoever
\* else could write it holds the claim, or has left "matched" in the row.
LEMMA LoadStep ==
  ASSUME DeliveryInv, TypeOK', NEW w \in Workers, LoadEvent(w)
  PROVE  DeliveryInv'
<1> DEFINE e == cur[w]
<1>1. /\ pc[w] = "load" /\ pc' = [pc EXCEPT ![w] = "decide"]
      /\ status[e] \in {"pending", "deferred"}
      /\ UNCHANGED <<status, outbox, queue, deferred, cur, claimed, dms, publics>>
  BY DEF LoadEvent, Unprocessed, Goto, rowVars, webVars, redisVars, loopVars, historyVars
<1>2. e \in Events /\ Holds(w, e)
  BY <1>1 DEF DeliveryInv, TypeOK, Holds, InJob
<1>3. \A v \in Workers : v # w => ~Active(v, e)
  <2> SUFFICES ASSUME NEW v \in Workers, v # w, Active(v, e) PROVE FALSE
    OBVIOUS
  <2>1. CASE pc[v] = "parked"
    BY <1>1, <2>1 DEF DeliveryInv, ProgressAgrees, Active
  <2>2. CASE pc[v] # "parked"
    BY <1>2, <2>2 DEF DeliveryInv, OneClaim, Active, Holds, InJob
  <2> QED
    BY <2>1, <2>2
<1>4. /\ \A v \in Workers, x \in Events : Holds(v, x)' <=> Holds(v, x)
      /\ \A v \in Workers, x \in Events : Active(v, x)' => Active(v, x) \/ (v = w /\ x = e)
      /\ \A x : Queued(x)' <=> Queued(x)
  BY <1>1 DEF Holds, Active, Queued, InJob, DeliveryInv, TypeOK
<1>5. /\ \A g \in Handlers : outbox[g] \subseteq Events
      /\ \A i \in 1..Len(queue) : queue[i] \in Events
      /\ deferred \subseteq Events
  BY DEF DeliveryInv, TypeOK
<1>6. OneClaim'
  BY <1>1, <1>4, <1>5 DEF DeliveryInv, OneClaim
<1>7. OneWriter'
  BY <1>1, <1>3, <1>4 DEF DeliveryInv, OneWriter
<1>8. ProgressAgrees'
  BY <1>1 DEF DeliveryInv, TypeOK, ProgressAgrees
<1> QED
  BY <1>1, <1>6, <1>7, <1>8 DEF DeliveryInv, AtMostOneDM, StatusTellsTruth

\* The commit of "matched": the row is unprocessed, so no DM is out for it.
LEMMA MatchedStep ==
  ASSUME DeliveryInv, TypeOK', NEW w \in Workers, DecideMatched(w)
  PROVE  DeliveryInv'
<1> DEFINE e == cur[w]
<1>1. /\ pc[w] = "decide" /\ pc' = [pc EXCEPT ![w] = "consume"]
      /\ status' = [status EXCEPT ![e] = "matched"]
      /\ UNCHANGED <<outbox, queue, deferred, cur, claimed, dms, publics>>
  BY DEF DecideMatched, Goto, webVars, redisVars, loopVars, historyVars
<1>2. /\ e \in Events /\ Holds(w, e) /\ Active(w, e)
      /\ status[e] \in {"pending", "deferred"} /\ dms[e] = 0
  BY <1>1 DEF DeliveryInv, TypeOK, Holds, Active, InJob, ProgressAgrees, StatusTellsTruth
<1>3. /\ e \notin deferred
      /\ \A g \in Handlers : e \notin outbox[g]
      /\ \A i \in 1..Len(queue) : queue[i] # e
  BY <1>2 DEF DeliveryInv, OneClaim
<1>4. \A v \in Workers : v # w => ~Active(v, e)
  BY <1>2 DEF DeliveryInv, OneWriter
<1>5. /\ \A v \in Workers, x \in Events : Holds(v, x)' <=> Holds(v, x)
      /\ \A v \in Workers, x \in Events : Active(v, x)' <=> Active(v, x)
      /\ \A x : Queued(x)' <=> Queued(x)
  BY <1>1 DEF Holds, Active, Queued, InJob, DeliveryInv, TypeOK
<1>6. /\ \A g \in Handlers : outbox[g] \subseteq Events
      /\ \A i \in 1..Len(queue) : queue[i] \in Events
      /\ deferred \subseteq Events
      /\ \A x \in Events : status'[x] = IF x = e THEN "matched" ELSE status[x]
  BY <1>1, <1>2 DEF DeliveryInv, TypeOK
<1>7. OneClaim'
  BY <1>1, <1>3, <1>5, <1>6 DEF DeliveryInv, OneClaim
<1>8. OneWriter'
  BY <1>5 DEF DeliveryInv, OneWriter
<1>9. ProgressAgrees'
  <2>1. \A v \in Workers : v # w /\ pc[v] \in InJob \ {"load"} =>
          pc'[v] = pc[v] /\ status'[cur[v]] = status[cur[v]]
    BY <1>1, <1>4, <1>6 DEF DeliveryInv, TypeOK, Active
  <2>2. pc'[w] = "consume" /\ status'[e] = "matched" /\ \A v \in Workers : v # w => pc'[v] = pc[v]
    BY <1>1, <1>2, <1>6 DEF DeliveryInv, TypeOK
  <2> QED
    BY <1>1, <1>2, <2>1, <2>2 DEF DeliveryInv, ProgressAgrees, InJob
<1> QED
  BY <1>1, <1>2, <1>6, <1>7, <1>8, <1>9 DEF DeliveryInv, AtMostOneDM, StatusTellsTruth

\* ZADD hands the claim back while the worker still has to write the row.
LEMMA DeferStep ==
  ASSUME DeliveryInv, TypeOK', NEW w \in Workers, DeferComment(w)
  PROVE  DeliveryInv'
<1> DEFINE e == cur[w]
<1>1. /\ pc[w] = "defer" /\ pc' = [pc EXCEPT ![w] = "parked"]
      /\ deferred' = deferred \cup {e}
      /\ UNCHANGED <<status, outbox, queue, cur, claimed, dms, publics>>
  BY DEF DeferComment, Goto, rowVars, webVars, loopVars, historyVars
<1>2. e \in Events /\ Holds(w, e) /\ status[e] = "matched"
  BY <1>1 DEF DeliveryInv, TypeOK, Holds, InJob, ProgressAgrees
<1>3. /\ \A g \in Handlers : e \notin outbox[g]
      /\ \A i \in 1..Len(queue) : queue[i] # e
      /\ \A v \in Workers : Holds(v, e) => v = w
  BY <1>2 DEF DeliveryInv, OneClaim
<1>4. /\ \A v \in Workers, x \in Events : Holds(v, x)' => Holds(v, x) /\ ~(v = w /\ x = e)
      /\ \A v \in Workers, x \in Events : Active(v, x)' <=> Active(v, x)
      /\ \A x : Queued(x)' <=> Queued(x)
  BY <1>1 DEF Holds, Active, Queued, InJob, DeliveryInv, TypeOK
<1>5. /\ \A g \in Handlers : outbox[g] \subseteq Events
      /\ \A i \in 1..Len(queue) : queue[i] \in Events
      /\ deferred \subseteq Events
  BY DEF DeliveryInv, TypeOK
<1>6. OneClaim'
  BY <1>1, <1>2, <1>3, <1>4, <1>5 DEF DeliveryInv, OneClaim
<1>7. OneWriter'
  BY <1>4 DEF DeliveryInv, OneWriter
<1>8. ProgressAgrees'
  BY <1>1 DEF DeliveryInv, TypeOK, ProgressAgrees
<1> QED
  BY <1>1, <1>6, <1>7, <1>8 DEF DeliveryInv, AtMostOneDM, StatusTellsTruth

\* The Graph calls: a DM leaves only for a row whose single writer knows that
\* none has left before, the public reply only after it.
LEMMA SendStep ==
  ASSUME DeliveryInv, TypeOK', NEW w \in Workers, SendReply(w) \/ PublicReply(w)
  PROVE  DeliveryInv'
<1> DEFINE e == cur[w]
<1>1. /\ UNCHANGED <<status, outbox, queue, deferred, cur, claimed>>
      /\ pc[w] \in {"send", "public"} /\ e \in Events
      /\ status[e] = "matched" /\ Active(w, e)
      /\ \E next \in {"public", "fail", "finish"} : pc' = [pc EXCEPT ![w] = next]
  <2>1. pc[w] \in {"send", "public"}
    BY DEF SendReply, PublicReply, Goto
  <2> QED
    BY <2>1 DEF SendReply, PublicReply, Goto, rowVars, webVars, redisVars, loopVars,
       DeliveryInv, TypeOK, InJob, ProgressAgrees, Active
<1>2. /\ \A x \in Events : x # e => dms'[x] = dms[x] /\ publics'[x] = publics[x]
      /\ dms'[e] \in {0, 1} /\ publics'[e] <= dms'[e]
      /\ pc'[w] = "public" => dms'[e] = 1 /\ publics'[e] = 0
      /\ pc'[w] = "finish" => dms'[e] = 1
  <2>1. CASE SendReply(w)
    <3>1. dms[e] = 0 /\ publics[e] = 0
      BY <1>1, <2>1 DEF SendReply, DeliveryInv, ProgressAgrees, StatusTellsTruth, TypeOK
    <3>2. /\ publics' = publics
          /\ \/ dms' = [dms EXCEPT ![e] = @ + 1] /\ pc'[w] \in {"public", "fail"}
             \/ dms' = dms /\ pc'[w] = "fail"
      BY <2>1 DEF SendReply, DeliveryInv, TypeOK
    <3> QED
      BY <1>1, <3>1, <3>2 DEF DeliveryInv, TypeOK
  <2>2. CASE PublicReply(w)
    <3>1. dms[e] = 1 /\ publics[e] = 0 /\ dms' = dms /\ pc'[w] = "finish"
      BY <1>1, <2>2 DEF PublicReply, Goto, DeliveryInv, ProgressAgrees, TypeOK
    <3>2. publics' = publics \/ publics' = [publics EXCEPT ![e] = @ + 1]
      BY <2>2 DEF PublicReply
    <3> QED
      BY <1>1, <3>1, <3>2 DEF DeliveryInv, TypeOK
  <2> QED
    BY <2>1, <2>2
<1>3. /\ \A v \in Workers, x \in Events : Holds(v, x)' => Holds(v, x)
      /\ \A v \in Workers, x \in Events : Active(v, x)' => Active(v, x)
      /\ \A x : Queued(x)' <=> Queued(x)
  BY <1>1 DEF Holds, Active, Queued, InJob, DeliveryInv, TypeOK
<1>4. OneClaim'
  <2>1. /\ \A g \in Handlers : outbox[g] \subseteq Events
        /\ \A i \in 1..Len(queue) : queue[i] \in Events
        /\ deferred \subseteq Events
    BY DEF DeliveryInv, TypeOK
  <2> QED
    BY <1>1, <1>3, <2>1 DEF DeliveryInv, OneClaim
<1>5. OneWriter'
  BY <1>3 DEF DeliveryInv, OneWriter
<1>6. ProgressAgrees'
  <2>1. \A v \in Workers : v # w /\ pc[v] \in InJob \ {"load"} =>
          cur[v] \in Events /\ cur[v] # e
    BY <1>1 DEF DeliveryInv, TypeOK, OneWriter, Active
  <2>2. \A v \in Workers : v # w => pc'[v] = pc[v]
    BY <1>1
  <2>3. pc'[w] \in {"public", "fail", "finish"}
    BY <1>1 DEF DeliveryInv, TypeOK
  <2> QED
    BY <1>1, <1>2, <2>1, <2>2, <2>3 DEF DeliveryInv, ProgressAgrees, InJob
<1>7. AtMostOneDM' /\ StatusTellsTruth'
  BY <1>1, <1>2 DEF DeliveryInv, AtMostOneDM, StatusTellsTruth
<1> QED
  BY <1>4, <1>5, <1>6, <1>7 DEF DeliveryInv

\* Every step keeps the inductive invariant.
LEMMA DeliveryStep == DeliveryInv /\ [Next]_vars => DeliveryInv'
<1> SUFFICES ASSUME DeliveryInv, [Next]_vars PROVE DeliveryInv'
  OBVIOUS
<1>1. TypeOK'
  BY TypeStep DEF DeliveryInv
<1>2. ASSUME NEW h \in Handlers, WebStep(h) PROVE DeliveryInv'
  BY <1>1, <1>2, ReceiveStep, EnqueueStep, WebFailsStep DEF WebStep
<1>3. ASSUME NEW w \in Workers, LoopStep(w) PROVE DeliveryInv'
  BY <1>1, <1>3, QuietStep, ClaimStep, PopStep, SwallowStep DEF LoopStep
<1>4. ASSUME NEW w \in Workers, JobStep(w) PROVE DeliveryInv'
  <2>1. CASE DecideFailed(w) \/ DecideStale(w) \/ DecideNoMatch(w)
    <3>1. pc[w] = "decide" /\ dms[cur[w]] = 0
      BY <2>1 DEF DecideFailed, DecideStale, DecideNoMatch, DeliveryInv, TypeOK, InJob,
         ProgressAgrees, StatusTellsTruth
    <3>2. \E s \in {"failed", "dropped_stale", "no_match"} : FinishAs(w, s)
      BY <2>1 DEF DecideFailed, DecideStale, DecideNoMatch
    <3> QED
      BY <1>1, <3>1, <3>2, FinishStep DEF InJob, Settled
  <2>2. CASE FinishDeferred(w)
    <3>1. pc[w] = "parked" /\ dms[cur[w]] = 0 /\ FinishAs(w, "deferred")
      BY <2>2 DEF FinishDeferred, DeliveryInv, ProgressAgrees
    <3> QED
      BY <1>1, <3>1, FinishStep DEF InJob
  <2>3. CASE FinishFailed(w)
    BY <1>1, <2>3, FinishStep DEF FinishFailed, InJob, Settled
  <2>4. CASE FinishReplied(w)
    <3>1. pc[w] = "finish" /\ dms[cur[w]] = 1 /\ FinishAs(w, "replied")
      BY <2>4 DEF FinishReplied, DeliveryInv, ProgressAgrees
    <3> QED
      BY <1>1, <3>1, FinishStep DEF InJob, Settled
  <2> QED
    BY <1>1, <1>4, <2>1, <2>2, <2>3, <2>4, QuietStep, LoadStep, MatchedStep, DeferStep, SendStep
    DEF JobStep
<1>5. ASSUME NEW w \in Workers, WorkerFault(w) PROVE DeliveryInv'
  BY <1>1, <1>5, QuietStep DEF WorkerFault
<1>6. CASE Tick \/ UNCHANGED vars
  <2>1. UNCHANGED ClaimVars /\ UNCHANGED <<dms, publics>> /\ UNCHANGED <<pc, cur, claimed>>
    BY <1>6 DEF Tick, vars, ClaimVars, rowVars, webVars, redisVars, loopVars, historyVars
  <2>2. /\ \A v \in Workers, x \in Events : Holds(v, x)' => Holds(v, x)
        /\ \A v \in Workers, x \in Events : Active(v, x)' => Active(v, x)
    BY <2>1 DEF Holds, Active
  <2>3. ProgressAgrees'
    BY <2>1 DEF DeliveryInv, ProgressAgrees, ClaimVars
  <2> QED
    BY <1>1, <2>1, <2>2, <2>3, Frame DEF DeliveryInv
<1> QED
  BY <1>2, <1>3, <1>4, <1>5, <1>6 DEF Next, WorkerStep

\* Nothing is claimed, written or sent at the start.
LEMMA DeliveryInit == Init => DeliveryInv
<1> SUFFICES ASSUME Init PROVE DeliveryInv
  OBVIOUS
<1>1. TypeOK
  BY TypeInit
<1>2. \A w \in Workers : pc[w] = "poll" /\ claimed[w] = {} /\ cur[w] = NoEvent
  BY DEF Init
<1>3. \A w \in Workers, e \in Events : ~Holds(w, e) /\ ~Active(w, e)
  BY <1>2 DEF Holds, Active, InJob
<1>4. OneClaim
  BY <1>3 DEF Init, OneClaim
<1> QED
  BY <1>1, <1>2, <1>3, <1>4 DEF Init, DeliveryInv, OneWriter, ProgressAgrees, AtMostOneDM, StatusTellsTruth

\* The inductive invariant holds in every reachable state.
THEOREM PipelineInvariant == Spec => []DeliveryInv
BY DeliveryInit, DeliveryStep, PTL DEF Spec

\* No comment is ever answered by two DMs (service.py's status check, the
\* unique constraint and ZREM together), whatever fails and however many
\* workers and web servers run.
THEOREM NeverTwoDMs == Spec => []AtMostOneDM
BY PipelineInvariant, PTL DEF DeliveryInv

\* A row's status never claims a DM that did not go out, or silence after one
\* that did.
THEOREM StatusIsTruthful == Spec => []StatusTellsTruth
BY PipelineInvariant, PTL DEF DeliveryInv

\* The steps that write rows or send DMs, and nothing else does either: what
\* both the finality of an outcome and the refinement look at.
LEMMA RowSteps ==
  ASSUME DeliveryInv, [Next]_vars
  PROVE  \/ UNCHANGED <<status, dms>>
         \/ \E batch \in SUBSET Events :
              /\ \A e \in batch : status[e] = "absent"
              /\ status' = [e \in Events |-> IF e \in batch THEN "pending" ELSE status[e]]
              /\ dms' = dms
         \/ \E e \in Events, s \in Status :
              /\ status[e] \in {"pending", "matched", "deferred"}
              /\ status' = [status EXCEPT ![e] = s]
              /\ dms' = dms
              /\ \/ s \in {"matched", "deferred", "failed"}
                 \/ s = "replied" /\ dms[e] = 1
                 \/ s \in {"no_match", "dropped_stale"} /\ dms[e] = 0
         \/ \E e \in Events :
              /\ status[e] = "matched" /\ dms[e] = 0
              /\ dms' = [dms EXCEPT ![e] = 1]
              /\ status' = status
<1> DEFINE Claim == UNCHANGED <<status, dms>>
           Write(e, s) == /\ status[e] \in {"pending", "matched", "deferred"}
                          /\ status' = [status EXCEPT ![e] = s]
                          /\ dms' = dms
                          /\ \/ s \in {"matched", "deferred", "failed"}
                             \/ s = "replied" /\ dms[e] = 1
                             \/ s \in {"no_match", "dropped_stale"} /\ dms[e] = 0
<1>1. ASSUME NEW h \in Handlers, NEW batch \in SUBSET Events, ReceiveWebhook(h, batch)
      PROVE  \E b \in SUBSET Events :
               /\ \A e \in b : status[e] = "absent"
               /\ status' = [e \in Events |-> IF e \in b THEN "pending" ELSE status[e]]
               /\ dms' = dms
  <2> DEFINE fresh == {e \in batch : status[e] = "absent"}
  <2>1. /\ fresh \in SUBSET Events
        /\ \A e \in fresh : status[e] = "absent"
        /\ status' = [e \in Events |-> IF e \in fresh THEN "pending" ELSE status[e]]
        /\ dms' = dms
    BY <1>1 DEF ReceiveWebhook, Fresh, historyVars
  <2> HIDE DEF fresh
  <2> QED
    BY <2>1
<1>2. ASSUME NEW h \in Handlers, EnqueueComment(h) \/ WebFails(h) PROVE Claim
  BY <1>2 DEF EnqueueComment, WebFails, rowVars, historyVars
<1>3. ASSUME NEW w \in Workers, LoopStep(w) \/ WorkerFault(w) PROVE Claim
  BY <1>3 DEF LoopStep, PollDeferred, ClaimDeferred, ClaimDone, ProcessClaimed, DrainDone,
     PopQueue, PopTimeout, PopSwallowed, WorkerFault, JobRaises, WorkerCrash, rowVars, historyVars
<1>4. ASSUME NEW w \in Workers, NEW s \in Settled \cup {"deferred"}, FinishAs(w, s),
             pc[w] \in InJob \ {"load"},
             s = "replied" => dms[cur[w]] = 1,
             s \in {"no_match", "dropped_stale"} => dms[cur[w]] = 0
      PROVE  \E e \in Events, t \in Status : Write(e, t)
  <2>1. cur[w] \in Events /\ status[cur[w]] \in {"pending", "matched", "deferred"}
    BY <1>4 DEF DeliveryInv, TypeOK, ProgressAgrees, InJob
  <2>2. s \in Status /\ Write(cur[w], s)
    BY <1>4, <2>1 DEF FinishAs, historyVars, Status, Settled
  <2> QED
    BY <2>1, <2>2
<1>5. ASSUME NEW w \in Workers, JobStep(w)
      PROVE  \/ Claim
             \/ \E e \in Events, t \in Status : Write(e, t)
             \/ \E e \in Events : /\ status[e] = "matched" /\ dms[e] = 0
                                  /\ dms' = [dms EXCEPT ![e] = 1] /\ status' = status
  <2>1. CASE LoadEvent(w) \/ SkipEvent(w) \/ TryConsumeCalls(w) \/ DeferComment(w) \/ PublicReply(w)
    BY <2>1 DEF LoadEvent, SkipEvent, TryConsumeCalls, DeferComment, PublicReply, rowVars, historyVars
  <2>2. CASE DecideFailed(w) \/ DecideStale(w) \/ DecideNoMatch(w)
    <3>1. pc[w] = "decide" /\ dms[cur[w]] = 0
      BY <2>2 DEF DecideFailed, DecideStale, DecideNoMatch, DeliveryInv, TypeOK, InJob,
         ProgressAgrees, StatusTellsTruth
    <3>2. \E s \in {"failed", "dropped_stale", "no_match"} : FinishAs(w, s)
      BY <2>2 DEF DecideFailed, DecideStale, DecideNoMatch
    <3> QED
      BY <1>4, <3>1, <3>2 DEF InJob, Settled
  <2>3. CASE DecideMatched(w)
    <3>1. cur[w] \in Events /\ Write(cur[w], "matched")
      BY <2>3 DEF DecideMatched, Goto, historyVars, DeliveryInv, TypeOK, InJob, ProgressAgrees
    <3> QED
      BY <3>1 DEF Status
  <2>4. CASE FinishDeferred(w) \/ FinishFailed(w)
    BY <1>4, <2>4 DEF FinishDeferred, FinishFailed, InJob, Settled
  <2>5. CASE FinishReplied(w)
    <3>1. pc[w] = "finish" /\ dms[cur[w]] = 1 /\ FinishAs(w, "replied")
      BY <2>5 DEF FinishReplied, DeliveryInv, ProgressAgrees
    <3> QED
      BY <1>4, <3>1 DEF InJob, Settled
  <2>6. CASE SendReply(w)
    <3>1. cur[w] \in Events /\ status[cur[w]] = "matched" /\ dms[cur[w]] = 0
      BY <2>6 DEF SendReply, DeliveryInv, TypeOK, InJob, ProgressAgrees
    <3>2. dms' = dms \/ dms' = [dms EXCEPT ![cur[w]] = 1]
      BY <2>6, <3>1 DEF SendReply
    <3> QED
      BY <2>6, <3>1, <3>2 DEF SendReply, rowVars
  <2> QED
    BY <1>5, <2>1, <2>2, <2>3, <2>4, <2>5, <2>6 DEF JobStep
<1>6. CASE Tick \/ UNCHANGED vars
  BY <1>6 DEF Tick, vars, rowVars, historyVars
<1> QED
  BY <1>1, <1>2, <1>3, <1>5, <1>6 DEF Next, WebStep, WorkerStep

\* No step rewrites the outcome of a settled event: a retry, a redelivery or
\* a worker late with its commit never reopens it.
THEOREM OutcomesAreFinal == Spec => SettledIsFinal
<1>1. DeliveryInv /\ [Next]_vars =>
        [\A e \in Events : status[e] \in Settled => status'[e] = status[e]]_vars
  <2> SUFFICES ASSUME DeliveryInv, [Next]_vars, NEW e \in Events, status[e] \in Settled
               PROVE  status'[e] = status[e]
    OBVIOUS
  <2> QED
    BY RowSteps DEF DeliveryInv, TypeOK, Settled
<1> QED
  BY <1>1, PipelineInvariant, PTL DEF Spec, SettledIsFinal

\* The pipeline implements the abstract promise CommentDelivery: every row
\* write and every DM is an accept, a delivery or a settling of it.
THEOREM PipelineImplementsDelivery == Spec => ImplementsDelivery
<1>1. Init => Delivery!Init
  BY DEF Init, Delivery!Init, OutcomeOf
<1>2. DeliveryInv /\ [Next]_vars => [Delivery!Next]_Delivery!vars
  <2> SUFFICES ASSUME DeliveryInv, [Next]_vars
               PROVE  Delivery!Next \/ UNCHANGED Delivery!vars
    OBVIOUS
  <2> DEFINE outcome == [e \in Events |-> OutcomeOf(status[e])]
  <2>0. status \in [Events -> Status] /\ dms \in [Events -> Nat]
    BY DEF DeliveryInv, TypeOK
  <2>1. CASE UNCHANGED <<status, dms>>
    BY <2>1 DEF Delivery!vars
  <2>2. CASE \E batch \in SUBSET Events :
              /\ \A e \in batch : status[e] = "absent"
              /\ status' = [e \in Events |-> IF e \in batch THEN "pending" ELSE status[e]]
              /\ dms' = dms
    <3> PICK batch \in SUBSET Events :
              /\ \A e \in batch : status[e] = "absent"
              /\ status' = [e \in Events |-> IF e \in batch THEN "pending" ELSE status[e]]
              /\ dms' = dms
      BY <2>2
    <3>1. Delivery!Accept(batch)
      BY DEF Delivery!Accept, OutcomeOf
    <3> QED
      BY <3>1 DEF Delivery!Next
  <2>3. CASE \E e \in Events, s \in Status :
              /\ status[e] \in {"pending", "matched", "deferred"}
              /\ status' = [status EXCEPT ![e] = s]
              /\ dms' = dms
              /\ \/ s \in {"matched", "deferred", "failed"}
                 \/ s = "replied" /\ dms[e] = 1
                 \/ s \in {"no_match", "dropped_stale"} /\ dms[e] = 0
    <3> PICK e \in Events, s \in Status :
              /\ status[e] \in {"pending", "matched", "deferred"}
              /\ status' = [status EXCEPT ![e] = s]
              /\ dms' = dms
              /\ \/ s \in {"matched", "deferred", "failed"}
                 \/ s = "replied" /\ dms[e] = 1
                 \/ s \in {"no_match", "dropped_stale"} /\ dms[e] = 0
      BY <2>3
    <3>1. outcome' = [outcome EXCEPT ![e] = OutcomeOf(s)] /\ outcome[e] = "open"
      BY <2>0 DEF OutcomeOf
    <3>2. CASE s \in {"matched", "deferred"}
      <4>1. outcome' = outcome
        BY <3>1, <3>2 DEF OutcomeOf
      <4> QED
        BY <4>1 DEF Delivery!vars
    <3>3. CASE s \notin {"matched", "deferred"}
      <4>1. /\ OutcomeOf(s) \in Delivery!Outcome
            /\ \/ OutcomeOf(s) = "failed"
               \/ OutcomeOf(s) = "replied" /\ dms[e] = 1
               \/ OutcomeOf(s) = "silent" /\ dms[e] = 0
        BY <3>3 DEF OutcomeOf, Delivery!Outcome
      <4>2. Delivery!Settle(e, OutcomeOf(s))
        BY <3>1, <4>1 DEF Delivery!Settle
      <4> QED
        BY <4>1, <4>2 DEF Delivery!Next
    <3> QED
      BY <3>2, <3>3
  <2>4. CASE \E e \in Events :
              /\ status[e] = "matched" /\ dms[e] = 0
              /\ dms' = [dms EXCEPT ![e] = 1]
              /\ status' = status
    <3> PICK e \in Events : /\ status[e] = "matched" /\ dms[e] = 0
                            /\ dms' = [dms EXCEPT ![e] = 1]
                            /\ status' = status
      BY <2>4
    <3>1. Delivery!Deliver(e)
      BY DEF Delivery!Deliver, OutcomeOf
    <3> QED
      BY <3>1 DEF Delivery!Next
  <2> QED
    BY <2>1, <2>2, <2>3, <2>4, RowSteps
<1> QED
  BY <1>1, <1>2, PipelineInvariant, PTL DEF Spec, ImplementsDelivery, Delivery!Spec

-----------------------------------------------------------------------------
(* One worker loses no job but the one a failure let go of.                 *)

\* What a worker has claimed of the sorted set, and what is still in it, says
\* "deferred", but for the job it parks; what it loads is unprocessed.  A job some
\* failure let go of may be anywhere.
ClaimsWait ==
  /\ \A w \in Workers :
       /\ \A e \in claimed[w] : e # cur[w] => status[e] = "deferred" \/ e \in dropped
       /\ pc[w] = "load" => status[cur[w]] \in Unprocessed \/ cur[w] \in dropped
       /\ pc[w] = "parked" => cur[w] \in deferred
  /\ \A e \in deferred :
       \/ status[e] = "deferred"
       \/ e \in dropped
       \/ \E w \in Workers : pc[w] = "parked" /\ cur[w] = e

\* A step that writes no row, keeps what is tracked tracked unless it drops it, and
\* claims or parks nothing new.
LEMMA TrackKept ==
  ASSUME DeliveryInv, NoJobLost, ClaimsWait, UNCHANGED <<status, deferred>>,
         dropped \subseteq dropped',
         \A e \in Events : Tracked(e) => Tracked(e)' \/ e \in dropped',
         \A w \in Workers : claimed'[w] \subseteq claimed[w],
         \A w \in Workers : cur'[w] = cur[w] \/ (cur'[w] = NoEvent /\ cur[w] \notin claimed'[w])
                            \/ cur[w] = NoEvent,
         \A w \in Workers : pc'[w] = "load" =>
           (pc[w] = "load" /\ cur'[w] = cur[w])
           \/ status[cur'[w]] \in Unprocessed \/ cur'[w] \in dropped',
         \A w \in Workers : pc'[w] = "parked" => pc[w] = "parked" /\ cur'[w] = cur[w],
         \A w \in Workers : pc[w] = "parked" =>
           (pc'[w] = "parked" /\ cur'[w] = cur[w]) \/ cur[w] \in dropped'
  PROVE  NoJobLost' /\ ClaimsWait'
<1>1. NoJobLost'
  BY DEF NoJobLost
<1>2. \A w \in Workers : \A e \in claimed'[w] :
        e # cur'[w] => status[e] = "deferred" \/ e \in dropped
  <2> SUFFICES ASSUME NEW w \in Workers, NEW e \in claimed'[w], e # cur'[w]
               PROVE  e \in claimed[w] /\ e # cur[w]
    BY DEF ClaimsWait
  <2>1. e # NoEvent /\ e \in claimed[w]
    BY PipelineAssumption DEF DeliveryInv, TypeOK
  <2> QED
    BY <2>1
<1>3. \A e \in deferred :
        \/ status[e] = "deferred" \/ e \in dropped'
        \/ \E w \in Workers : pc'[w] = "parked" /\ cur'[w] = e
  BY DEF ClaimsWait
<1>4. ClaimsWait'
  BY <1>2, <1>3 DEF ClaimsWait
<1> QED
  BY <1>1, <1>4

\* The commit of an outcome lets go of one event, whose row then says so; one that is
\* parked says "deferred" and is in the sorted set.
LEMMA FinishTracked ==
  ASSUME DeliveryInv, NoJobLost, ClaimsWait, \A v, u \in Workers : v = u,
         NEW w \in Workers, NEW s \in Settled \cup {"deferred"}, FinishAs(w, s),
         pc[w] \in InJob, s = "deferred" <=> pc[w] = "parked"
  PROVE  NoJobLost' /\ ClaimsWait'
<1> DEFINE e == cur[w]
<1>1. /\ e \in Events /\ e # NoEvent /\ s \in Status
      /\ \A x \in Events : status'[x] = IF x = e THEN s ELSE status[x]
      /\ UNCHANGED <<outbox, queue, deferred, dropped>>
      /\ pc'[w] \in {"drain", "poll"} /\ cur'[w] = NoEvent /\ claimed'[w] = claimed[w] \ {e}
  BY PipelineAssumption DEF DeliveryInv, TypeOK, FinishAs, Return, webVars, redisVars, historyVars, Status
<1>2. pc[w] # "parked" => e \notin deferred
  <2>1. pc[w] # "parked" => Holds(w, e)
    BY DEF Holds
  <2> QED
    BY <1>1, <2>1 DEF DeliveryInv, OneClaim
<1>3. pc[w] = "parked" => e \in deferred
  BY DEF ClaimsWait
<1>4. \A x \in Events \ {e} : Tracked(x) => Tracked(x)'
  BY <1>1, PipelineAssumption DEF Tracked, Queued
<1>5. NoJobLost'
  <2> SUFFICES ASSUME NEW x \in Events \ dropped,
                      status'[x] \in {"pending", "matched", "deferred"}
               PROVE  Tracked(x)'
    BY <1>1 DEF NoJobLost
  <2>1. CASE x = e
    <3>1. e \in deferred'
      BY <1>1, <1>3, <2>1 DEF Settled
    <3> QED
      BY <2>1, <3>1 DEF Tracked
  <2>2. CASE x # e
    BY <1>1, <1>4, <2>2 DEF NoJobLost
  <2> QED
    BY <2>1, <2>2
<1>6. \A x \in claimed'[w] : status'[x] = "deferred" \/ x \in dropped
  BY <1>1 DEF ClaimsWait, DeliveryInv, TypeOK
<1>7. \A x \in deferred' : status'[x] = "deferred" \/ x \in dropped
  <2>1. \A x \in deferred : x # e => x \in Events /\ (status[x] = "deferred" \/ x \in dropped)
    BY DEF ClaimsWait, DeliveryInv, TypeOK
  <2> QED
    BY <1>1, <1>2, <2>1
<1> QED
  BY <1>1, <1>5, <1>6, <1>7 DEF ClaimsWait

\* A pop takes the head of the list, and nothing else leaves it.
LEMMA TailTracked ==
  ASSUME queue \in Seq(Events), queue # <<>>, queue' = Tail(queue)
  PROVE  \A x : Queued(x) => Queued(x)' \/ x = Head(queue)
<1>1. /\ Head(queue) = queue[1] /\ Len(queue') = Len(queue) - 1 /\ Len(queue) \in Nat
      /\ \A i \in 1..Len(queue') : queue'[i] = queue[i + 1]
  OBVIOUS
<1> SUFFICES ASSUME NEW x, NEW i \in 1..Len(queue), queue[i] = x, i # 1 PROVE Queued(x)'
  BY <1>1 DEF Queued
<1>2. i - 1 \in 1..Len(queue') /\ queue'[i - 1] = queue[i - 1 + 1] /\ i - 1 + 1 = i
  BY <1>1
<1> QED
  BY <1>2 DEF Queued

\* Every step of one worker keeps every open event nothing let go of in somebody's hands.
LEMMA TrackStep ==
  ASSUME \A v, u \in Workers : v = u,
         DeliveryInv, NoJobLost, ClaimsWait, [Next]_vars
  PROVE  NoJobLost' /\ ClaimsWait'
<1>1. ASSUME NEW h \in Handlers, NEW batch \in SUBSET Events, ReceiveWebhook(h, batch)
      PROVE  NoJobLost' /\ ClaimsWait'
  <2>1. /\ \A e \in Events : status'[e] = IF e \in Fresh(batch) THEN "pending" ELSE status[e]
        /\ outbox[h] = {} /\ outbox'[h] = Fresh(batch)
        /\ \A g \in Handlers : g # h => outbox'[g] = outbox[g]
        /\ UNCHANGED <<queue, deferred, pc, cur, claimed, dropped>>
    BY <1>1 DEF ReceiveWebhook, redisVars, loopVars, historyVars, DeliveryInv, TypeOK
  <2>2. \A e \in Events : status[e] # "absent" => status'[e] = status[e]
    BY <2>1 DEF Fresh
  <2>3. \A e \in Events : Tracked(e) \/ e \in Fresh(batch) => Tracked(e)'
    BY <2>1 DEF Tracked, Queued
  <2>4. NoJobLost'
    BY <2>1, <2>3 DEF NoJobLost
  <2>5. /\ \A w \in Workers : claimed[w] \subseteq Events /\ (pc[w] = "load" => cur[w] \in Events)
        /\ deferred \subseteq Events
    BY DEF DeliveryInv, TypeOK, InJob
  <2>6. /\ \A w \in Workers : \A e \in claimed[w] :
             e # cur[w] => status'[e] = "deferred" \/ e \in dropped
        /\ \A w \in Workers :
             pc[w] = "load" => status'[cur[w]] \in Unprocessed \/ cur[w] \in dropped
    BY <2>2, <2>5 DEF ClaimsWait, Unprocessed
  <2>7. \A e \in deferred :
          \/ status'[e] = "deferred" \/ e \in dropped
          \/ \E w \in Workers : pc[w] = "parked" /\ cur[w] = e
    BY <2>2, <2>5 DEF ClaimsWait
  <2>8. ClaimsWait'
    BY <2>1, <2>6, <2>7 DEF ClaimsWait
  <2> QED
    BY <2>4, <2>8
<1>2. ASSUME NEW h \in Handlers, EnqueueComment(h)
      PROVE  NoJobLost' /\ ClaimsWait'
  <2>1. PICK e \in outbox[h] : /\ queue' = Append(queue, e)
                               /\ outbox' = [outbox EXCEPT ![h] = @ \ {e}]
                               /\ UNCHANGED <<status, deferred, pc, cur, claimed, dropped>>
    BY <1>2 DEF EnqueueComment, rowVars, loopVars, historyVars
  <2>2. /\ Len(queue') = Len(queue) + 1 /\ Len(queue) \in Nat
        /\ queue'[Len(queue) + 1] = e
        /\ \A i \in 1..Len(queue) : queue'[i] = queue[i]
    BY <2>1 DEF DeliveryInv, TypeOK
  <2>3. \A x : Queued(x) \/ x = e => Queued(x)'
    BY <2>2 DEF Queued
  <2>4. \A g \in Handlers : outbox[g] \subseteq outbox'[g] \cup {e}
    BY <2>1 DEF DeliveryInv, TypeOK
  <2>5. \A x \in Events : Tracked(x) => Tracked(x)'
    BY <2>1, <2>3, <2>4 DEF Tracked
  <2> QED
    BY <2>1, <2>5, TrackKept DEF ClaimsWait
<1>3. ASSUME NEW w \in Workers, LoopStep(w)
      PROVE  NoJobLost' /\ ClaimsWait'
  <2>0. /\ \A v \in Workers : v = w
        /\ pc[w] \notin InJob => cur[w] = NoEvent
    BY DEF DeliveryInv, TypeOK
  <2>1. CASE PollDeferred(w) \/ ClaimDone(w) \/ DrainDone(w) \/ PopTimeout(w)
    <3>1. UNCHANGED <<status, deferred, outbox, queue, cur, claimed, dropped>>
          /\ pc'[w] \in InLoop /\ pc[w] \in InLoop
      BY <2>1 DEF PollDeferred, ClaimDone, DrainDone, PopTimeout, Goto, rowVars, webVars,
         redisVars, loopVars, historyVars, InLoop, DeliveryInv, TypeOK
    <3>2. \A x \in Events : Tracked(x) => Tracked(x)'
      BY <3>1 DEF Tracked, Queued
    <3> QED
      BY <2>0, <3>1, <3>2, TrackKept DEF InLoop
  <2>2. CASE ClaimDeferred(w)
    <3>1. PICK e \in due[w] :
            /\ claimed'[w] = IF e \in deferred THEN claimed[w] \cup {e} ELSE claimed[w]
            /\ deferred' = deferred \ {e}
            /\ pc[w] = "claim" /\ UNCHANGED <<status, outbox, queue, pc, cur, dropped>>
      BY <2>2 DEF ClaimDeferred, rowVars, webVars, historyVars, DeliveryInv, TypeOK
    <3>2. \A x \in deferred : status[x] = "deferred" \/ x \in dropped
      BY <2>0, <3>1 DEF ClaimsWait
    <3>3. \A x \in Events : Tracked(x) => Tracked(x)'
      BY <2>0, <3>1 DEF Tracked, Queued
    <3>4. NoJobLost'
      BY <3>1, <3>3 DEF NoJobLost
    <3>5. ClaimsWait'
      BY <2>0, <3>1, <3>2 DEF ClaimsWait
    <3> QED
      BY <3>4, <3>5
  <2>3. CASE ProcessClaimed(w)
    <3>1. /\ UNCHANGED <<status, deferred, outbox, queue, claimed, dropped>>
          /\ pc[w] = "drain" /\ pc'[w] = "load" /\ cur'[w] \in claimed[w]
      BY <2>3 DEF ProcessClaimed, Goto, rowVars, webVars, redisVars, loopVars, historyVars,
         DeliveryInv, TypeOK
    <3>2. cur[w] = NoEvent /\ cur'[w] # NoEvent
      BY <2>0, <3>1, PipelineAssumption DEF InJob, DeliveryInv, TypeOK
    <3>3. status[cur'[w]] \in Unprocessed \/ cur'[w] \in dropped
      BY <3>1, <3>2 DEF ClaimsWait, Unprocessed
    <3>4. \A x \in Events : Tracked(x) => Tracked(x)'
      BY <2>0, <3>1, <3>2, PipelineAssumption DEF Tracked, Queued
    <3> QED
      BY <2>0, <3>1, <3>2, <3>3, <3>4, TrackKept
  <2>4. CASE PopQueue(w)
    <3>1. /\ pc[w] = "brpop" /\ queue # <<>> /\ queue' = Tail(queue)
          /\ pc'[w] = "load" /\ cur'[w] = Head(queue)
          /\ UNCHANGED <<status, outbox, deferred, claimed, dropped>>
      BY <2>4 DEF PopQueue, Goto, rowVars, webVars, loopVars, historyVars, DeliveryInv, TypeOK
    <3>2. /\ Head(queue) = queue[1] /\ 1 \in 1..Len(queue)
          /\ Len(queue') = Len(queue) - 1 /\ Len(queue) \in Nat
          /\ \A i \in 1..Len(queue') : queue'[i] = queue[i + 1]
      BY <3>1 DEF DeliveryInv, TypeOK
    <3>3. status[cur'[w]] \in Unprocessed
      BY <3>1, <3>2 DEF DeliveryInv, OneClaim, Unprocessed
    <3>4. \A x : Queued(x) => Queued(x)' \/ x = Head(queue)
      BY <3>1, TailTracked DEF DeliveryInv, TypeOK
    <3>5. cur[w] = NoEvent
      BY <2>0, <3>1 DEF InJob
    <3>6. \A x \in Events : Tracked(x) => Tracked(x)'
      BY <2>0, <3>1, <3>2, <3>4, <3>5, PipelineAssumption DEF Tracked
    <3> QED
      BY <2>0, <3>1, <3>3, <3>5, <3>6, TrackKept
  <2>5. CASE PopSwallowed(w)
    <3>1. /\ queue # <<>> /\ queue' = Tail(queue) /\ pc[w] = "brpop" /\ pc'[w] = "poll"
          /\ dropped' = dropped \cup {Head(queue)}
          /\ UNCHANGED <<status, outbox, deferred, cur, claimed>>
      BY <2>5 DEF PopSwallowed, Goto, rowVars, webVars, loopVars, DeliveryInv, TypeOK
    <3>2. \A x : Queued(x) => Queued(x)' \/ x = Head(queue)
      BY <3>1, TailTracked DEF DeliveryInv, TypeOK
    <3>3. \A x \in Events : Tracked(x) => Tracked(x)' \/ x \in dropped'
      BY <3>1, <3>2 DEF Tracked
    <3> QED
      BY <2>0, <3>1, <3>3, TrackKept
  <2> QED
    BY <1>3, <2>1, <2>2, <2>3, <2>4, <2>5 DEF LoopStep
<1>4. ASSUME NEW w \in Workers, JobStep(w)
      PROVE  NoJobLost' /\ ClaimsWait'
  <2>0. \A v \in Workers : v = w
    OBVIOUS
  <2>1. CASE LoadEvent(w) \/ TryConsumeCalls(w) \/ SendReply(w) \/ PublicReply(w)
    <3>1. /\ UNCHANGED <<status, deferred, outbox, queue, cur, claimed, dropped>>
          /\ pc[w] # "parked" /\ pc'[w] \notin {"load", "parked"}
      BY <2>1 DEF LoadEvent, TryConsumeCalls, SendReply, PublicReply, Goto, rowVars, webVars,
         redisVars, loopVars, historyVars, DeliveryInv, TypeOK
    <3>2. \A x \in Events : Tracked(x) => Tracked(x)'
      BY <3>1 DEF Tracked, Queued
    <3> QED
      BY <2>0, <3>1, <3>2, TrackKept
  <2>2. CASE SkipEvent(w)
    <3>1. /\ pc[w] = "load" /\ cur[w] \in dropped /\ cur'[w] = NoEvent
          /\ pc'[w] \in {"drain", "poll"} /\ claimed'[w] = claimed[w] \ {cur[w]}
          /\ UNCHANGED <<status, deferred, outbox, queue, dropped>>
      BY <2>2 DEF SkipEvent, ClaimsWait, Return, rowVars, webVars, redisVars, historyVars,
         DeliveryInv, TypeOK
    <3>2. \A x \in Events : Tracked(x) => Tracked(x)' \/ x \in dropped'
      BY <2>0, <3>1 DEF Tracked, Queued
    <3> QED
      BY <2>0, <3>1, <3>2, TrackKept
  <2>3. CASE DecideFailed(w) \/ DecideStale(w) \/ DecideNoMatch(w)
             \/ FinishFailed(w) \/ FinishReplied(w)
    <3>1. PICK s \in Settled : FinishAs(w, s) /\ pc[w] \in {"decide", "fail", "finish"}
      BY <2>3 DEF DecideFailed, DecideStale, DecideNoMatch, FinishFailed, FinishReplied, Settled
    <3> QED
      BY <3>1, FinishTracked DEF InJob, Settled
  <2>4. CASE FinishDeferred(w)
    BY <2>4, FinishTracked DEF FinishDeferred, InJob
  <2>5. CASE DecideMatched(w)
    <3> DEFINE e == cur[w]
    <3>1. /\ pc[w] = "decide" /\ pc'[w] = "consume" /\ e \in Events /\ Holds(w, e)
          /\ \A x \in Events : status'[x] = IF x = e THEN "matched" ELSE status[x]
          /\ UNCHANGED <<deferred, outbox, queue, cur, claimed, dropped>>
      BY <2>5 DEF DecideMatched, Goto, webVars, redisVars, loopVars, historyVars, DeliveryInv, TypeOK,
         Holds, InJob
    <3>2. e \notin deferred
      BY <3>1 DEF DeliveryInv, OneClaim
    <3>3. \A x \in Events : Tracked(x) => Tracked(x)'
      BY <3>1 DEF Tracked, Queued
    <3>4. Tracked(e)'
      BY <3>1 DEF Tracked
    <3>5. NoJobLost'
      BY <3>1, <3>3, <3>4 DEF NoJobLost
    <3>6. claimed[w] \subseteq Events /\ deferred \subseteq Events
      BY DEF DeliveryInv, TypeOK
    <3>7. \A x \in claimed[w] : x # e => status'[x] = "deferred" \/ x \in dropped
      BY <3>1, <3>6 DEF ClaimsWait
    <3>8. \A x \in deferred : status'[x] = "deferred" \/ x \in dropped
      BY <2>0, <3>1, <3>2, <3>6 DEF ClaimsWait
    <3>9. ClaimsWait'
      BY <2>0, <3>1, <3>7, <3>8 DEF ClaimsWait
    <3> QED
      BY <3>5, <3>9
  <2>6. CASE DeferComment(w)
    <3>1. /\ pc[w] = "defer" /\ pc'[w] = "parked" /\ deferred' = deferred \cup {cur[w]}
          /\ UNCHANGED <<status, outbox, queue, cur, claimed, dropped>>
      BY <2>6 DEF DeferComment, Goto, rowVars, webVars, loopVars, historyVars, DeliveryInv, TypeOK
    <3>2. \A x \in Events : Tracked(x) => Tracked(x)'
      BY <3>1 DEF Tracked, Queued
    <3>3. NoJobLost'
      BY <3>1, <3>2 DEF NoJobLost
    <3>4. ClaimsWait'
      BY <2>0, <3>1 DEF ClaimsWait
    <3> QED
      BY <3>3, <3>4
  <2> QED
    BY <1>4, <2>1, <2>2, <2>3, <2>4, <2>5, <2>6 DEF JobStep
<1>5. CASE Tick \/ UNCHANGED vars
  <2>1. UNCHANGED <<status, deferred, outbox, queue, cur, claimed, pc, dropped>>
    BY <1>5 DEF Tick, vars, rowVars, webVars, redisVars, loopVars, historyVars
  <2>2. \A x \in Events : Tracked(x) => Tracked(x)'
    BY <2>1 DEF Tracked, Queued
  <2> QED
    BY <2>1, <2>2, TrackKept DEF ClaimsWait
<1>6. ASSUME NEW h \in Handlers, WebFails(h)
      PROVE  NoJobLost' /\ ClaimsWait'
  <2>1. /\ dropped' = dropped \cup outbox[h]
        /\ \A g \in Handlers : g # h => outbox'[g] = outbox[g]
        /\ UNCHANGED <<status, deferred, queue, pc, cur, claimed>>
    BY <1>6 DEF WebFails, rowVars, redisVars, loopVars, DeliveryInv, TypeOK
  <2>2. \A x \in Events : Tracked(x) => Tracked(x)' \/ x \in dropped'
    BY <2>1 DEF Tracked, Queued
  <2> QED
    BY <2>1, <2>2, TrackKept
<1>7. ASSUME NEW w \in Workers, WorkerFault(w)
      PROVE  NoJobLost' /\ ClaimsWait'
  <2>0. \A v \in Workers : v = w
    OBVIOUS
  <2>1. /\ dropped \cup (claimed[w] \ claimed'[w]) \cup ({cur[w]} \ {NoEvent}) \subseteq dropped'
        /\ pc'[w] \in {"drain", "poll"} /\ cur'[w] = NoEvent
        /\ claimed'[w] \subseteq claimed[w] \ {cur[w]}
        /\ UNCHANGED <<status, deferred, outbox, queue>>
    BY <1>7 DEF WorkerFault, JobRaises, WorkerCrash, Return, rowVars, webVars, redisVars,
       DeliveryInv, TypeOK
  <2>2. \A x \in Events : Tracked(x) => Tracked(x)' \/ x \in dropped'
    BY <2>0, <2>1, PipelineAssumption DEF Tracked, Queued
  <2>3. pc[w] = "parked" => cur[w] \in dropped'
    BY <2>1, PipelineAssumption DEF DeliveryInv, TypeOK, InJob
  <2> QED
    BY <2>0, <2>1, <2>2, <2>3, TrackKept
<1> QED
  BY <1>1, <1>2, <1>3, <1>4, <1>5, <1>6, <1>7 DEF Next, WebStep, WorkerStep

\* Nothing is accepted yet at first.
LEMMA TrackInit == Init => NoJobLost /\ ClaimsWait
BY PipelineAssumption DEF Init, NoJobLost, ClaimsWait

\* The one worker the code is written for (worker.py) loses a job only if a failure let
\* go of that very job: whatever raises, dies or is swallowed, every other accepted event
\* without an outcome is in somebody's hands.
THEOREM JobsKept ==
  ASSUME \A v, u \in Workers : v = u
  PROVE  Spec => []NoJobLost
<1>1. DeliveryInv /\ NoJobLost /\ ClaimsWait /\ [Next]_vars
        => DeliveryInv' /\ NoJobLost' /\ ClaimsWait'
  BY TrackStep, DeliveryStep
<1>2. Init => DeliveryInv /\ NoJobLost /\ ClaimsWait
  BY DeliveryInit, TrackInit
<1> QED
  BY <1>1, <1>2, PTL DEF Spec

-----------------------------------------------------------------------------
(* The calls of an hour.                                                    *)

\* The calls a merchant's matches have paid for and not made: a worker that sends has
\* two, one that may post the public reply has one.
Owed(m) ==
  {x \in Workers \X {1, 2} :
     /\ pc[x[1]] = "send" \/ (pc[x[1]] = "public" /\ x[2] = 1)
     /\ Owner[cur[x[1]]] = m}

\* As many calls as workers may be owed since an earlier hour.
Slack == 2 * Cardinality(Workers)

\* The hour's calls and those owed are paid for by this hour's counter or are owed since
\* an earlier one; they were within the cap when the last of them was paid for.
HourOK(m) ==
  /\ calls[m][hour] + Cardinality(Owed(m)) <= used[m][hour] + Slack
  /\ calls[m][hour] + Cardinality(Owed(m)) <= HourlyCallCap + Slack
  /\ \A h \in Hours : h < hour => calls[m][h] <= HourlyCallCap + Slack
  /\ \A h \in Hours : h > hour => calls[m][h] = 0

HourInv == \A m \in Merchants : HourOK(m)

\* What is owed is finite, and at most two calls a worker.
LEMMA OwedBound ==
  ASSUME IsFiniteSet(Workers), NEW S \in SUBSET (Workers \X {1, 2})
  PROVE  IsFiniteSet(S) /\ Cardinality(S) \in Nat /\ Cardinality(S) <= Slack /\ Slack \in Nat
<1>1. IsFiniteSet({1, 2}) /\ Cardinality({1, 2}) = 2
  <2>1. IsFiniteSet({1}) /\ Cardinality({1}) = 1
    BY FS_Singleton
  <2>2. IsFiniteSet({1} \cup {2}) /\ Cardinality({1} \cup {2}) = Cardinality({1}) + 1
    BY <2>1, FS_AddElement
  <2>3. {1} \cup {2} = {1, 2}
    OBVIOUS
  <2> QED
    BY <2>1, <2>2, <2>3
<1>2. IsFiniteSet(Workers \X {1, 2}) /\ Cardinality(Workers \X {1, 2}) = Cardinality(Workers) * 2
  BY <1>1, FS_Product
<1>3. IsFiniteSet(S) /\ Cardinality(S) <= Cardinality(Workers) * 2
  BY <1>2, FS_Subset
<1>4. Cardinality(Workers) \in Nat /\ Cardinality(S) \in Nat
  BY <1>3, FS_CardinalityType
<1> QED
  BY <1>3, <1>4 DEF Slack

\* It is a set of pairs, before and after any step.
LEMMA OwedType ==
  ASSUME NEW m
  PROVE  Owed(m) \in SUBSET (Workers \X {1, 2}) /\ Owed(m)' \in SUBSET (Workers \X {1, 2})
BY DEF Owed

\* The arithmetic of the invariant for one merchant: the calls made and owed grow by
\* no more than the counter, and only within the cap.
LEMMA HourKept ==
  ASSUME TypeOK, TypeOK', NEW m \in Merchants, HourOK(m), IsFiniteSet(Workers), hour' = hour,
         \A h \in Hours : h # hour => calls'[m][h] = calls[m][h],
         NEW made \in Nat, calls'[m][hour] = calls[m][hour] + made,
         NEW paid \in Nat, used'[m][hour] = used[m][hour] + paid,
         NEW more \in Nat,
         Cardinality(Owed(m)') + made <= Cardinality(Owed(m)) + more,
         more <= paid, more # 0 => used'[m][hour] <= HourlyCallCap
  PROVE  HourOK(m)'
<1> DEFINE owed == Cardinality(Owed(m))
           owing == Cardinality(Owed(m)')
           now == calls[m][hour]
           meter == used[m][hour]
<1>1. owed \in Nat /\ owing \in Nat /\ Slack \in Nat
  BY OwedType, OwedBound
<1>2. hour \in Hours /\ now \in Nat /\ meter \in Nat /\ HourlyCallCap \in Nat
  BY PipelineAssumption DEF TypeOK
<1>3. now + owed <= meter + Slack /\ now + owed <= HourlyCallCap + Slack
  BY DEF HourOK
<1>4. /\ calls'[m][hour] = now + made /\ used'[m][hour] = meter + paid
      /\ owing + made <= owed + more
      /\ more # 0 => meter + paid <= HourlyCallCap
  OBVIOUS
<1> HIDE DEF owed, owing, now, meter
<1>5. now + made + owing <= meter + paid + Slack
  BY <1>1, <1>2, <1>3, <1>4
<1>6. now + made + owing <= HourlyCallCap + Slack
  BY <1>1, <1>2, <1>3, <1>4, <1>5
<1>7. /\ \A h \in Hours : h < hour => calls'[m][h] <= HourlyCallCap + Slack
      /\ \A h \in Hours : h > hour => calls'[m][h] = 0
  BY <1>2 DEF HourOK, Hours
<1>8. /\ calls'[m][hour] + Cardinality(Owed(m)') <= used'[m][hour] + Slack
      /\ calls'[m][hour] + Cardinality(Owed(m)') <= HourlyCallCap + Slack
  BY <1>4, <1>5, <1>6 DEF owing
<1> QED
  BY <1>7, <1>8 DEF HourOK

\* A merchant for whom no call is made or paid for owes no more.
LEMMA HourQuiet ==
  ASSUME TypeOK, TypeOK', NEW m \in Merchants, HourOK(m), IsFiniteSet(Workers),
         calls'[m] = calls[m], used'[m] = used[m], hour' = hour, Owed(m)' \subseteq Owed(m)
  PROVE  HourOK(m)'
<1> DEFINE none == 0
<1>1. IsFiniteSet(Owed(m)) /\ Owed(m)' \in SUBSET Owed(m)
  BY OwedType, OwedBound
<1>2. Cardinality(Owed(m)') <= Cardinality(Owed(m))
  BY <1>1, FS_Subset
<1>3. Cardinality(Owed(m)) \in Nat /\ Cardinality(Owed(m)') \in Nat
  BY OwedType, OwedBound
<1>4. hour \in Hours /\ calls[m][hour] \in Nat /\ used[m][hour] \in Nat
  BY DEF TypeOK
<1>5. /\ none \in Nat /\ ~(none # 0) /\ none <= none
      /\ Cardinality(Owed(m)') + none <= Cardinality(Owed(m)) + none
      /\ calls'[m][hour] = calls[m][hour] + none /\ used'[m][hour] = used[m][hour] + none
      /\ \A h \in Hours : h # hour => calls'[m][h] = calls[m][h]
  BY <1>2, <1>3, <1>4
<1> HIDE DEF none
<1> QED
  BY <1>5, HourKept

\* A call that was owed is made and no longer owed.
LEMMA HourCall ==
  ASSUME TypeOK, TypeOK', NEW m \in Merchants, HourOK(m), IsFiniteSet(Workers),
         NEW e \in Events, CountCall(e), Owner[e] = m, UNCHANGED <<used, hour>>,
         NEW x \in Owed(m), Owed(m)' \subseteq Owed(m) \ {x}
  PROVE  HourOK(m)'
<1> DEFINE none == 0
           one == 1
<1>1. IsFiniteSet(Owed(m)) /\ Cardinality(Owed(m)) \in Nat /\ Cardinality(Owed(m)') \in Nat
  BY OwedType, OwedBound
<1>2. /\ IsFiniteSet(Owed(m) \ {x}) /\ Cardinality(Owed(m) \ {x}) = Cardinality(Owed(m)) - 1
      /\ Owed(m)' \in SUBSET (Owed(m) \ {x})
  BY <1>1, FS_RemoveElement
<1>3. Cardinality(Owed(m)') <= Cardinality(Owed(m)) - 1
  BY <1>2, FS_Subset
<1>4. calls \in [Merchants -> [Hours -> Nat]] /\ used \in [Merchants -> [Hours -> Nat]] /\ hour \in Hours
  BY DEF TypeOK
<1>5. /\ calls'[m][hour] = calls[m][hour] + one
      /\ \A h \in Hours : h # hour => calls'[m][h] = calls[m][h]
  BY <1>4 DEF CountCall
<1>6. /\ none \in Nat /\ one \in Nat /\ ~(none # 0) /\ none <= none
      /\ Cardinality(Owed(m)') + one <= Cardinality(Owed(m)) + none
      /\ used'[m][hour] = used[m][hour] + none
  BY <1>1, <1>3, <1>4
<1> HIDE DEF none, one
<1> QED
  BY <1>5, <1>6, HourKept

\* A match that is paid for, within the cap, owes two calls.
LEMMA HourPaid ==
  ASSUME TypeOK, TypeOK', NEW m \in Merchants, HourOK(m), IsFiniteSet(Workers),
         CallsPerMatch >= 2, UNCHANGED <<calls, hour>>,
         used'[m][hour] = used[m][hour] + CallsPerMatch,
         NEW x, NEW y, Owed(m)' \subseteq (Owed(m) \cup {x}) \cup {y},
         used'[m][hour] <= HourlyCallCap \/ Owed(m)' \subseteq Owed(m)
  PROVE  HourOK(m)'
<1> DEFINE none == 0
           two == 2
<1>1. IsFiniteSet(Owed(m)) /\ Cardinality(Owed(m)) \in Nat /\ Cardinality(Owed(m)') \in Nat
  BY OwedType, OwedBound
<1>2. calls[m][hour] \in Nat /\ CallsPerMatch \in Nat /\ used[m][hour] \in Nat
  BY PipelineAssumption DEF TypeOK
<1>3. /\ none \in Nat /\ two \in Nat /\ calls'[m][hour] = calls[m][hour] + none
      /\ two <= CallsPerMatch /\ none <= CallsPerMatch /\ ~(none # 0) /\ hour' = hour
      /\ \A h \in Hours : h # hour => calls'[m][h] = calls[m][h]
  BY <1>2
<1>4. CASE Owed(m)' \subseteq Owed(m)
  <2>1. Cardinality(Owed(m)') <= Cardinality(Owed(m))
    BY <1>1, <1>4, FS_Subset
  <2>2. Cardinality(Owed(m)') + none <= Cardinality(Owed(m)) + none
    BY <1>1, <2>1
  <2> HIDE DEF none, two
  <2> QED
    BY <1>2, <1>3, <2>2, HourKept
<1>5. CASE used'[m][hour] <= HourlyCallCap
  <2>1. /\ IsFiniteSet(Owed(m) \cup {x})
        /\ Cardinality(Owed(m) \cup {x}) \in {Cardinality(Owed(m)), Cardinality(Owed(m)) + 1}
    BY <1>1, FS_AddElement
  <2>2. /\ IsFiniteSet((Owed(m) \cup {x}) \cup {y})
        /\ Cardinality((Owed(m) \cup {x}) \cup {y})
             \in {Cardinality(Owed(m) \cup {x}), Cardinality(Owed(m) \cup {x}) + 1}
    BY <2>1, FS_AddElement
  <2>3. Cardinality(Owed(m)') <= Cardinality((Owed(m) \cup {x}) \cup {y})
    BY <2>2, FS_Subset
  <2>4. Cardinality(Owed(m) \cup {x}) \in Nat /\ Cardinality((Owed(m) \cup {x}) \cup {y}) \in Nat
    BY <2>1, <2>2, FS_CardinalityType
  <2>5. Cardinality(Owed(m)') + none <= Cardinality(Owed(m)) + two
    BY <1>1, <2>1, <2>2, <2>3, <2>4
  <2> HIDE DEF none, two
  <2> QED
    BY <1>2, <1>3, <1>5, <2>5, HourKept
<1> QED
  BY <1>4, <1>5

\* A worker that neither sends nor may post after the step owes nothing.
LEMMA OwedLess ==
  ASSUME NEW w \in Workers, NEW m, pc'[w] \notin {"send", "public"},
         \A v \in Workers : v # w => pc'[v] = pc[v] /\ cur'[v] = cur[v]
  PROVE  Owed(m)' \subseteq Owed(m) \ {<<w, 1>>, <<w, 2>>}
<1> SUFFICES ASSUME NEW x \in Owed(m)' PROVE x \in Owed(m) /\ x[1] # w
  BY DEF Owed
<1>1. /\ x \in Workers \X {1, 2} /\ Owner[cur'[x[1]]] = m
      /\ pc'[x[1]] = "send" \/ (pc'[x[1]] = "public" /\ x[2] = 1)
  BY DEF Owed
<1>2. x[1] \in Workers /\ x[1] # w
  BY <1>1
<1> QED
  BY <1>1, <1>2 DEF Owed

\* A worker that may post the public reply owes that call.
LEMMA OwedOne ==
  ASSUME NEW w \in Workers, pc[w] = "public"
  PROVE  <<w, 1>> \in Owed(Owner[cur[w]])
<1>1. <<w, 1>> \in Workers \X {1, 2} /\ <<w, 1>>[1] = w /\ <<w, 1>>[2] = 1
  OBVIOUS
<1> QED
  BY <1>1 DEF Owed

\* Every step keeps the hour's calls within what was paid for and what was owed.
LEMMA HourStep ==
  ASSUME IsFiniteSet(Workers), CallsPerMatch >= 2, TypeOK, TypeOK', HourInv, [Next]_vars
  PROVE  HourInv'
<1> SUFFICES ASSUME NEW m \in Merchants PROVE HourOK(m)'
  BY DEF HourInv
<1>0. HourOK(m) /\ \A w \in Workers : pc[w] \in InJob => cur[w] \in Events
  BY DEF HourInv, TypeOK
<1>1. CASE UNCHANGED <<calls, used, hour, pc, cur>>
  <2>1. Owed(m)' = Owed(m)
    BY <1>1 DEF Owed
  <2> QED
    BY <1>0, <1>1, <2>1, HourQuiet
<1>2. CASE \E h \in Handlers : WebStep(h)
  BY <1>1, <1>2 DEF WebStep, ReceiveWebhook, EnqueueComment, WebFails, redisVars, historyVars
<1>3. CASE \E w \in Workers : LoopStep(w) \/ WorkerFault(w)
  <2>1. PICK w \in Workers : LoopStep(w) \/ WorkerFault(w)
    BY <1>3
  <2>2. /\ UNCHANGED <<calls, used, hour>> /\ pc'[w] \notin {"send", "public"}
        /\ \A v \in Workers : v # w => pc'[v] = pc[v] /\ cur'[v] = cur[v]
    <3>0. pc \in [Workers -> InLoop \cup InJob] /\ cur \in [Workers -> Events \cup {NoEvent}]
      BY DEF TypeOK
    <3>1. CASE PollDeferred(w) \/ ClaimDone(w) \/ ProcessClaimed(w) \/ DrainDone(w)
      BY <3>0, <3>1 DEF PollDeferred, ClaimDone, ProcessClaimed, DrainDone, Goto, redisVars, historyVars
    <3>2. CASE ClaimDeferred(w) \/ PopQueue(w) \/ PopTimeout(w) \/ PopSwallowed(w)
      BY <3>0, <3>2 DEF ClaimDeferred, PopQueue, PopTimeout, PopSwallowed, Goto, redisVars,
         historyVars
    <3>3. CASE JobRaises(w) \/ WorkerCrash(w)
      BY <3>0, <3>3 DEF JobRaises, WorkerCrash, Return, redisVars, historyVars
    <3> QED
      BY <2>1, <3>1, <3>2, <3>3 DEF LoopStep, WorkerFault
  <2>3. Owed(m)' \subseteq Owed(m)
    BY <2>2, OwedLess
  <2> QED
    BY <1>0, <2>2, <2>3, HourQuiet
<1>4. ASSUME NEW w \in Workers, JobStep(w) PROVE HourOK(m)'
  <2>1. CASE ~(TryConsumeCalls(w) \/ SendReply(w) \/ PublicReply(w))
    <3>1. /\ UNCHANGED <<calls, used, hour>> /\ pc'[w] \notin {"send", "public"}
          /\ \A v \in Workers : v # w => pc'[v] = pc[v] /\ cur'[v] = cur[v]
      BY <1>4, <2>1 DEF JobStep, LoadEvent, SkipEvent, DecideFailed, DecideStale, DecideNoMatch,
         DecideMatched, DeferComment, FinishDeferred, FinishFailed, FinishReplied, FinishAs,
         Return, Goto, redisVars, historyVars, TypeOK
    <3>2. Owed(m)' \subseteq Owed(m)
      BY <3>1, OwedLess
    <3> QED
      BY <1>0, <3>1, <3>2, HourQuiet
  <2>2. CASE TryConsumeCalls(w)
    <3> DEFINE o == Owner[cur[w]]
    <3>0. /\ pc[w] = "consume" /\ cur[w] \in Events /\ o \in Merchants /\ hour \in Hours
          /\ used \in [Merchants -> [Hours -> Nat]] /\ pc \in [Workers -> InLoop \cup InJob]
      BY <1>0, <2>2, PipelineAssumption DEF TryConsumeCalls, TypeOK, InJob
    <3>1. /\ pc[w] = "consume" /\ cur[w] \in Events /\ o \in Merchants /\ hour \in Hours
          /\ pc'[w] = IF used'[o][hour] <= HourlyCallCap THEN "send" ELSE "defer"
          /\ used'[o][hour] = used[o][hour] + CallsPerMatch
          /\ \A p \in Merchants : p # o => used'[p] = used[p]
          /\ UNCHANGED <<calls, hour, cur>>
          /\ \A v \in Workers : v # w => pc'[v] = pc[v]
      BY <2>2, <3>0 DEF TryConsumeCalls, historyVars
    <3>2. Owed(m)' \subseteq (Owed(m) \cup {<<w, 1>>}) \cup {<<w, 2>>}
      BY <3>1 DEF Owed
    <3>3. m # o \/ pc'[w] = "defer" => Owed(m)' \subseteq Owed(m)
      BY <3>1 DEF Owed
    <3>4. CASE m = o
      BY <1>0, <3>1, <3>2, <3>3, <3>4, HourPaid
    <3>5. CASE m # o
      BY <1>0, <3>1, <3>3, <3>5, HourQuiet
    <3> QED
      BY <3>4, <3>5
  <2>3. CASE SendReply(w)
    <3> DEFINE e == cur[w]
    <3>0. /\ pc[w] = "send" /\ e \in Events /\ Owner[e] \in Merchants
          /\ pc \in [Workers -> InLoop \cup InJob]
      BY <1>0, <2>3, PipelineAssumption DEF SendReply, TypeOK, InJob
    <3>1. /\ pc[w] = "send" /\ e \in Events /\ CountCall(e) /\ Owner[e] \in Merchants
          /\ pc'[w] \in {"public", "fail"} /\ UNCHANGED <<used, hour, cur>>
          /\ \A v \in Workers : v # w => pc'[v] = pc[v]
      BY <2>3, <3>0 DEF SendReply, redisVars
    <3>2. Owed(m)' \subseteq Owed(m) \ {<<w, 2>>} /\ (m = Owner[e] => <<w, 2>> \in Owed(m))
      BY <3>1 DEF Owed
    <3>3. m # Owner[e] => calls'[m] = calls[m]
      BY <3>1 DEF CountCall, TypeOK
    <3>4. CASE m = Owner[e]
      BY <1>0, <3>1, <3>2, <3>4, HourCall
    <3>5. CASE m # Owner[e]
      BY <1>0, <3>1, <3>2, <3>3, <3>5, HourQuiet
    <3> QED
      BY <3>4, <3>5
  <2>4. CASE PublicReply(w)
    <3> DEFINE e == cur[w]
    <3>0. /\ pc[w] = "public" /\ e \in Events /\ Owner[e] \in Merchants
          /\ pc \in [Workers -> InLoop \cup InJob]
      BY <1>0, <2>4, PipelineAssumption DEF PublicReply, Goto, TypeOK, InJob
    <3>1. /\ pc[w] = "public" /\ e \in Events /\ (calls' = calls \/ CountCall(e))
          /\ Owner[e] \in Merchants /\ pc'[w] = "finish" /\ UNCHANGED <<used, hour, cur>>
          /\ \A v \in Workers : v # w => pc'[v] = pc[v]
      BY <2>4, <3>0 DEF PublicReply, Goto, redisVars
    <3>2. Owed(m)' \subseteq Owed(m) \ {<<w, 1>>}
      BY <3>1, OwedLess
    <3>6. <<w, 1>> \in Owed(Owner[e])
      BY <3>1, OwedOne
    <3>3. m # Owner[e] => calls'[m] = calls[m]
      BY <3>1 DEF CountCall, TypeOK
    <3>4. CASE m = Owner[e] /\ CountCall(e)
      BY <1>0, <3>1, <3>2, <3>4, <3>6, HourCall
    <3>5. CASE m # Owner[e] \/ calls' = calls
      BY <1>0, <3>1, <3>2, <3>3, <3>5, HourQuiet
    <3> QED
      BY <3>1, <3>4, <3>5
  <2> QED
    BY <2>1, <2>2, <2>3, <2>4
<1>5. CASE Tick
  <2>1. hour' = hour + 1 /\ UNCHANGED <<calls, used, pc, cur>>
    BY <1>5 DEF Tick, redisVars, historyVars
  <2>2. Owed(m)' = Owed(m)
    BY <2>1 DEF Owed
  <2>3. /\ Cardinality(Owed(m)) \in Nat /\ Cardinality(Owed(m)) <= Slack /\ Slack \in Nat
    BY OwedType, OwedBound
  <2>4. /\ hour \in Nat /\ hour \in Hours /\ hour' \in Hours /\ Hours \subseteq Nat
        /\ calls[m][hour] \in Nat /\ used[m][hour'] \in Nat /\ HourlyCallCap \in Nat
    BY PipelineAssumption DEF TypeOK, Hours
  <2>5. calls[m][hour'] = 0
    BY <1>0, <2>1, <2>4 DEF HourOK
  <2>6. calls[m][hour] <= HourlyCallCap + Slack
    BY <1>0, <2>3, <2>4 DEF HourOK
  <2>7. \A h \in Hours : /\ h < hour' => calls[m][h] <= HourlyCallCap + Slack
                         /\ h > hour' => calls[m][h] = 0
    <3>1. \A h \in Hours : /\ h < hour => calls[m][h] <= HourlyCallCap + Slack
                           /\ h > hour => calls[m][h] = 0
      BY <1>0 DEF HourOK
    <3> SUFFICES ASSUME NEW h \in Hours
                 PROVE  /\ h < hour' => calls[m][h] <= HourlyCallCap + Slack
                        /\ h > hour' => calls[m][h] = 0
      OBVIOUS
    <3>2. h \in Nat /\ hour \in Nat /\ hour' = hour + 1
      BY <2>1, <2>4
    <3>3. (h < hour' => h < hour \/ h = hour) /\ (h > hour' => h > hour)
      BY <3>2
    <3> QED
      BY <2>6, <3>1, <3>3
  <2>8. /\ calls[m][hour'] + Cardinality(Owed(m)) <= used[m][hour'] + Slack
        /\ calls[m][hour'] + Cardinality(Owed(m)) <= HourlyCallCap + Slack
    BY <2>3, <2>4, <2>5
  <2> QED
    BY <2>1, <2>2, <2>7, <2>8 DEF HourOK
<1> QED
  BY <1>1, <1>2, <1>3, <1>4, <1>5 DEF Next, WorkerStep, vars

\* No call is made or owed at first.
LEMMA HourInit == Init /\ IsFiniteSet(Workers) => HourInv
<1> SUFFICES ASSUME Init, IsFiniteSet(Workers), NEW m \in Merchants PROVE HourOK(m)
  BY DEF HourInv
<1>1. Owed(m) = {}
  BY DEF Init, Owed
<1>2. Cardinality(Owed(m)) = 0 /\ Slack \in Nat
  BY <1>1, FS_EmptySet, OwedType, OwedBound
<1>3. 0 \in Hours /\ HourlyCallCap \in Nat
  BY PipelineAssumption DEF Hours
<1> QED
  BY <1>2, <1>3 DEF HourOK, Init

\* The invariant bounds the calls of every hour.
LEMMA HourBound ==
  ASSUME IsFiniteSet(Workers), CallsPerMatch >= 2, TypeOK, HourInv
  PROVE  CallsWithinSlack
<1> SUFFICES ASSUME NEW m \in Merchants, NEW h \in Hours
             PROVE  calls[m][h] <= HourlyCallCap + CallsPerMatch * Cardinality(Workers)
  BY DEF CallsWithinSlack
<1>1. /\ Cardinality(Owed(m)) \in Nat /\ Slack \in Nat /\ Cardinality(Workers) \in Nat
  BY OwedType, OwedBound, FS_CardinalityType
<1>2. /\ hour \in Nat /\ h \in Nat /\ hour \in Hours /\ calls[m][h] \in Nat /\ calls[m][hour] \in Nat
      /\ HourlyCallCap \in Nat /\ CallsPerMatch \in Nat
  BY PipelineAssumption DEF TypeOK, Hours
<1>3. calls[m][h] <= HourlyCallCap + Slack
  <2>1. calls[m][hour] <= HourlyCallCap + Slack
    BY <1>1, <1>2 DEF HourInv, HourOK
  <2> QED
    BY <1>1, <1>2, <2>1 DEF HourInv, HourOK
<1>4. Slack <= CallsPerMatch * Cardinality(Workers)
  BY <1>1, <1>2 DEF Slack
<1> QED
  BY <1>1, <1>2, <1>3, <1>4

\* The calls of an hour exceed the cap by one match a worker at most, whatever is
\* redelivered, claimed twice or cut short, since a match pays for its two calls first.
THEOREM CallsCapped ==
  ASSUME IsFiniteSet(Workers), CallsPerMatch >= 2
  PROVE  Spec => []CallsWithinSlack
<1>1. TypeOK /\ HourInv /\ [Next]_vars => TypeOK' /\ HourInv'
  BY TypeStep, HourStep
<1>2. Init => TypeOK /\ HourInv
  BY TypeInit, HourInit
<1>3. TypeOK /\ HourInv => CallsWithinSlack
  BY HourBound
<1> QED
  BY <1>1, <1>2, <1>3, PTL DEF Spec
=============================================================================
