# A TLA+ model of aqlchat (Dukan AI)

aqlchat answers the customers of small shops on Telegram and Instagram. A
FastAPI application receives webhooks, keeps its state in Postgres (through
SQLAlchemy sessions) and its queues, caches and counters in Redis; a separate
worker process answers Instagram comments; the shops' admins talk to a shared
"platform bot". This directory holds TLA+ modules that model the parts where
order, failure and concurrency matter, TLC configurations that check them on
small instances, and proofs checked by TLAPS that hold for every size.

## 1. The system

| Component | Code (`src/app/`) | State | Operations | What makes it correct |
|---|---|---|---|---|
| Instagram comment webhook | `instagram/router.py` | `comment_events` rows | insert unless present, commit, push ids | one row and one queue entry per delivered comment |
| Job queue | `instagram/queue.py` | Redis list `ig:comments`, sorted set `ig:deferred` | push, pop, defer, claim what is due | one claimer per job, no job lost |
| Worker | `instagram/worker.py` | the jobs in its memory | drain what is due, pop, process | goes on whatever a job does |
| Job processing | `instagram/service.py` | the row's status, Graph API calls | stale / match / budget / DM / public reply | at most one DM, a truthful status, an outcome for each |
| Call budget | `instagram/budget.py` | a Redis counter per merchant and hour | increment, compare | the hourly cap holds, up to calls in flight |
| Instagram connect, refresh | `instagram/oauth.py`, `router.py:197-280`, `scripts/refresh_instagram_tokens.py` | OAuth state keys, account and token of a merchant | start, callback, daily refresh | a state serves once, an account one merchant, a token its account |
| Tenant webhook | `telegram/webhook.py` | customers, conversations, messages | suppress / forward / answer / escalate | silence while a human has the conversation |
| Hand-off | `handoff/service.py` | `needs_human`, `pending_admin_replies` | escalate, forward, release, release if stale, relay | replies reach their customer, escalations are not lost |
| Platform webhook | `onboarding/router.py` | none of its own | release button, admin reply, commands, /start | dispatch by identity and replied-to message |
| Onboarding | `onboarding/service.py` | `platform_onboarding_sessions`, the merchant's row, FAQ rows | a state machine of prompts, re-entry, topic loop | the merchant complete at the end, one admin per bot |
| Catalogue | `products/`, `telegram/webhook.py:98-320`, `handoff/service.py:162-188` | products, price status, source channel, price queries | post, edit, backfill, forward, link, price query | only the shop's own channel, the newest text, no price taken away |
| Answering | `telegram/webhook.py:462-595`, `image_search/`, `llm/`, `flows/`, `faq/`, `intent/` | conversation context, carousel log, LLM cache and budgets | layers in order, LLM with cache and budget, carousel, taps | the answer is about what was asked; budgets hold |
| Accounts | `auth/` | codes, sessions | sign up, verify, log in, log out | codes used once, attempts bounded, a verified password safe |
| Automations, media picker | `automations/` | flows, a cached page of posts | install, patch, remove, list posts | one copy per template, no edit undone, the right account's posts |
| Agents | `agents/` | agents, chunks in a second store | create, update, remove, connect a bot | chunks follow the text |
| Shell, seeding scripts, migrations, text normalisation | the rest | - | - | wiring and pure conversions |

How they interact. FastAPI runs the Telegram endpoints in a thread pool, one
database session per request; requests of the same customer and of the same
admin overlap. The Instagram webhook is an `async def` without awaits after the
body, so its handlers interleave only across processes. Webhook and worker share
rows and Redis, and nothing else. The tenant and the platform webhook share the
hand-off rows. The website's handlers share the login session and the merchant's
row. A session reads committed data, does not flush on its own
(`db/session.py:9`), and writes the columns that differ from what was loaded at
its commit; a JSON column is written whole.

The hard parts are listed in `PROJECT.json` under `hazards`, each at its line:
redelivered webhooks, a crash between a commit and a push, two workers claiming
the same deferred job, an API call whose answer is lost, a cap that is counted
in one hour and used in the next, flags read before another request changes
them, session-local state that a query does not see, JSON columns that two
requests extend at once, a check and an insert with a call to another service in
between, one store updated and the other not.

## 2. Modules

| Module | What it is |
|---|---|
| `CommentPipeline` | webhook, queue, workers, job processing and budget of the Instagram pipeline |
| `CommentDelivery` | what the pipeline promises about one comment: the abstract specification |
| `CommentRefinement` | the refinement mapping from `CommentPipeline` to `CommentDelivery` |
| `MCCommentPipeline`, `MCComment_*.cfg` | its small instances |
| `CommentDeliveryProofs` | type correctness, the inductive invariant, safety, refinement, lost jobs and the hourly cap |
| `Handoff` | the hand-off with the tenant and the platform webhook's sides of it |
| `HandoffDesk` | what the hand-off promises the admins: the abstract specification |
| `HandoffRefinement` | the refinement mapping from `Handoff` to `HandoffDesk` |
| `MCHandoff`, `MCHandoff_*.cfg` | its small instances |
| `HandoffProofs` | types, routing, the two action properties and the refinement |
| `Onboarding` | the platform bot's onboarding and its settings menu |
| `MCOnboarding` | its small instance |
| `OnboardingProofs` | types, the four safety properties and the action property |
| `Catalog` | a shop's products, filled by its channel, backfills and forwards, and the price queries |
| `Answering` | extends `Catalog` by the customers' side; next-state relation and properties of the storefront |
| `MCStorefront`, `MCStorefront*.cfg` | instances of `Answering` |
| `StorefrontProofs` | types, the seven safety properties and the action property of the storefront |
| `Website` | what the website's parts have in common |
| `Accounts`, `InstagramConnect`, `Agents`, `Automations` | its parts, each with its state, actions and properties |
| `Dashboard` | composes the four, with the login session in front |
| `MCDashboard` | its small instance |
| `ConnectProofs`, `AgentsProofs`, `AutomationsProofs` | the properties of three of the parts, proved of `Dashboard` |
| `DashboardProofs` | the properties of accounts, and the types of the whole website |

### 2.1 The comment pipeline

A step is what one process does between two interactions with shared state: one
Redis command, one database read, one commit, one Graph API call.

* `ReceiveWebhook` is a whole request up to its commit, with a batch of
  comments; `Fresh` is `ON CONFLICT DO NOTHING`. `outbox` holds the ids that are
  committed and not pushed yet, `EnqueueComment` pushes one, `WebFails` loses
  the rest (a crash, or an `LPUSH` that raises).
* A worker's `pc` follows `worker.run`, `pop_due_deferred` and
  `process_comment_event`. `PollDeferred` is ZRANGEBYSCORE, `ClaimDeferred` one
  ZREM; `due` and `claimed` are the local lists. `DeferComment` is the ZADD, and
  `FinishDeferred` the commit after it: between them (`pc = "parked"`) the claim
  is public while the row still says "matched".
* `SendReply` has three outcomes: refused, delivered and answered, delivered
  with the answer lost. `publics`, `dms` and `calls` are history variables that
  record what Meta saw.
* `PopSwallowed` is the client's read timeout racing BRPOP's answer: Redis has
  popped an id, the loop takes the exception for an empty list and goes on. It is
  the loop's ordinary behaviour and not gated by `Faults`.
* `JobRaises` and `WorkerCrash` are faults, enabled by the constant `Faults`;
  a crashed worker starts again at the top of its loop with empty memory.
* `dropped` is history: the events whose own job a failure let go of (a push that
  failed, an answer swallowed, a job that raised, a worker that died with it).

What is abstracted: which rule matches (`DecideNoMatch` and `DecideMatched` are
both possible, since a merchant may edit rules at any time), the text of
replies, signature and payload checks, the loop guard on the shop's own
comments, the row's bookkeeping columns.

### 2.2 The hand-off

A step is one read, one call to Telegram with the bookkeeping around it, or the
commit. Rows of `pending_admin_replies` of kind "escalation" are the set
`Threads`; `status`, `owner`, `target`, `ids` and `active` are their committed
columns. For each request the model keeps what its session holds:

* `seen` and `needs`: the flag as loaded and as it is now. The commit writes it
  only if they differ or a flush wrote it before (`wrote`), as SQLAlchemy does
  (`FlagAfter`).
* `loaded` and `copy`: rows in the session with their values at the time of the
  first load; a later query does not refresh them. `noted` are the rows whose
  message ids the commit writes back.
* `made`: rows inserted by a flush and invisible to others ("inserted").
  `closing`: rows set to "released" in the session; `flushed`: those its own
  queries see as released. Two things flush: inserting a thread
  (`handoff/service.py:91`) and the photo search (`image_search/carousel.py:76`).
* `about`: history; per admin, what each message in that chat is about. A
  message id is its position, so ids repeat between chats, as Telegram's do.

`CustomerMessage` to `Commit` is `receive_update` from loading the conversation
on; `CarouselTap` is a tap on a carousel's button, which the webhook handles
before it looks at the flag (so a product is confirmed although the admins have
the conversation; `SilentWhileHuman` speaks of messages only). `ReleaseConversation` and `CloseThreads` are the release button and
`/release`; `AdminReply` and `RelayToCustomer` are a reply to a notification.
`Abort` is a rollback at any point, after which the sent messages stay sent. A
redelivered update is a new `CustomerMessage`. Two sessions that update one row
wait for each other's commit; in the model the second one may commit first, which
adds orders and removes none.

`HandoffDesk` is the same without sessions, flushes and transactions: a flag per
conversation, the admins' chats, threads that are opened once, gather messages and
are closed once, and replies under way. `HandoffRefinement` maps a row to a thread
once it is committed (an inserted or rolled-back row is none), and a reply to its
request while the request has it to relay; so every read, flush and send to a
customer is a stutter, and the commit of a request is one step, `Store`. What
`Store` promises is what a reader of the code takes for granted: whatever a request
did in its session, it writes one conversation's flag and that conversation's
threads, keeps on them only messages their admins got about it, and does not open a
thread while taking the conversation away from the admins. It does not promise that a thread
keeps the messages it had: the column is read, extended and written back, so of two
follow-ups forwarded at once the later commit drops the id of the earlier one
(`handoff/service.py:114`).

What is abstracted: the layers that answer (`BotAnswers` or `Escalate`, both
possible), message rows, the customer's language, `/reply` (it names the
customer itself), price queries (their rows are of another kind, and only share
the message ids' space).

### 2.3 Onboarding

A request loads the session and the merchant (`Receive`, `ReceiveSetting`; for a
pasted token the merchant only after `getMe`, `CheckBot`; a /start reads the admin,
the link's merchant and the session in statements of their own, `ReceiveStart`,
`FindLink`, `LoadStart`, and others commit in between) and does the rest at its one commit: one action per handler (`AttachBot`,
`VerticalPick`, `TopicAnswer`, ...), each of which ends in `Save`. Between the two
other requests of the same user commit, at most `MaxLate` of them.

`Save` writes as SQLAlchemy does: a column whose value is that of the load is not
in the UPDATE (`Merge`), `session.data` and `merchants.profile` are written
whole. `Accepts` is the dispatch table, `ReentryState` the settings menu, and the
three unique columns (`telegram_bot_id`, `telegram_user_id`, the session's key)
are guards of the commits that meet them; a refused commit is
`EndWithoutEffect`. `past` is history and says which luck a user had: a setting
tapped before the end ("jumped"), topics gone through again ("reentered"), a
commit over rows that had changed ("stale"), a session led to another merchant
than the one the user is the admin of ("rebound": a /start of another link loaded
its rows before the token was accepted and committed after it). A tick taken back
is `Without` one of its `Places`, as `list.remove` does.

Two users may write one merchant: two whose tokens were accepted at once, or one
whose session was led to the other's. Each then writes the whole profile, and the
first can lack what the second had loaded before. `DoneIsComplete` therefore speaks
of users who are `Alone` at their merchant, and `FaqRowsNotDoubled` of commits of
anyone; the small casts of the runs do not reach the difference, the proofs did.

### 2.4 The storefront: `Catalog` and `Answering`

A request of the tenant webhook loads what it needs when it is received, and the
load is kept in its record. `Flush` is `db.flush()` of an ingestion, with its row
locks (`Locked`) and unique constraints; `Notify` sends one price query to one
admin, and is answered, refused, or delivered with the answer lost (the row then
keeps no message id, and the admin is asked again); `CommitCatalog` and `Commit` are the commit. `Fail` stands for whatever
raises or dies: nothing is stored, what was sent stays sent, and Telegram delivers
a channel post again.

A post has versions; a product is known by the version its text comes from and
the version its price comes from (`Ingested` is `ingest_post`, `Priced` says which
versions state a price). A question is about a product by its name, about "it", or
an ordinal of the last carousel. Layers whose answer is a similarity search or a
text rule may answer or not, in the order the webhook asks them. The LLM path has
a step per Redis or provider call: the cache (`CacheHit`), the merchant's counter,
the customer's counter, the answer (`Generate`), which is cached, or none
(`GenerateNothing`). In llm_first mode the product the provider refers to, with or
without an answer, enters the context, whichever shop has it: the code stores the
identifier it is given, and only the log's foreign key asks for a product. `Tick`
ages cached answers and calls in flight, in both modes; a call does not outlive
`Patience`, the timeout in llm_first mode and the SDK's timeout with its retries in
layered mode. A tap brings a product of the buttons the carousel was sent with
(`Buttons`): Telegram sends no other `callback_data`, and the handler itself does not
look the product up in the log.

`calls` counts the calls made for a shop and those made for a customer. `stock` is
what a shop's catalogue holds at first: from one channel, which no other shop's stock
comes from.

`seen` is the carousel a customer was last sent, `aim` the product a question meant
when it was asked (`Meant`: the one named, the one at that place of the carousel seen,
or "it" of the stored conversation), against which an answer is judged (`said.apt`);
`named` holds the products the provider itself named. `rough` marks posts whose
requests overlapped or failed. `blurred` marks customers whose stored context may lack
what they have seen: a request came in or sent a carousel while another carousel was not
stored yet, a carousel's request failed, or the context was written over another's
change. Other overlaps and failures mark nobody.

### 2.5 The website: `Accounts`, `InstagramConnect`, `Agents`, `Automations`

Each part has a record per request in flight, and a step per commit or per call
between two commits:

* `Accounts`: `SignUp` (check) / `StoreSignUp` (commit after hashing) /
  `IssueCode` (cooldown) / `InsertCode`; `TryCode` (read) / `StoreTry` (count or
  consume) / `OpenSession` (a later transaction). A mail may fail after its code
  is kept.
* `InstagramConnect`: `ReadState` and `DropState` are the GET and the DELETE of
  the OAuth state, `Exchange` the code exchange with the query for another
  merchant, `Connect` the commit, where an account equal to the loaded one is not
  written. The refresh script loads all due merchants, and after each commit
  reloads those it comes to (`BeginRefresh`). The media picker asks Instagram with
  one token (`AskMedia`) and caches the answer later (`KeepPage`).
* `Agents`: the text is committed, then read back (`Reread`), the old chunks
  deleted and new ones inserted in another store; each may fail, and a removal
  goes on all the same (`FailSync`). A request may stop at any step, with the chunks
  gone and the row still there (`Abandon`), and a call whose client gave it up after
  15 seconds may be applied later (`GiveUp`, `adrift`, `LandLate`).
* `Automations`: `WriteOf` computes the columns an UPDATE will write from what was
  loaded, `WriteFlow` writes them over whatever the row has by then.

`Dashboard` puts the login session in front: agents' and automations' requests and
`AskMedia` start only while the owner has a session that is not revoked. The parts
share no table otherwise (the Instagram callback is authorised by its state), so a
behaviour is about one of six topics (`topic`): their states add up instead of
multiplying. In the refresh and picker topics callbacks do not overlap each other
(`OneCallback`); that they do is the connect topic.

## 3. Properties and runs

Every passing run's property has a mutant of the code in `PROJECT.json` that
violates it. `TypeOK` is the one type invariant of each next-state relation; every
passing run but `comments_live` checks it, and the table leaves it out.

| Run | Expect | Properties | Bounds |
|---|---|---|---|
| `comments_faults` | pass | `AtMostOneDM`, `StatusTellsTruth`, `DeliveryInv`, `SettledIsFinal`, `ImplementsDelivery` | 2 workers, 3 events of 2 merchants (one not connected), all faults, 3 hours; 0.8 million states up to symmetry |
| `comments_live` | pass | `NoJobLost`, `CallsWithinSlack`, `EveryEventSettles` | 1 worker, 3 events of one merchant, pushes that fail and jobs that raise, cap of one match an hour, 3 hours; 0.6 million states |
| `comments_raise` | violation | `RaisedJobIsMarked` | 1 worker, jobs may raise |
| `comments_two_workers` | violation | `CappedJobNotDropped` | 2 workers, no faults |
| `comments_web` | violation | `PendingIsQueued` | the web process may fail |
| `handoff_threads` | pass | `RoutingInv`, `RepliesReachTheirCustomer`, `EscalationNotLost`, `ImplementsDesk` | 2 conversations, 2 admins, 2 requests, 3 threads, 1 message an admin, timeout 1; 0.8 million states up to symmetry |
| `handoff_rethread` | violation | `EscalatedHasThread` | 1 conversation, 1 admin, 1 request, 2 threads |
| `handoff_silence` | violation | `SilentWhileHuman` | 1 conversation, 1 admin, 2 requests |
| `onboarding` | pass | `DoneIsComplete`, `AdminSessionBound`, `OneConnector`, `PickedTopicsAnswered`, `FaqRowsNotDoubled` | one user who goes through everything, or two with one deep link who connect; 2 requests, 2 bots, 2 verticals of 1 and 2 topics, 1 tap on the settings menu, 1 late commit; 1.2 million states up to symmetry |
| `storefront` | pass | `ProductsFromOwnChannel`, `NotifiedOnce`, `CatalogFollowsChannel`, `SetPriceStays`, `CachedAnswerAge`, `BudgetNeverSlower`, `ContextInShop`, `OrdinalMeetsCarousel` | 2 shops (one llm_first, one layered), 2 channels, 3 posts of 2 versions, 1 admin, 3 customers, 2 requests, 8 agendas; 0.3 million states up to symmetry |
| `storefront_cache` | violation | `AnswerMeetsQuestion` | 2 customers of one llm_first shop, 2 products |
| `dashboard` | pass | `AttemptsCounted`, `CodeSpentOnce`, `PasswordStays`, `StateUsedOnce`, `TokenOfAccount`, `OneMerchantPerAccount`, `PageOfAccount`, `ChunksFollowText`, `OneCopy`, `EditsKept` | 2 merchants, 2 requests per part (3 at the agents), 2 codes, 2 accounts, 2 states, 1 agent, 1 template, 2 flows; 1.7 million states |

What the passing runs show:

* A comment is never answered by two DMs, and its row never claims a DM that did
  not go out or silence after one that did (`AtMostOneDM`, `StatusTellsTruth`),
  under redelivery, deferral, claims by two workers, lost answers and crashes.
  `SettledIsFinal` and `ImplementsDelivery` say that outcomes are given once, and
  in keeping with what was sent.
* With the single worker the code is written for, a failure loses the job it
  strikes and no other, whether an LPUSH fails, a job raises among several claimed
  ones, or an answer of BRPOP is swallowed (`NoJobLost`). Every other accepted comment
  gets its outcome, even for a merchant at its cap (`EveryEventSettles`). The hourly cap counts reservations: a match reserved just before the hour
  turns is called after it, so an hour may see one match per worker more than the
  cap (`CallsWithinSlack`); "can only overcount" (`budget.py:9`) is true of a
  whole day and not of each hour.
* An admin's reply reaches the customer the replied-to message was about, though
  message ids repeat between admins' chats and rows are reused, released and made
  anew (`RepliesReachTheirCustomer`). A released thread is never reopened, and an
  escalation is undone only by a request that had seen it (`EscalationNotLost`):
  SQLAlchemy's habit of writing changed columns only is what saves both. Seen from
  the admins' side the hand-off is the desk of `HandoffDesk` (`ImplementsDesk`, of
  which "released stays released" is one promise).
* A session that says "done" belongs to a complete shop, however the admin's updates
  overlap; a setting tapped before the end is the one way for an admin who is alone at
  the merchant to skip steps (`DoneIsComplete`). Two holders of one link do not both connect, nor
  is a picked topic lost (`OneConnector`, `PickedTopicsAnswered`), unless one request
  commits over rows another has changed since: the code has no check against that. An
  admin is never locked out by a session led back (`AdminSessionBound`), whatever is
  written back stale afterwards, but by a request that crosses the token step itself:
  a /start that read "no admin" before it and the session after it resets that session,
  and nothing in the code prevents it.
* No customer gets a foreign post into a catalogue, though an admin's backfill can
  (`telegram/webhook.py:301` ignores the answer of the channel check); a product
  follows its channel, and no interleaving takes a price away. Once
  Telegram has answered a price query with its message's id, the admin is not asked
  again (`NotifiedOnce`); one whose answer was lost is. The counters are never cheaper than the calls made
  (`BudgetNeverSlower`). An ordinal is resolved to that place of the carousel
  the customer had seen when asking, although other messages, taps, links and photos of
  the same customer overlap, fail and write the one JSON column
  (`OrdinalMeetsCarousel`). The context stays within the shop's catalogue, but for a
  product the provider itself named, which the code does not check (`ContextInShop`).
  An answer is no older than the cache's life and the call's patience
  (`CachedAnswerAge`), which in layered mode is minutes.
* A code answers at most its number of attempts and opens one session; a state
  lets one callback pass; both with the exception of two requests that read it at
  once, which the properties name and which the code does not exclude.
  `TokenOfAccount`: two overlapping connects, or a refresh across a reconnect,
  leave a token of one account beside the id of another; the next undisturbed
  connect repairs it. `ChunksFollowText`: after a failed or overlapped sync the
  next save that succeeds alone puts the chunks right, until a call given up earlier
  lands late. `EditsKept` and `OneCopy`:
  without overlap no edit undoes another and there is one copy.

The exceptions are history variables that mark exactly the rows that were
overlapped, and are lifted again by the step that repairs them where there is one:
`raced`, `outdated`, `rocky`, `tangled`, `contested`, `rough`, `blurred`, `past`.
`dropped` and `named` are of the same kind, for single jobs and products.

What the violations show (the quoted lines are in `PROJECT.json`, `findings`):

* `comments_raise`: a job that raises is only logged; its row keeps "pending" or
  "matched" and no queue holds it. The docstring says it is marked failed.
* `comments_two_workers`: the job is parked before its row is committed as
  "deferred". A second worker that claims it in between skips it as "matched";
  the row then says "deferred" and is in no set. One worker is safe
  (`NoJobLost`).
* `comments_web`: rows committed and not pushed stay "pending" for ever; the
  redelivery finds the rows and pushes nothing.
* `handoff_rethread`: a request that releases a stale hand-off and escalates
  again finds, with autoflush off, the rows it has just released; it notes its
  notification on them and the commit closes them. The conversation is with the
  admins, no thread is open, and neither a reply nor the timeout can reach it. A
  photo takes another path: its search flushes first, and a new row is made. The
  tests' session has autoflush on, which hides the difference.
* `handoff_silence`: a bot answer already on its way goes out after another
  request has committed an escalation. It takes two requests: served one at a time, no
  message is answered (`MessagesUnansweredOneAtATime`). The property is about messages.
  A tap on a carousel is answered by the bot while an admin has the conversation, with
  one request: `carousel.py` does not look at the flag.
* `storefront_cache`: the cache key is shop and question. "How much is it?" asked
  by one customer about one product is answered out of the cache to another who
  talks about another product.

Bounds, and why they are enough. `MaxHour` stops the clock, `LastArrivalHour`
stops deliveries; `BoundAssumption` lets the clock run past every reply window,
and at the bound `NextHour` saturates so that deferred jobs stay due. The reply
windows (7 days, 24 hours) and the cap (180) are scaled to a few hours and one
match: the properties depend on their order only. `Threads` bounds the rows ever
inserted, `MaxMessage` the messages Telegram accepts (then sends are refused,
which may happen at any time anyway), `MaxTime` the clock against the timeout of
1. Two workers, requests, admins and conversations are the fewest that disagree;
three events, of two kinds and two merchants, let one be settled while two
others compete.

`Casts`, `Agendas` and `Topics` choose, at the start of a behaviour, who takes part
and what may come in; within the choice everything interleaves. They are sets of
the situations in which the listed hazards bite, and keep apart only what shares
no row. `MaxTaps`, `MaxLate`, `MaxVersion` and `MaxCodes` bound re-entries, commits
during one request, edits of a post and codes of an account: two of each are enough
for one to be overtaken. `DISPLAY_K` (3 in the code) is 2, the limits of calls (200
and 10) are 2 and 1, and the attempts (5) are 2: the properties compare with them
and do not depend on their size; both limits can be reached first. Times
(`Ttl`, `GenTime`, `RESEND_COOLDOWN`, `CODE_TTL`) keep their order in ticks.
`FieldSets` has the patches of one field.

Deadlock is checked in the runs of the comment pipeline and of the hand-off. The
four others say `CHECK_DEADLOCK FALSE`: with a finished cast, an agenda worked off
or all codes used, nothing more need come in, and the system rests. Symmetry is
used where no liveness property is checked and no definition tells the values
apart: over requests, threads, admins and conversations in `handoff_threads`, over
workers in `comments_faults`, over requests and bots in `onboarding`, over requests
in the storefront's runs.

Fairness (`FairSpec`, used by `comments_live`): weak fairness of each worker's
step, because the loop never blocks for good (BRPOP has a timeout and a job's
calls time out); of `EnqueueComment`, because a handler that committed goes on to
its pushes; of `Tick`. A fault is never required to happen, nor a delivery. The run
has pushes that fail and jobs that raise, but no crashes: a worker that dies again and
again in one job never comes to another, and no fairness of the code excludes it. What
a crash loses is in `JobsKept`.

## 4. Proofs

| Theorem | Says |
|---|---|
| `PipelineTyped` | `Spec => []TypeOK` of the pipeline |
| `PipelineInvariant` | `Spec => []DeliveryInv`, the inductive invariant |
| `NeverTwoDMs`, `StatusIsTruthful` | the two safety invariants, from it |
| `OutcomesAreFinal` | no step rewrites a settled row |
| `JobsKept` | `Spec => []NoJobLost`, for one worker and any faults |
| `CallsCapped` | `Spec => []CallsWithinSlack`, for finitely many workers and `CallsPerMatch >= 2` |
| `PipelineImplementsDelivery` | `Spec => Delivery!Spec` under the refinement mapping |
| `HandoffTyped`, `RoutingSound` | `Spec => []TypeOK`, `Spec => []RoutingInv` of the hand-off |
| `RepliesRouted` | `Spec => []RepliesReachTheirCustomer` |
| `ReleasedForGood` | `Spec => ReleasedStaysReleased`, an action property the refinement covers in the runs |
| `EscalationsKept` | `Spec => EscalationNotLost` |
| `HandoffImplementsDesk` | `Spec => Desk!Spec` under the refinement mapping |
| `MessagesUnansweredOneAtATime` | `Spec => SilentWhileHuman` (of messages, not of taps), for one request at a time |
| `WebsiteTyped` | `Spec => []TypeOK` of the website |
| `OneMerchant`, `StateOnce` | `Spec => []OneMerchantPerAccount`, `Spec => []StateUsedOnce` of the website |
| `TokenAndAccount`, `PageAndAccount` | `Spec => []TokenOfAccount`, `Spec => []PageOfAccount` |
| `Attempts`, `CodeOnce`, `Password` | `Spec => []AttemptsCounted`, `Spec => []CodeSpentOnce`, `Spec => PasswordStays` |
| `Chunks` | `Spec => []ChunksFollowText` |
| `OneFlow`, `Edited` | `Spec => []OneCopy`, `Spec => []EditsKept` |
| `StorefrontTyped` | `Spec => []TypeOK` of the storefront |
| `PriceStays` | `Spec => SetPriceStays`, an action property |
| `ProductsOwn`, `AdminsNotifiedOnce`, `CatalogFollows` | `Spec => []P` for `ProductsFromOwnChannel`, `NotifiedOnce`, `CatalogFollowsChannel` |
| `AnswersAreTimely`, `BudgetDepletes` | `Spec => []CachedAnswerAge`, `Spec => []BudgetNeverSlower` |
| `ContextsInShop`, `OrdinalsMeetCarousels` | `Spec => []ContextInShop`, `Spec => []OrdinalMeetsCarousel` |
| `OnboardingTyped` | `Spec => []TypeOK` of onboarding |
| `AdminsStayBound`, `OneConnectorOnly` | `Spec => AdminSessionBound`, an action property, `Spec => []OneConnector` |
| `DoneComplete`, `TopicsAnswered`, `FaqRowsOnce` | `Spec => []P` for `DoneIsComplete`, `PickedTopicsAnswered`, `FaqRowsNotDoubled` |

They hold for any number of events, web processes, workers, merchants,
conversations, admins, requests, threads, accounts, states, callbacks, visits,
codes, agents, texts, templates, flows, channels, posts and versions, customers,
questions, logs, users, links, bots, verticals and topics, for every limit and life
time, and with all faults, but where the table says otherwise, from `PipelineAssumption`, `BoundAssumption`,
`HandoffAssumption`, `WebsiteAssumption`, `AccountsAssumption`, `ConnectAssumption`,
`AgentsAssumption`, `AutomationsAssumption`, `DashboardAssumption`,
`CatalogAssumption`, `AnsweringAssumption` and `OnboardingAssumption` (which TLC
evaluates on every run).

*Comments.* `AtMostOneDM` is not inductive: a second DM is prevented by who may
process an event, which the status alone does not tell. `DeliveryInv` adds where
the claim on an event is: in one web process's outbox, in one place of the list,
in the sorted set, or in one worker's hands (`OneClaim`); that one worker writes
a row at a time (`OneWriter`); and that a worker's position agrees with the row
and with the DMs (`ProgressAgrees`). The exception is the window of
`comments_two_workers`: a parked job is in the sorted set while its row says
"matched", so a second claimer skips it. That skip loses the job, and is also why
no second DM goes out: safety holds with two workers, delivery does not.

`JobsKept` is about one worker, with all faults (`comments_two_workers` shows why not
two), and about the events no failure dropped. To `DeliveryInv` it adds `ClaimsWait`:
while a job is not parked, what the sorted set holds, and what the worker has claimed
of it, says "deferred" or was dropped by a failure, so the worker skips no other job it
loads. `CallsCapped` holds
with all faults. A match pays for two calls and owes them (`Owed`) until it makes them
or gives up; the hour's calls and those owed are at most what the hour's counter says,
and at most the cap, plus two calls a worker owed from before (`HourInv`). That a match
makes no more calls than it pays for is why it needs `CallsPerMatch >= 2` (the code's
`CALLS_PER_MATCH` is 2).

*Hand-off.* `RoutingInv` says that a message id is kept, in a row or in any
session's copy of it, only on a thread of the admin who got the message and of
the conversation it is about; that inserted rows belong to one request; and that
only open rows are being closed. Routing follows, and so does `ReleasedForGood`:
a commit opens only rows it inserted. `EscalationsKept` needs `FlagInv`: a
request that wrote the flag and means it to be clear had loaded it as set.

The refinement needs `DeskInv` (TLC was asked first): the rows a session inserted,
noted or closes are of the conversation it serves; a row it noted is stored or its
own; and a session that inserted rows means the conversation to be with the admins,
since a release comes before its insertions and never after. `DeskStores` then shows
that a commit is one `Store`: `DeskMoves` takes each thread that looks different
afterwards and finds it opened, closed or holding other messages of its admin, which
is `RoutingInv` after the step. Replies are taken from the thread that holds the
message (`DeskTakesReply`), and a rollback is invisible but for the reply it ends.

`MessagesUnansweredOneAtATime` marks where the counterexample of `handoff_silence` begins. With
one request at a time (`AloneInv`) the flag the request has loaded is the stored one,
and it reaches an answer only with the flag clear or while it hands the conversation
back.

*Instagram connection.* `StepOfConnect` reduces a step of the website to one of the
connection, `ConnectTyped` is the typing with what a callback has at each step. One
merchant per account is then inductive. The others need what the requests in flight
hold: a state that let one callback pass is gone from Redis and from every other
callback (`StateInv`); the refresh script, for a merchant no connect has raced,
holds the token the row has (`TokenInv`); and the posts asked for, like those
cached, are of the token's account (`PageInv`).

*The website's types.* Each part types its rows and what its requests hold at each
step (`ProperVisit`, `ProperSave`, `ProperEdit` and the callbacks of `ConnectTyped`):
what a request writes has its type because what it carries does, which needs a code's
age to be within its life, a row's columns to be those an edit can name, and marked
templates to be templates. `SessionsTyped` adds the sessions, which only an
`OpenSession`, a log-out and the clock touch. `WebsiteTyped` joins the four.
`DashboardAssumption` has a password exist: without one the initial rows would have
none to hold.

*Accounts.* `PasswordStays` needs that a sign-up between its check and its commit
knows whether its account was verified meanwhile (`Overtaken`). The two properties
of a code need `Uncontested`: while no two visits have had a code at once, at most
one visit is at it; one that compares read the count the code still has, below the
limit, and the code is unused; one that opens a session has used it, and none was
opened before; and a code that has opened a session is at no visit. `CodeChanges`
and `VisitLeaves` carry this over every code but the one a step writes.

*Agents.* `SyncInv` follows the request that counts as undisturbed: it is alone at
its agent, holds the agent's text once it has read it, and finds no chunks between
its deletion and its insertion (`InStep`); a call given up before that lands late ends
it. So its end leaves the chunks of the text;
every other end marks the agent, and is held to nothing.

*Automations.* For a template without overlapping requests `Tidy` says that it has at
most one flow and one request, and that the request fits: an installation finds no
flow when it inserts, and an edit carries along, of the columns it was not asked to
change, only what the flow has. `EditsKept` then holds in a stronger form, that the
flows are what was last asked for; `OneCopy` needs that there are finitely many flows.

*Storefront.* Every step moves one request and writes one of catalogue, conversation,
cache or counters (`StepCases`, `CatalogCases`); `Typed` adds to the types what a
request has at each of its steps (`Proper`). Each property then has its invariant:

* `RowInv`, for `SetPriceStays`: a row is flushed and not committed by one ingestion at a
  time, and an ingestion that loaded a price finds one in the row: what it writes may be
  an older price, never none over one.
* `ChannelInv`, for `ProductsFromOwnChannel`: the channel of a post or a forward that
  is being served was the merchant's when it was checked. Backfills are not held to it.
* `NotesInv`, for `NotifiedOnce`: an undisturbed post has one request (`Alone`), and an
  admin Telegram gave a message's id for has a row with it, or a request that is about
  to write it.
* `FollowInv`, for `CatalogFollowsChannel`: updates still in Telegram's hands, or being
  served, are of versions the channel has shown (`ShownInv`); of an undisturbed post
  they are newer than what the product was made of (`NewestOK`), and the one that is
  served has loaded the row as it is (`ServedOK`).
* `AgeInv`, for `CachedAnswerAge`: an answer on its way is as timely as one that was
  sent. An entry's age and the time it has left add up to no more than the life of the
  entry and the call it came from (in `Typed`).
* `BudgetInv`, for `BudgetNeverSlower`: a shop's calls and its requests between the two
  counters are together within the counter and the limit. Without the requests in between
  it is not inductive: the merchant's counter moves a step before the call.
* `ShopInv`, for `ContextInShop`: carousels, and what contexts and requests hold of them,
  are of the shop; a context's last product is, or the provider named it (`Leads`). It
  stays so since a product never changes its shop (`OwnsKept`) and what was named stays
  named (`NamedGrows`).
* `SeenInv`, for `OrdinalMeetsCarousel`: for a customer who is not blurred, one request at
  most has a carousel to store; while none has, the stored carousel is the one seen; and a
  request leaves the carousel it loaded or the one it sent (`Clear`, `Keeps`), so its
  whole-column write changes no carousel but its own.

*Onboarding.* Ten lemmas (`ShopNameCommits` to `SettingCommits`) reduce the handlers of
the dialogue to one form, `Commits`: a `Save` that moves the session along the chart and
adds to the row (`Writes`). So a step is one of four: it writes no row (`Reads`), writes a
session that is not connected yet (`Greets`), connects a user (`Attaches`), or `Commits`.
A user who is no admin is before the end of the token step, and has no request beyond it
(`Young`). `OneConnector` needs that an admin's merchant has a bot (`HasBots`):
an undisturbed token finds it. `AdminSessionBound` is an action property: no step looses a
session that was bound, nor connects a user and leaves the session loose, unless it
crosses the token step (`LooseStep`, from what `Merge` writes). For the next ones,
sessions and requests beyond the token step are at their user's merchant as long as no
session was led elsewhere (`SessionsBound`, `RequestsBound`). For `DoneIsComplete`, `GivenInv` says what a
session in each state, and each request that is served, implies about the row: vertical
and source are never taken back, so a late commit keeps them (`Kept`), while the profile
is written whole, so topics and tone are kept for `Smooth` users only. Topics that were
picked are answered or await their answer in the session's data (`TopicsFollowed`).
For `FaqRowsNotDoubled`, while nobody's commit was overtaken and no session led elsewhere, a merchant without an
admin has no rows (`Untold`), and one whose admin has not come to the end of the topics
for the first time neither (`ToldOnce`).
That a tick taken back is gone uses that the first of its places exists
(`FirstPlace`, by the well-foundedness of `<`).

What stays with TLC: liveness (`EveryEventSettles`), which is out of the provers'
reach with anything that uses ENABLED. Every other property of a passing run is the
statement of a theorem. Induction over data and recursive operators cannot be proved
about either; the modules with theorems have none.

## 5. Not modelled, and the plan

Left out for good: text normalisation, language detection and price parsing
(string conversions that examples test well), embeddings and similarity search
(their answer is any choice), LLM providers, templates and pages, configuration,
migrations, and the seeding and loading scripts.

Left out of modelled components:

* An admin's reply that states a price: `onboarding/router.py:157` assigns the pair
  `parse_price` returns to the price column, and the commit fails every time, in
  any order of events. The product goes on waiting for an edit of its post, which
  is what the model has.
* A typed `/reply`, which names its customer itself; the log of messages, which
  nothing modelled reads back; the language settings.
* The first two messages of a new customer are one after the other in `Answering`:
  the unique constraint makes the second request fail and be delivered again.

Next: pure modules with reference definitions, checked over bounded inputs:
`chunk_text`, `match_flow`, the ordinal resolution and the carousel's ranking. Until
then their results are any choice, which is what the properties above hold for.
