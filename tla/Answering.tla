------------------------------- MODULE Answering -------------------------------
(***************************************************************************)
(* The customers' side of the tenant webhook (app/telegram/webhook.py,     *)
(* receive_update): a text is answered by an ordinal of the last carousel, *)
(* by the layers (flow, FAQ, intent), or by the LLM through its cache and  *)
(* its daily budget (app/llm); a photo by a carousel (app/image_search),   *)
(* whose buttons come back as taps; a forward or link by the catalogue     *)
(* (module Catalog).                                                       *)
(*                                                                         *)
(* What an answer is about stands for its text.  A message swallowed while *)
(* a human has the conversation (module Handoff) is one not received here. *)
(***************************************************************************)
EXTENDS Catalog

CONSTANTS
  DISPLAY_K,     \* products in a carousel
  Logs,          \* ids of image_match_logs
  LlmFirst,      \* merchants in pipeline_mode "llm_first"; the others: "layered"
  DAILY_MERCHANT_CALL_LIMIT, DAILY_CUSTOMER_CALL_LIMIT,
  Ttl,           \* ticks a cached answer lives, in each mode
  GenTime        \* ticks a call of the provider may take, in each mode:
                 \* _generate_with_timeout's, and the SDK's own with its retries

Ordinals == 1..DISPLAY_K
Questions == Posts \cup {It} \cup Ordinals
Life(m) == IF m \in LlmFirst THEN Ttl.llm_first ELSE Ttl.layered
Patience(m) == IF m \in LlmFirst THEN GenTime.llm_first ELSE GenTime.layered

ASSUME AnsweringAssumption ==
  /\ DISPLAY_K \in Nat
  /\ GenTime \in [llm_first : Nat, layered : Nat]
  /\ DAILY_MERCHANT_CALL_LIMIT \in Nat /\ DAILY_CUSTOMER_CALL_LIMIT \in Nat
  /\ LlmFirst \subseteq Merchants
  /\ Ttl \in [llm_first : Nat \ {0}, layered : Nat \ {0}]
  /\ Merchants \cap Customers = {}
  /\ Posts \cap Ordinals = {} /\ It \notin Posts \cup Ordinals
  /\ None \notin Logs \cup Ordinals /\ None # "ordinal"

VARIABLES
  known,    \* customers with a row and a conversation
  ctx,      \* conversations.context: last_matched_product_id, last_candidates
  logs,     \* image_match_logs: "sent" (its buttons are out) or "kept" (committed)
  cache,    \* Redis: the answer to a question of a merchant's customers: what it is
            \* about, how long ago it was grounded, how long it still lives
  spent,    \* Redis: the day's counters of merchants and customers
  calls,    \* history: calls of the provider made for merchants and customers
  named,    \* history: the products the provider named in a customer's answers
  seen,     \* history: the carousel a customer was last sent
  blurred   \* history: customers whose stored context may lack what they saw: a request
            \* came in, or sent a carousel, while a carousel was not stored yet, lost
            \* a carousel, or wrote the context over another's change

answerVars == <<known, ctx, logs, cache, spent, calls, named, seen, blurred>>
vars == <<catalogVars, req, rough, answerVars>>

NoEntry == [about |-> None, age |-> 0, left |-> 0]
NoLog == [c |-> None, shown |-> <<>>, state |-> "free"]

Init ==
  /\ CatalogInit
  /\ known = {}
  /\ ctx = [c \in Customers |-> NoContext]
  /\ logs = [l \in Logs |-> NoLog]
  /\ cache = [m \in Merchants |-> [q \in Questions |-> NoEntry]]
  /\ spent = [x \in Merchants \cup Customers |-> 0]
  /\ calls = [x \in Merchants \cup Customers |-> 0]
  /\ named = [c \in Customers |-> {}]
  /\ seen = [c \in Customers |-> <<>>]
  /\ blurred = {}

-----------------------------------------------------------------------------
(* Messages coming in.                                                      *)

Busy(c) == \E q \in Requests : req[q].c = c

\* A carousel is out and not stored yet.
Sending(c) == \E q \in Requests : req[q].c = c /\ req[q].log # None
Blur(c, when) == blurred' = IF when THEN blurred \cup {c} ELSE blurred

\* A customer's first message inserts the customer: an overlapping second one waits
\* for the unique constraint, fails and is delivered again.
Enter(c) ==
  /\ c \in agenda.who
  /\ c \in known \/ ~Busy(c)
  /\ Blur(c, Sending(c))
  /\ UNCHANGED <<known, ctx, logs, cache, spent, calls, named, seen>>

Asking(kind, c) ==
  [Idle EXCEPT !.kind = kind, !.step = kind, !.m = ShopOf[c], !.c = c,
               !.ctx = ctx[c], !.new = ctx[c]]

\* The product a question is about: the one named, "it" in the conversation, or the
\* one at that place of the carousel the customer has seen.
Meant(c, q) ==
  CASE q \in Posts -> q
    [] q = It -> ctx[c].last
    [] OTHER -> IF q <= Len(seen[c]) THEN seen[c][q] ELSE None

ReceiveText(r, c, q) ==
  /\ Enter(c)
  /\ q \in agenda.asks
  /\ Begin(r, [Asking("text", c) EXCEPT !.q = q, !.aim = Meant(c, q)])
  /\ UNCHANGED catalogVars

ReceivePhoto(r, c) ==
  /\ Enter(c)
  /\ Begin(r, Asking("photo", c))
  /\ UNCHANGED catalogVars

\* handle_callback_query, confirm: the log must be committed (a tap that comes
\* before it is told that the request has expired), and the product exist.
ReceiveTap(r, l, p) ==
  LET c == logs[l].c IN
    /\ logs[l].state = "kept"
    /\ product[p].owner # None
    /\ Enter(c)
    /\ Begin(r, [Asking("tap", c) EXCEPT !.step = "reply", !.new.last = p])
    /\ UNCHANGED catalogVars

Forward(r, c, p, v) == Enter(c) /\ ReceiveForward(r, c, p, v, ctx[c])

Link(r, c, p) == Enter(c) /\ ReceiveLink(r, c, p, ctx[c])

-----------------------------------------------------------------------------
(* Answering.                                                               *)

\* The reply is decided: how, about which product, from how long ago.
Answer(r, new, how, p, age) ==
  req' = [req EXCEPT ![r].step = "reply", ![r].new = new, ![r].at = 0,
    ![r].said = [how |-> how, apt |-> p = req[r].aim, age |-> age]]

\* A canned reply, or the hand-off's.
Reply(r) == req' = [req EXCEPT ![r].step = "reply", ![r].at = 0]

RestOfCatalog == UNCHANGED <<catalogVars, rough>>

\* ordinal.resolve: only when a carousel is in the context.
ByOrdinal(rec) == rec.q \in Ordinals /\ rec.q <= Len(rec.ctx.shown)

OrdinalReply(r) ==
  LET rec == req[r] IN
    /\ rec.step = "text"
    /\ ByOrdinal(rec)
    /\ Answer(r, rec.ctx, "ordinal", rec.ctx.shown[rec.q], 0)
    /\ RestOfCatalog
    /\ UNCHANGED <<known, ctx, logs, cache, spent, calls, named, seen, blurred>>

\* Layered mode: match_flow, match_faq or route_intent has a reply.
LayerReply(r) ==
  LET rec == req[r] IN
    /\ rec.step = "text"
    /\ ~ByOrdinal(rec)
    /\ rec.m \notin LlmFirst
    /\ Reply(r)
    /\ RestOfCatalog
    /\ UNCHANGED answerVars

Entry(rec) == cache[rec.m][rec.q]

\* A cached answer's life starts again when it is used.
MutantCacheHit(r) ==
  LET rec == req[r] IN
    /\ rec.step = "text"
    /\ ~ByOrdinal(rec)
    /\ Entry(rec) # NoEntry
    /\ Answer(r, rec.ctx, "cache", Entry(rec).about, Entry(rec).age)
    /\ cache' = [cache EXCEPT ![rec.m][rec.q].left = Life(rec.m)]
    /\ RestOfCatalog
    /\ UNCHANGED <<known, ctx, logs, spent, calls, named, seen, blurred>>

CacheHit(r) ==
  LET rec == req[r] IN
    /\ rec.step = "text"
    /\ ~ByOrdinal(rec)
    /\ Entry(rec) # NoEntry
    /\ Answer(r, rec.ctx, "cache", Entry(rec).about, Entry(rec).age)
    /\ RestOfCatalog
    /\ UNCHANGED <<known, ctx, logs, cache, spent, calls, named, seen, blurred>>

\* INCR; a counter above its limit need not be counted further.
Incr(x, limit) == spent' = [spent EXCEPT ![x] = IF @ > limit THEN @ ELSE @ + 1]

\* check_and_consume_budget, the merchant's counter, after a cache miss.
TakeMerchant(r) ==
  LET rec == req[r] IN
    /\ rec.step = "text"
    /\ ~ByOrdinal(rec)
    /\ Entry(rec) = NoEntry
    /\ Incr(rec.m, DAILY_MERCHANT_CALL_LIMIT)
    /\ IF spent'[rec.m] > DAILY_MERCHANT_CALL_LIMIT THEN Reply(r)
       ELSE req' = [req EXCEPT ![r].step = "customer"]
    /\ RestOfCatalog
    /\ UNCHANGED <<known, ctx, logs, cache, calls, named, seen, blurred>>

\* The limit compared with the count before the call's own.
MutantTakeCustomer(r) ==
  LET rec == req[r] IN
    /\ rec.step = "customer"
    /\ Incr(rec.c, DAILY_CUSTOMER_CALL_LIMIT)
    /\ IF spent[rec.c] > DAILY_CUSTOMER_CALL_LIMIT
       THEN Reply(r) /\ UNCHANGED calls
       ELSE /\ req' = [req EXCEPT ![r].step = "generate"]
            /\ calls' = [calls EXCEPT ![rec.m] = @ + 1, ![rec.c] = @ + 1]
    /\ RestOfCatalog
    /\ UNCHANGED <<known, ctx, logs, cache, named, seen, blurred>>

\* The customer's counter; below its limit the context is built and the provider
\* called.
TakeCustomer(r) ==
  LET rec == req[r] IN
    /\ rec.step = "customer"
    /\ Incr(rec.c, DAILY_CUSTOMER_CALL_LIMIT)
    /\ IF spent'[rec.c] > DAILY_CUSTOMER_CALL_LIMIT
       THEN Reply(r) /\ UNCHANGED calls
       ELSE /\ req' = [req EXCEPT ![r].step = "generate"]
            /\ calls' = [calls EXCEPT ![rec.m] = @ + 1, ![rec.c] = @ + 1]
    /\ RestOfCatalog
    /\ UNCHANGED <<known, ctx, logs, cache, named, seen, blurred>>

\* What the provider is given to resolve the question: in llm_first mode the
\* conversation's last product, in layered mode nothing of the conversation.
Subject(rec) ==
  CASE rec.q \in Posts -> rec.q
    [] rec.q = It /\ rec.m \in LlmFirst -> rec.ctx.last
    [] OTHER -> None

\* The product the provider's result refers to, if any: in llm_first mode it becomes
\* the conversation's last, whichever shop has it (the log's foreign key asks for a
\* product).
Names(rec, ref) ==
  /\ ref # None => rec.m \in LlmFirst /\ product[ref].owner # None
  /\ named' = IF ref = None THEN named ELSE [named EXCEPT ![rec.c] = @ \cup {ref}]

Noting(context, ref) == IF ref = None THEN context ELSE [context EXCEPT !.last = ref]

\* An answerable result, from the products given to the provider: cached.
Generate(r, ref) ==
  LET rec == req[r]
      p == Subject(rec)
  IN /\ rec.step = "generate"
     /\ p # None
     /\ p = rec.ctx.last \/ SeenBy(rec.m, p) # NoProduct
     /\ Names(rec, ref)
     /\ cache' = [cache EXCEPT ![rec.m][rec.q] =
          [about |-> p, age |-> rec.at, left |-> Life(rec.m)]]
     /\ Answer(r, Noting(rec.ctx, ref), "llm", p, rec.at)
     /\ RestOfCatalog
     /\ UNCHANGED <<known, ctx, logs, spent, calls, seen, blurred>>

\* Not answerable (the product it names is noted all the same), an error or a timeout:
\* the hand-off answers.
GenerateNothing(r, ref) ==
  LET rec == req[r] IN
    /\ rec.step = "generate"
    /\ Names(rec, ref)
    /\ req' = [req EXCEPT ![r].step = "reply", ![r].at = 0, ![r].new = Noting(rec.ctx, ref)]
    /\ RestOfCatalog
    /\ UNCHANGED <<known, ctx, logs, cache, spent, calls, seen, blurred>>

\* The candidates are put after those of the carousel before.
MutantSendCarousel(r, l, shown) ==
  LET rec == req[r] IN
    /\ rec.step = "photo"
    /\ logs[l].state = "free"
    /\ \A i \in 1..Len(shown) : SeenBy(rec.m, shown[i]) # NoProduct
    /\ logs' = [logs EXCEPT ![l] = [c |-> rec.c, shown |-> shown, state |-> "sent"]]
    /\ seen' = [seen EXCEPT ![rec.c] = shown]
    /\ Blur(rec.c, Sending(rec.c))
    /\ req' = [req EXCEPT ![r].step = "reply", ![r].log = l,
                          ![r].new.shown = IF @ = <<>> THEN shown ELSE @]
    /\ RestOfCatalog
    /\ UNCHANGED <<known, ctx, cache, spent, calls, named>>

\* handle_photo_message: the buttons are out before the log is committed.
SendCarousel(r, l, shown) ==
  LET rec == req[r] IN
    /\ rec.step = "photo"
    /\ logs[l].state = "free"
    /\ \A i \in 1..Len(shown) : SeenBy(rec.m, shown[i]) # NoProduct
    /\ logs' = [logs EXCEPT ![l] = [c |-> rec.c, shown |-> shown, state |-> "sent"]]
    /\ seen' = [seen EXCEPT ![rec.c] = shown]
    /\ Blur(rec.c, Sending(rec.c))
    /\ req' = [req EXCEPT ![r].step = "reply", ![r].log = l, ![r].new.shown = shown]
    /\ RestOfCatalog
    /\ UNCHANGED <<known, ctx, cache, spent, calls, named>>

\* No candidate above FLOOR, or no photo: the hand-off, for a payment if a product
\* was talked about.
NoCarousel(r) ==
  /\ req[r].step = "photo"
  /\ Reply(r)
  /\ RestOfCatalog
  /\ UNCHANGED answerVars

-----------------------------------------------------------------------------
(* Commit and failure.                                                      *)

\* context is one column: written whole, when the request changed it (a carousel
\* puts its log's id there, too).
StoreContext(rec) ==
  LET changed == rec.new # rec.ctx \/ rec.log # None IN
    /\ ctx' = IF changed THEN [ctx EXCEPT ![rec.c] = rec.new] ELSE ctx
    /\ Blur(rec.c, changed /\ ctx[rec.c] # rec.ctx)
    /\ known' = known \cup {rec.c}

Commit(r) ==
  LET rec == req[r] IN
    /\ rec.step = "reply"
    /\ StoreContext(rec)
    /\ logs' = IF rec.log = None THEN logs ELSE [logs EXCEPT ![rec.log].state = "kept"]
    /\ req' = [req EXCEPT ![r] = Idle]
    /\ RestOfCatalog
    /\ UNCHANGED <<cache, spent, calls, named, seen>>

CommitCatalog(r) ==
  LET rec == req[r] IN
    /\ StoreCatalog(r)
    /\ IF rec.c = None THEN UNCHANGED answerVars
       ELSE /\ StoreContext(rec)
            /\ UNCHANGED <<logs, cache, spent, calls, named, seen>>

\* Nothing of the request is stored; buttons that are out lead nowhere.
Fail(r) ==
  LET rec == req[r] IN
    /\ LoseCatalog(r)
    /\ Blur(rec.c, rec.log # None)
    /\ logs' = IF rec.log = None THEN logs ELSE [logs EXCEPT ![rec.log] = NoLog]
    /\ UNCHANGED <<known, ctx, cache, spent, calls, named, seen>>

\* Time passes: entries age and expire; calls in flight take time, and none outlives
\* its timeout.
Timed(r) == req[r].step = "generate"

Aged(e) == IF e.left <= 1 THEN NoEntry ELSE [e EXCEPT !.age = @ + 1, !.left = @ - 1]

\* No timeout on the call.
MutantTick ==
  /\ req' = [r \in Requests |-> IF Timed(r) THEN [req[r] EXCEPT !.at = @ + 1] ELSE req[r]]
  /\ cache' = [m \in Merchants |-> [q \in Questions |-> Aged(cache[m][q])]]
  /\ RestOfCatalog
  /\ UNCHANGED <<known, ctx, logs, spent, calls, named, seen, blurred>>

Tick ==
  /\ \A r \in Requests : Timed(r) => req[r].at < Patience(req[r].m)
  /\ req' = [r \in Requests |-> IF Timed(r) THEN [req[r] EXCEPT !.at = @ + 1] ELSE req[r]]
  /\ cache' = [m \in Merchants |-> [q \in Questions |-> Aged(cache[m][q])]]
  /\ RestOfCatalog
  /\ UNCHANGED <<known, ctx, logs, spent, calls, named, seen, blurred>>

Carousels == {s \in UNION {[1..n -> Posts] : n \in 1..DISPLAY_K} :
                \A i, j \in DOMAIN s : i # j => s[i] # s[j]}

CatalogStep ==
  /\ \/ \E p \in Posts : Post(p)
     \/ \E r \in Requests, m \in Merchants, p \in Posts, v \in Versions :
          ReceivePost(r, m, p, v) \/ IgnorePost(r, m, p, v)
     \/ \E r \in Requests, a \in Admins, p \in Posts, v \in Versions :
          ReceiveBackfill(r, a, p, v)
     \/ \E r \in Requests : Flush(r)
     \/ \E r \in Requests, a \in Admins, row \in {"none", "told", "silent"}, how \in {"told", "lost", "refused"} :
          Notify(r, a, row, how)
  /\ UNCHANGED answerVars

\* The buttons under a carousel (_confirm_button): what a tap can bring.
Buttons(l) == {logs[l].shown[i] : i \in DOMAIN logs[l].shown}

Incoming(r) ==
  \/ \E c \in Customers, q \in Questions : ReceiveText(r, c, q)
  \/ \E c \in Customers : ReceivePhoto(r, c)
  \/ \E l \in Logs : \E p \in Buttons(l) : ReceiveTap(r, l, p)
  \/ \E c \in Customers, p \in Posts, v \in Versions : Forward(r, c, p, v)
  \/ \E c \in Customers, p \in Posts : Link(r, c, p)

Working(r) ==
  \/ OrdinalReply(r) \/ LayerReply(r) \/ CacheHit(r)
  \/ TakeMerchant(r) \/ TakeCustomer(r)
  \/ \E ref \in Posts \cup {None} : Generate(r, ref) \/ GenerateNothing(r, ref)
  \/ \E l \in Logs, s \in Carousels : SendCarousel(r, l, s)
  \/ NoCarousel(r)
  \/ Commit(r) \/ CommitCatalog(r) \/ Fail(r)

Next == CatalogStep \/ Tick \/ \E r \in Requests : Incoming(r) \/ Working(r)

Spec == Init /\ [][Next]_vars

-----------------------------------------------------------------------------
(* Properties.                                                              *)

Contexts == [last : Posts \cup {None}, shown : Carousels \cup {<<>>}]
Products == [owner : Merchants \cup {None}, text : 0..MaxVersion, price : 0..MaxVersion,
             status : {None, "missing", "set"}]
Answers == [how : {None, "ordinal", "cache", "llm"}, apt : BOOLEAN, age : Nat]
RequestRecords ==
  [kind : Kinds \cup {"idle"},
   step : {"idle", "load", "notify", "text", "photo", "customer", "generate", "reply"},
   m : Merchants \cup {None}, c : Customers \cup {None}, post : Posts \cup {None},
   ver : 0..MaxVersion, chan : Channels \cup {None}, old : Products,
   todo : SUBSET Admins,
   made : SUBSET (Admins \X {"none", "silent", "told"} \X {"told", "silent"}),
   ctx : Contexts, new : Contexts, q : Questions \cup {None}, aim : Posts \cup {None},
   log : Logs \cup {None}, at : Nat, said : Answers]
LogRows == [c : Customers \cup {None}, shown : Carousels \cup {<<>>},
            state : {"free", "sent", "kept"}]

\* The variables' types: counters no higher than one above their limits, an entry's
\* age within its life, a query's rows told or silent.
TypeOK ==
  /\ agenda \in Agendas
  /\ version \in [Posts -> 0..MaxVersion]
  /\ inbox \in [Merchants -> [Posts -> SUBSET Versions]]
  /\ channel \in [Merchants -> Channels \cup {None}]
  /\ product \in [Posts -> Products]
  /\ open \in [Admins -> [Posts -> SUBSET {"told", "silent"}]]
  /\ req \in [Requests -> RequestRecords]
  /\ heard \in [Merchants -> SUBSET Channels]
  /\ backfilled \subseteq Posts
  /\ notes \in [Admins -> [Posts -> 0..2]]
  /\ newest \in [Posts -> 0..MaxVersion]
  /\ rough \subseteq Posts
  /\ known \subseteq Customers
  /\ ctx \in [Customers -> Contexts]
  /\ logs \in [Logs -> LogRows]
  /\ \A m \in Merchants, q \in Questions :
       cache[m][q] \in [about : Posts \cup {None}, age : 0..Life(m) + Patience(m),
                        left : 0..Life(m)]
  /\ \A m \in Merchants : spent[m] \in 0..DAILY_MERCHANT_CALL_LIMIT + 1
  /\ \A c \in Customers : spent[c] \in 0..DAILY_CUSTOMER_CALL_LIMIT + 1
  /\ calls \in [Merchants \cup Customers -> Nat]
  /\ named \in [Customers -> SUBSET Posts]
  /\ seen \in [Customers -> Carousels \cup {<<>>}]
  /\ blurred \subseteq Customers

\* No answer a customer gets was grounded longer ago than the cache keeps an answer
\* and the call may take: an edited catalogue is quoted stale no longer than that
\* (set_cached_answer's ttl, _TIMEOUT_SECONDS, the SDK's timeout).
CachedAnswerAge ==
  \A r \in Requests : LET rec == req[r] IN rec.said.how # None =>
    rec.said.age <= Life(rec.m) + Patience(rec.m)

\* The provider is never called more often than either counter says, nor than
\* either limit allows, however the requests interleave: the budget depletes faster
\* than the calls, never slower (check_and_consume_budget).
BudgetNeverSlower ==
  /\ \A c \in Customers : calls[c] <= spent[c] /\ calls[c] <= DAILY_CUSTOMER_CALL_LIMIT
  /\ \A m \in Merchants : calls[m] <= spent[m] /\ calls[m] <= DAILY_MERCHANT_CALL_LIMIT

\* A conversation's context only ever points into the catalogue of its own shop,
\* whatever posts the customer forwards and whoever else has them as products
\* (_resolve_and_answer_product, find_candidates, find_text_candidates), except where
\* the provider itself named another shop's product (_log stores what it returns).
ContextInShop ==
  \A c \in Customers :
    /\ ctx[c].last \notin named[c] \cup {None} => product[ctx[c].last].owner = ShopOf[c]
    /\ \A i \in DOMAIN ctx[c].shown : product[ctx[c].shown[i]].owner = ShopOf[c]

\* "The second one" is answered about the second product of the carousel the customer
\* had seen when asking, however that customer's messages, photos, taps and links
\* overlap and fail, unless a carousel was still being stored, was lost, or the context
\* was written over another's change (ordinal.resolve, handle_photo_message,
\* _handle_confirm, _resolve_and_answer_product, _log).
OrdinalMeetsCarousel ==
  \A r \in Requests :
    req[r].c \in Customers \ blurred /\ req[r].said.how = "ordinal" => req[r].said.apt

\* Any answer is about the product the question means in its conversation: the prompt
\* answers only from the conversation it is given, but a cached answer is given to
\* another conversation (get_cached_answer).
AnswerMeetsQuestion ==
  \A r \in Requests : req[r].c \notin blurred => req[r].said.apt
=============================================================================
