-------------------------------- MODULE Catalog --------------------------------
(***************************************************************************)
(* The catalogue of a shop, filled from its Telegram channel: channel      *)
(* posts and their edits, an admin's backfill forwards, a customer's       *)
(* forward or link (app/telegram/webhook.py), ingest_post                  *)
(* (app/products/ingestion.py) and the price queries sent to the admins    *)
(* (app/handoff/service.py, queue_price_query).                            *)
(*                                                                         *)
(* A request loads the merchant and the product (Receive...), downloads    *)
(* and embeds, writes both in its transaction (Flush, which locks the      *)
(* rows and meets the unique constraints), notifies the admins one by one, *)
(* and commits.  A request that fails is delivered again by Telegram.      *)
(* A post's text is the version of it; prices are the version that states  *)
(* them.  Module Answering adds the customers' side and the next-state     *)
(* relation.                                                               *)
(***************************************************************************)
EXTENDS Integers, Sequences, FiniteSets

CONSTANTS
  Merchants, Channels, Posts, Admins, Customers,
  Requests,    \* threads serving the tenant webhook
  ChannelOf,   \* the channel of a post
  AdminOf,     \* the merchant an admin administers
  ShopOf,      \* the merchant a customer writes to
  BotIn,       \* pairs <<m, ch>>: m's bot is an admin of channel ch
  Priced,      \* pairs <<p, v>>: version v of post p states a price
  MaxVersion,  \* bound: versions of a post
  Agendas,     \* bound: the kinds of updates that come in one behaviour, the versions
               \* its posts get, the posts that are products at its start, who writes
               \* and what is asked
  It,          \* a question about "it": the product talked about
  None

Versions == 1..MaxVersion
Kinds == {"post", "backfill", "forward", "link", "text", "photo", "tap"}

ASSUME CatalogAssumption ==
  /\ MaxVersion \in Nat \ {0} /\ Priced \subseteq Posts \X Versions
  /\ ChannelOf \in [Posts -> Channels]
  /\ AdminOf \in [Admins -> Merchants]
  /\ ShopOf \in [Customers -> Merchants]
  /\ BotIn \subseteq Merchants \X Channels
  /\ None \notin Merchants \cup Channels \cup Posts \cup Admins \cup Customers
  /\ None \notin {"missing", "set"}
  /\ Agendas \subseteq [kinds : SUBSET Kinds, feed : [Posts -> 0..MaxVersion],
                        stock : [Posts -> Merchants \cup {None}], who : SUBSET Customers,
                        asks : SUBSET (Posts \cup {It} \cup Nat)]
  \* A shop's stock is from one channel, and a channel is one shop's.
  /\ \A g \in Agendas : \A p, q \in {o \in Posts : g.stock[o] # None} :
       g.stock[p] = g.stock[q] <=> ChannelOf[p] = ChannelOf[q]

VARIABLES
  agenda,    \* the member of Agendas
  version,   \* the version of each post its channel shows; 0: not posted yet
  inbox,     \* channel_post updates Telegram still has for a merchant's bot
  channel,   \* merchants.source_channel_id
  product,   \* products: merchant, the version name and description come from,
             \* the version the price comes from (0: none), price_status
  open,      \* pending_admin_replies of kind "price_query" that are open, per
             \* admin and product: "told" with a message's id, "silent" without
  req,       \* per request: what it serves, loaded, and has written so far
  heard,     \* history: the channels registered for a merchant
  backfilled,\* history: posts a backfill was ingested for
  notes,     \* history: notifications of a price query from the first whose answer
             \* Telegram gave, counted up to two
  newest,    \* history: the newest version a channel_post update was ingested with
  rough      \* history: posts with a request that failed or overlapped another

stored == <<channel, product, open, heard, backfilled, newest>>
catalogVars == <<agenda, version, inbox, stored, notes>>

NoProduct == [owner |-> None, text |-> 0, price |-> 0, status |-> None]
NoAnswer == [how |-> None, apt |-> TRUE, age |-> 0]
NoContext == [last |-> None, shown |-> <<>>]
Idle == [kind |-> "idle", step |-> "idle", m |-> None, c |-> None, post |-> None,
         ver |-> 0, chan |-> None, old |-> NoProduct, todo |-> {}, made |-> {},
         ctx |-> NoContext, new |-> NoContext, q |-> None, aim |-> None, log |-> None,
         at |-> 0, said |-> NoAnswer]

CatalogInit ==
  /\ agenda \in Agendas
  /\ version = [p \in Posts |-> IF agenda.stock[p] = None THEN 0 ELSE 1]
  /\ inbox = [m \in Merchants |-> [p \in Posts |-> {}]]
  /\ channel = [m \in Merchants |->
       IF \E p \in Posts : agenda.stock[p] = m
       THEN ChannelOf[CHOOSE p \in Posts : agenda.stock[p] = m] ELSE None]
  /\ product = [p \in Posts |->
       IF agenda.stock[p] = None THEN NoProduct
       ELSE [owner |-> agenda.stock[p], text |-> 1, price |-> 1, status |-> "set"]]
  /\ open = [a \in Admins |-> [p \in Posts |-> {}]]
  /\ req = [r \in Requests |-> Idle]
  /\ heard = [m \in Merchants |-> {channel[m]} \ {None}]
  /\ backfilled = {}
  /\ notes = [a \in Admins |-> [p \in Posts |-> 0]]
  /\ newest = [p \in Posts |-> 0]
  /\ rough = {}

\* What a query of merchant m for post p finds.
MutantSeenBy(m, p) == product[p]

SeenBy(m, p) == IF product[p].owner = m THEN product[p] ELSE NoProduct

AdminsOf(m) == {a \in Admins : AdminOf[a] = m}

Begin(r, rec) ==
  /\ req[r] = Idle
  /\ rec.kind \in agenda.kinds
  /\ req' = [req EXCEPT ![r] = rec]
  /\ rough' = IF rec.post # None /\ \E q \in Requests : req[q].post = rec.post
              THEN rough \cup {rec.post} ELSE rough

-----------------------------------------------------------------------------
(* What sets a request off.                                                 *)

\* The channel shows a new post or an edit of it; every bot in the channel gets
\* an update.
Post(p) ==
  /\ version[p] < agenda.feed[p]
  /\ version' = [version EXCEPT ![p] = @ + 1]
  /\ inbox' = [m \in Merchants |-> [inbox[m] EXCEPT ![p] =
       IF <<m, ChannelOf[p]>> \in BotIn THEN @ \cup {version[p] + 1} ELSE @]]
  /\ UNCHANGED <<agenda, stored, req, notes, rough>>

Ingesting(kind, m, p, v) ==
  [Idle EXCEPT !.kind = kind, !.step = "load", !.m = m, !.post = p, !.ver = v,
               !.chan = channel[m], !.old = SeenBy(m, p)]

\* _verify_or_check_source_channel: the first signal registers the channel.
ChannelPasses(m, p) == channel[m] \in {None, ChannelOf[p]}

\* The oldest update Telegram has for m's bot and post p.
Delivered(m, p, v) ==
  /\ v \in inbox[m][p]
  /\ \A w \in inbox[m][p] : v <= w
  /\ inbox' = [inbox EXCEPT ![m][p] = @ \ {v}]

\* _handle_channel_post: only the registered channel is ingested.
ReceivePost(r, m, p, v) ==
  /\ Delivered(m, p, v)
  /\ ChannelPasses(m, p)
  /\ Begin(r, Ingesting("post", m, p, v))
  /\ UNCHANGED <<agenda, version, stored, notes>>

MutantIgnorePost(r, m, p, v) ==
  /\ Delivered(m, p, v)
  /\ ~ChannelPasses(m, p)
  /\ Begin(r, Ingesting("post", m, p, v))
  /\ UNCHANGED <<agenda, version, stored, notes>>

IgnorePost(r, m, p, v) ==
  /\ Delivered(m, p, v)
  /\ ~ChannelPasses(m, p)
  /\ req[r] = Idle
  /\ UNCHANGED <<agenda, version, stored, req, notes, rough>>

\* _handle_admin_backfill_forward of a message that may show an older version: the
\* channel is checked, and registered if it is the first, but the post is ingested
\* whatever the check says.
ReceiveBackfill(r, a, p, v) ==
  /\ v \in 1..version[p]
  /\ Begin(r, Ingesting("backfill", AdminOf[a], p, v))
  /\ UNCHANGED catalogVars

\* A customer's pointer to a product the shop has: nothing to ingest.
Known(kind, c, p, ctx) ==
  LET row == SeenBy(ShopOf[c], p) IN
    [Idle EXCEPT !.kind = kind, !.step = "notify", !.m = ShopOf[c], !.c = c, !.post = p,
                 !.old = row,
                 !.todo = IF row.status = "set" THEN {} ELSE AdminsOf(ShopOf[c]),
                 !.ctx = ctx, !.new = [ctx EXCEPT !.last = p]]

\* _resolve_and_answer_product for a forward, which may be of an older version: a
\* known product is answered, an unknown one of the shop's own channel is ingested
\* first, any other forward is left to the layers below.
ReceiveForward(r, c, p, v, ctx) ==
  LET m == ShopOf[c] IN
    /\ v \in 1..version[p]
    /\ IF SeenBy(m, p) # NoProduct THEN Begin(r, Known("forward", c, p, ctx))
       ELSE /\ channel[m] = ChannelOf[p]
            /\ Begin(r, [Ingesting("forward", m, p, v) EXCEPT
                           !.c = c, !.ctx = ctx, !.new = [ctx EXCEPT !.last = p]])
    /\ UNCHANGED catalogVars

\* A link only leads into the shop's own channel, and only to a known product.
ReceiveLink(r, c, p, ctx) ==
  /\ channel[ShopOf[c]] = ChannelOf[p]
  /\ SeenBy(ShopOf[c], p) # NoProduct
  /\ Begin(r, Known("link", c, p, ctx))
  /\ UNCHANGED catalogVars

-----------------------------------------------------------------------------
(* Ingestion, notifications, commit.                                        *)

\* ingest_post: text and embedding follow the post, a price only when it states
\* one; "missing" is for a new product without.
MutantStatus(old, m, p, v) ==
  [owner |-> m, text |-> v,
   price |-> IF <<p, v>> \in Priced THEN v ELSE old.price,
   status |-> IF <<p, v>> \in Priced THEN "set" ELSE "missing"]

MutantText(old, m, p, v) ==
  [owner |-> m, text |-> IF old.text = 0 THEN v ELSE old.text,
   price |-> IF <<p, v>> \in Priced THEN v ELSE old.price,
   status |-> IF <<p, v>> \in Priced THEN "set"
              ELSE IF old.status = None THEN "missing" ELSE old.status]

Ingested(old, m, p, v) ==
  [owner |-> m, text |-> v,
   price |-> IF <<p, v>> \in Priced THEN v ELSE old.price,
   status |-> IF <<p, v>> \in Priced THEN "set"
              ELSE IF old.status = None THEN "missing" ELSE old.status]

Ingests(q) == req[q].ver # 0
Registers(q) == req[q].kind \in {"post", "backfill"} /\ req[q].chan = None
Outcome(rec) == Ingested(rec.old, rec.m, rec.post, rec.ver)

\* Another transaction holds a row this one writes.
Locked(r) ==
  \E q \in Requests \ {r} :
    /\ req[q].step = "notify" /\ Ingests(q)
    /\ \/ req[q].post = req[r].post
       \/ /\ Registers(q) /\ Registers(r)
          /\ req[q].m = req[r].m \/ ChannelOf[req[q].post] = ChannelOf[req[r].post]

\* db.flush(): the unique constraints on products (channel, message) and on
\* merchants (source_channel_id) let it through.  A price query follows for a new
\* post or a backfill without a price, and for a forward of a product not "set".
Flush(r) ==
  LET rec == req[r] IN
    /\ rec.step = "load"
    /\ ~Locked(r)
    /\ rec.old = NoProduct => product[rec.post] = NoProduct
    /\ Registers(r) => \A n \in Merchants \ {rec.m} : channel[n] # ChannelOf[rec.post]
    /\ req' = [req EXCEPT ![r].step = "notify",
         ![r].todo = IF Outcome(rec).status = "set" THEN {} ELSE AdminsOf(rec.m)]
    /\ UNCHANGED <<catalogVars, rough>>

\* What is counted of one notification: "told", the answer with its message's id
\* came; "lost", the query is out but the answer did not come in time; "refused".
Noted(n, how) ==
  IF n < 2 /\ (how = "told" \/ (how = "lost" /\ n > 0)) THEN n + 1 ELSE n

\* The row's message ids are not looked at.
MutantNotify(r, a, row, how) ==
  LET p == req[r].post IN
    /\ req[r].step = "notify"
    /\ a \in req[r].todo
    /\ IF open[a][p] = {} THEN row = "none" ELSE row \in open[a][p]
    /\ req' = [req EXCEPT ![r].todo = @ \ {a},
         ![r].made = @ \cup {<<a, row, IF how = "told" THEN "told" ELSE "silent">>}]
    /\ notes' = [notes EXCEPT ![a][p] = Noted(@, how)]
    /\ UNCHANGED <<agenda, version, inbox, stored, rough>>

\* queue_price_query for one admin: an open row with a message is left alone.
\* _notify_admin swallows what the send raises, also when Telegram delivered it: the
\* row keeps no message id and stays silent.
Notify(r, a, row, how) ==
  LET p == req[r].post IN
    /\ req[r].step = "notify"
    /\ a \in req[r].todo
    /\ IF open[a][p] = {} THEN row = "none" ELSE row \in open[a][p]
    /\ IF row = "told"
       THEN /\ req' = [req EXCEPT ![r].todo = @ \ {a}]
            /\ UNCHANGED notes
       ELSE /\ req' = [req EXCEPT ![r].todo = @ \ {a},
                 ![r].made = @ \cup {<<a, row, IF how = "told" THEN "told" ELSE "silent">>}]
            /\ notes' = [notes EXCEPT ![a][p] = Noted(@, how)]
    /\ UNCHANGED <<agenda, version, inbox, stored, rough>>

\* The UPDATE names only the columns that differ from what was loaded.
Merged(old, new, now) ==
  [f \in DOMAIN new |-> IF new[f] # old[f] THEN new[f] ELSE now[f]]

\* db.commit(): product, channel and price query rows appear together.
StoreCatalog(r) ==
  LET rec == req[r]
      p == rec.post
  IN /\ rec.step = "notify" /\ rec.todo = {}
     /\ product' = IF Ingests(r)
          THEN [product EXCEPT ![p] = Merged(rec.old, Outcome(rec), @)] ELSE product
     /\ channel' = IF Registers(r) THEN [channel EXCEPT ![rec.m] = ChannelOf[p]] ELSE channel
     /\ heard' = IF Registers(r) THEN [heard EXCEPT ![rec.m] = @ \cup {ChannelOf[p]}] ELSE heard
     /\ open' = [a \in Admins |-> [open[a] EXCEPT ![p] =
          (@ \ {e[2] : e \in {x \in rec.made : x[1] = a}})
             \cup {e[3] : e \in {x \in rec.made : x[1] = a}}]]
     /\ newest' = IF rec.kind = "post" /\ rec.ver > newest[p]
          THEN [newest EXCEPT ![p] = rec.ver] ELSE newest
     /\ backfilled' = IF rec.kind = "backfill" THEN backfilled \cup {p} ELSE backfilled
     /\ req' = [req EXCEPT ![r] = Idle]
     /\ UNCHANGED <<agenda, version, inbox, notes, rough>>

\* The request raises or its process dies: the transaction is rolled back, and
\* Telegram delivers a channel post again.
LoseCatalog(r) ==
  LET rec == req[r] IN
    /\ rec # Idle
    /\ rough' = rough \cup ({rec.post} \ {None})
    /\ inbox' = IF rec.kind = "post"
         THEN [inbox EXCEPT ![rec.m][rec.post] = @ \cup {rec.ver}] ELSE inbox
    /\ req' = [req EXCEPT ![r] = Idle]
    /\ UNCHANGED <<agenda, version, stored, notes>>

-----------------------------------------------------------------------------
(* Properties.                                                              *)

\* A shop's products come from channels registered for it, by a post its bot
\* received or by one of its admins: nothing a customer forwards gets a foreign
\* post into the catalogue (_verify_or_check_source_channel,
\* _resolve_and_answer_product).
ProductsFromOwnChannel ==
  \A p \in Posts : product[p].owner # None =>
    ChannelOf[p] \in heard[product[p].owner] \/ p \in backfilled

\* Once Telegram has answered a query for a product's price with its message's id, the
\* admin is not asked again, however often the post is edited, backfilled, forwarded
\* or linked, unless the requests overlapped or one failed after the send
\* (queue_price_query's check of platform_message_ids).  A query whose answer was lost
\* is asked again.
NotifiedOnce == \A a \in Admins, p \in Posts : p \notin rough => notes[a][p] <= 1

\* The product shows the newest version its channel's posts were ingested with,
\* unless requests overlapped or a backfill brought an older copy (ingest_post
\* finds the product by channel and message, and an edit updates it).
CatalogFollowsChannel ==
  \A p \in Posts : p \notin rough \cup backfilled => product[p].text >= newest[p]

\* An edit that does not repeat the price never takes it away, whatever the
\* requests' interleaving (ingest_post's condition on price_status).
SetPriceStays ==
  [][\A p \in Posts : product[p].status = "set" =>
       product'[p].status = "set" /\ product'[p].price # 0]_product
=============================================================================
