---------------------------- MODULE StorefrontProofs ----------------------------
(***************************************************************************)
(* Machine-checked proofs about the storefront (modules Catalog and        *)
(* Answering), for any number of shops, channels, posts, customers and     *)
(* requests in flight.                                                     *)
(***************************************************************************)
EXTENDS Answering, FiniteSetTheorems, TLAPS

\* A request has what its step uses: ingestions and pointers to a product have a
\* post, customers' messages a customer, texts a question.
Proper(rec) ==
  /\ rec.step \in {"load", "notify"} => rec.post \in Posts /\ rec.m \in Merchants
  /\ rec.step \notin {"load", "notify"} => rec.post = None /\ rec.ver = 0 /\ rec.kind # "post"
  /\ rec.step = "load" => rec.ver # 0 /\ rec.made = {}
  /\ rec.ver # 0 => rec.kind \in {"post", "backfill", "forward"}
  /\ rec.kind \in {"post", "backfill"} => rec.ver # 0 /\ rec.c = None
  /\ rec.step = "idle" => rec.c = None
  /\ rec.step \in {"text", "photo", "customer", "generate", "reply"} => rec.c \in Customers
  /\ rec.step \in {"text", "customer", "generate"} => rec.q \in Questions
  /\ rec.step # "reply" => rec.log = None
  /\ rec.c # None => rec.m = ShopOf[rec.c]
  /\ rec.at <= Patience(rec.m)

ReqOK == req \in [Requests -> RequestRecords] /\ \A r \in Requests : Proper(req[r])

ShelfOK ==
  /\ agenda \in Agendas
  /\ version \in [Posts -> 0..MaxVersion]
  /\ inbox \in [Merchants -> [Posts -> SUBSET Versions]]
  /\ channel \in [Merchants -> Channels \cup {None}]
  /\ product \in [Posts -> Products]
  /\ open \in [Admins -> [Posts -> SUBSET {"told", "silent"}]]
  /\ heard \in [Merchants -> SUBSET Channels]
  /\ backfilled \subseteq Posts
  /\ notes \in [Admins -> [Posts -> 0..2]]
  /\ newest \in [Posts -> 0..MaxVersion]
  /\ rough \subseteq Posts

TalkOK ==
  /\ known \subseteq Customers
  /\ ctx \in [Customers -> Contexts]
  /\ logs \in [Logs -> LogRows]
  /\ named \in [Customers -> SUBSET Posts]
  /\ seen \in [Customers -> Carousels \cup {<<>>}]
  /\ blurred \subseteq Customers

\* An entry of the cache is no older than an answer may be by the end of its life.
Entries == [about : Posts \cup {None}, age : Nat, left : Nat]
CacheOK ==
  /\ cache \in [Merchants -> [Questions -> Entries]]
  /\ \A m \in Merchants, q \in Questions :
       cache[m][q].left <= Life(m) /\ cache[m][q].age + cache[m][q].left <= Life(m) + Patience(m)

MeterOK ==
  /\ spent \in [Merchants \cup Customers -> Nat]
  /\ \A m \in Merchants : spent[m] <= DAILY_MERCHANT_CALL_LIMIT + 1
  /\ \A c \in Customers : spent[c] <= DAILY_CUSTOMER_CALL_LIMIT + 1
  /\ calls \in [Merchants \cup Customers -> Nat]

\* The type invariant, variable by variable.
Typed == ReqOK /\ ShelfOK /\ TalkOK /\ CacheOK /\ MeterOK

\* An entry's life and a call's patience, whoever's.
LEMMA Spans == \A m : Life(m) \in Nat /\ Patience(m) \in Nat
BY AnsweringAssumption DEF Life, Patience

\* The typing by parts implies the type invariant the runs check.
LEMMA TypedGivesTypeOK == Typed => TypeOK
<1> SUFFICES ASSUME Typed PROVE TypeOK
  OBVIOUS
<1> USE AnsweringAssumption
<1>1. ASSUME NEW m \in Merchants, NEW q \in Questions
      PROVE  cache[m][q] \in [about : Posts \cup {None}, age : 0..Life(m) + Patience(m),
                              left : 0..Life(m)]
  <2>1. Life(m) \in Nat /\ Patience(m) \in Nat
    BY Spans
  <2>2. cache[m][q] \in Entries
    BY DEF Typed, CacheOK
  <2>3. cache[m][q].age \in 0..Life(m) + Patience(m) /\ cache[m][q].left \in 0..Life(m)
    BY <2>1, <2>2 DEF Typed, CacheOK, Entries
  <2> HIDE DEF Typed
  <2> QED
    BY <2>2, <2>3 DEF Entries
<1>2. /\ \A m \in Merchants : spent[m] \in 0..DAILY_MERCHANT_CALL_LIMIT + 1
      /\ \A c \in Customers : spent[c] \in 0..DAILY_CUSTOMER_CALL_LIMIT + 1
  BY DEF Typed, MeterOK
<1> QED
  BY <1>1, <1>2 DEF Typed, ReqOK, ShelfOK, TalkOK, MeterOK, TypeOK

\* A context with another last product, or another carousel.
About(k, p) == [k EXCEPT !.last = p]
Seeing(k, shown) == [k EXCEPT !.shown = shown]

\* Request r's record becomes rec.
Moved(r, rec) == req' = [req EXCEPT ![r] = rec]

\* What a request keeps from its start to its end, and what it keeps but for the
\* notifications of an ingestion.
SameUpdate(x, y) ==
  /\ x.kind = y.kind /\ x.m = y.m /\ x.c = y.c /\ x.q = y.q /\ x.ctx = y.ctx
  /\ x.aim = y.aim
  /\ x.post = y.post /\ x.ver = y.ver /\ x.chan = y.chan /\ x.old = y.old
SameMessage(x, y) == SameUpdate(x, y) /\ x.todo = y.todo /\ x.made = y.made

\* A request slot that is not in use is typed.
LEMMA IdleRecord == Idle \in RequestRecords /\ Proper(Idle)
<1> USE CatalogAssumption, AnsweringAssumption
<1>1. NoProduct \in Products /\ NoAnswer \in Answers /\ NoContext \in Contexts
  BY DEF NoProduct, Products, NoAnswer, Answers, NoContext, Contexts
<1>2. Idle \in RequestRecords
  BY <1>1 DEF Idle, RequestRecords
<1>3. Patience(Idle.m) \in Nat
  BY Spans
<1>4. Proper(Idle)
  BY <1>3 DEF Idle, Proper
<1> QED
  BY <1>2, <1>4

\* What the type invariant says of a request, field by field.
LEMMA RecordOf ==
  ASSUME NEW rec \in RequestRecords
  PROVE  /\ rec.kind \in Kinds \cup {"idle"}
         /\ rec.step \in {"idle", "load", "notify", "text", "photo", "customer", "generate", "reply"}
         /\ rec.m \in Merchants \cup {None} /\ rec.c \in Customers \cup {None}
         /\ rec.post \in Posts \cup {None} /\ rec.ver \in 0..MaxVersion
         /\ rec.chan \in Channels \cup {None} /\ rec.old \in Products
         /\ rec.todo \subseteq Admins
         /\ rec.made \subseteq Admins \X {"none", "silent", "told"} \X {"told", "silent"}
         /\ rec.ctx \in Contexts /\ rec.new \in Contexts
         /\ rec.q \in Questions \cup {None} /\ rec.log \in Logs \cup {None}
         /\ rec.aim \in Posts \cup {None}
         /\ rec.at \in Nat /\ rec.said \in Answers
BY DEF RequestRecords

\* What Typed says of requests, ready to cite.
LEMMA ReqTyped ==
  ASSUME Typed
  PROVE  /\ req \in [Requests -> RequestRecords]
         /\ \A r \in Requests : req[r] \in RequestRecords /\ Proper(req[r])
BY DEF Typed, ReqOK

-----------------------------------------------------------------------------
(* What each action does to the request that takes it.                      *)

\* The record of a request that has just begun.
Begun(kind, step, m, c, p, v, ch, old, todo, k, new, q, aim) ==
  [kind |-> kind, step |-> step, m |-> m, c |-> c, post |-> p, ver |-> v, chan |-> ch,
   old |-> old, todo |-> todo, made |-> {}, ctx |-> k, new |-> new, q |-> q,
   aim |-> aim, log |-> None, at |-> 0, said |-> NoAnswer]

\* Field by field.
IsBegun(rec, kind, step, m, c, p, v, ch, old, todo, k, new, q, aim) ==
  /\ rec.kind = kind /\ rec.step = step /\ rec.m = m /\ rec.c = c /\ rec.post = p
  /\ rec.ver = v /\ rec.chan = ch /\ rec.old = old /\ rec.todo = todo /\ rec.made = {}
  /\ rec.ctx = k /\ rec.new = new /\ rec.q = q /\ rec.aim = aim /\ rec.log = None /\ rec.at = 0
  /\ rec.said = NoAnswer

\* A request built by Begun is typed and has the fields it was given.
LEMMA BegunRecord ==
  ASSUME NEW kind \in Kinds, NEW step \in {"load", "notify", "text", "photo", "reply"},
         NEW m \in Merchants, NEW c \in Customers \cup {None}, NEW p \in Posts \cup {None},
         NEW v \in 0..MaxVersion, NEW ch \in Channels \cup {None}, NEW old \in Products,
         NEW todo \in SUBSET Admins, NEW k \in Contexts, NEW new \in Contexts,
         NEW q \in Questions \cup {None}, NEW aim \in Posts \cup {None}
  PROVE  /\ Begun(kind, step, m, c, p, v, ch, old, todo, k, new, q, aim) \in RequestRecords
         /\ IsBegun(Begun(kind, step, m, c, p, v, ch, old, todo, k, new, q, aim),
                    kind, step, m, c, p, v, ch, old, todo, k, new, q, aim)
<1> USE CatalogAssumption, AnsweringAssumption
<1>1. NoAnswer \in Answers
  BY DEF NoAnswer, Answers
<1>2. Begun(kind, step, m, c, p, v, ch, old, todo, k, new, q, aim) \in RequestRecords
  BY <1>1 DEF Begun, RequestRecords
<1>3. IsBegun(Begun(kind, step, m, c, p, v, ch, old, todo, k, new, q, aim),
              kind, step, m, c, p, v, ch, old, todo, k, new, q, aim)
  BY DEF Begun, IsBegun
<1> QED
  BY <1>2, <1>3

\* What a request sees of a row is a product, and of a shop, a channel.
LEMMA SeenTyped ==
  ASSUME Typed, NEW m \in Merchants, NEW p \in Posts
  PROVE  SeenBy(m, p) \in Products /\ NoProduct \in Products /\ channel[m] \in Channels \cup {None}
BY CatalogAssumption DEF Typed, ShelfOK, SeenBy, NoProduct, Products

\* An update starts an ingestion.
LEMMA IngestingRecord ==
  ASSUME Typed, NEW kind \in {"post", "backfill"}, NEW m \in Merchants, NEW p \in Posts,
         NEW v \in Versions
  PROVE  \E rec \in RequestRecords :
         /\ rec = Ingesting(kind, m, p, v) /\ Proper(rec)
         /\ IsBegun(rec, kind, "load", m, None, p, v, channel[m], SeenBy(m, p), {},
                    NoContext, NoContext, None, None)
<1> USE CatalogAssumption, AnsweringAssumption
<1>1. channel[m] \in Channels \cup {None} /\ SeenBy(m, p) \in Products /\ NoContext \in Contexts
  BY SeenTyped DEF NoContext, Contexts
<1>2. PICK rec : rec = Ingesting(kind, m, p, v)
  OBVIOUS
<1>5. rec = Begun(kind, "load", m, None, p, v, channel[m], SeenBy(m, p), {},
                  NoContext, NoContext, None, None)
  BY <1>2 DEF Begun, Ingesting, Idle
<1>3. /\ rec \in RequestRecords
      /\ IsBegun(rec, kind, "load", m, None, p, v, channel[m], SeenBy(m, p), {},
                 NoContext, NoContext, None, None)
  BY <1>1, <1>5, BegunRecord DEF Kinds, Versions
<1>4. Proper(rec)
  BY <1>3, Spans DEF IsBegun, Proper, Versions
<1> QED
  BY <1>2, <1>3, <1>4

\* A customer forwards a post the shop does not have.
LEMMA ForwardedRecord ==
  ASSUME Typed, NEW c \in Customers, NEW p \in Posts, NEW v \in Versions, NEW k \in Contexts
  PROVE  \E rec \in RequestRecords :
         /\ rec = [Ingesting("forward", ShopOf[c], p, v) EXCEPT
                     !.c = c, !.ctx = k, !.new = [k EXCEPT !.last = p]]
         /\ Proper(rec)
         /\ IsBegun(rec, "forward", "load", ShopOf[c], c, p, v, channel[ShopOf[c]],
                    SeenBy(ShopOf[c], p), {}, k, [k EXCEPT !.last = p], None, None)
<1> USE CatalogAssumption, AnsweringAssumption
<1>1. /\ ShopOf[c] \in Merchants /\ channel[ShopOf[c]] \in Channels \cup {None}
      /\ SeenBy(ShopOf[c], p) \in Products /\ [k EXCEPT !.last = p] \in Contexts
  BY SeenTyped DEF Contexts
<1>2. PICK base : base = Ingesting("forward", ShopOf[c], p, v)
  OBVIOUS
<1>a. base = Begun("forward", "load", ShopOf[c], None, p, v, channel[ShopOf[c]],
                   SeenBy(ShopOf[c], p), {}, NoContext, NoContext, None, None)
  BY <1>2 DEF Begun, Ingesting, Idle
<1>b. PICK rec : rec = [base EXCEPT !.c = c, !.ctx = k, !.new = [k EXCEPT !.last = p]]
  OBVIOUS
<1>c. rec = Begun("forward", "load", ShopOf[c], c, p, v, channel[ShopOf[c]],
                  SeenBy(ShopOf[c], p), {}, k, [k EXCEPT !.last = p], None, None)
  BY <1>a, <1>b DEF Begun
<1>3. /\ rec \in RequestRecords
      /\ IsBegun(rec, "forward", "load", ShopOf[c], c, p, v, channel[ShopOf[c]],
                 SeenBy(ShopOf[c], p), {}, k, [k EXCEPT !.last = p], None, None)
  BY <1>1, <1>c, BegunRecord DEF Kinds, Versions
<1>4. Proper(rec)
  BY <1>1, <1>3, Spans DEF IsBegun, Proper, Versions
<1>5. rec = [Ingesting("forward", ShopOf[c], p, v) EXCEPT
               !.c = c, !.ctx = k, !.new = [k EXCEPT !.last = p]]
  BY ONLY <1>2, <1>b
<1> QED
  BY <1>3, <1>4, <1>5

\* A customer points to a product the shop has.
LEMMA KnownRecord ==
  ASSUME Typed, NEW c \in Customers, NEW p \in Posts, NEW k \in Contexts,
         NEW kind \in {"forward", "link"}
  PROVE  \E rec \in RequestRecords, todo \in SUBSET Admins :
         /\ rec = Known(kind, c, p, k) /\ Proper(rec)
         /\ IsBegun(rec, kind, "notify", ShopOf[c], c, p, 0, None, SeenBy(ShopOf[c], p), todo,
                    k, [k EXCEPT !.last = p], None, None)
<1> USE CatalogAssumption, AnsweringAssumption
<1>1. ShopOf[c] \in Merchants /\ SeenBy(ShopOf[c], p) \in Products
  BY SeenTyped
<1>2. PICK todo \in SUBSET Admins :
        todo = IF SeenBy(ShopOf[c], p).status = "set" THEN {} ELSE AdminsOf(ShopOf[c])
  BY DEF AdminsOf
<1>3. PICK new \in Contexts : new = [k EXCEPT !.last = p]
  BY DEF Contexts
<1>4. PICK row \in Products : row = SeenBy(ShopOf[c], p)
  BY <1>1
<1>5. PICK rec : rec = Known(kind, c, p, k)
  OBVIOUS
<1>6. rec = Begun(kind, "notify", ShopOf[c], c, p, 0, None, row, todo, k, new, None, None)
  BY <1>2, <1>3, <1>4, <1>5 DEF Begun, Known, Idle
<1>7. /\ rec \in RequestRecords
      /\ IsBegun(rec, kind, "notify", ShopOf[c], c, p, 0, None, row, todo, k, new, None, None)
  BY <1>1, <1>6, BegunRecord DEF Kinds
<1>8. Proper(rec)
  BY <1>1, <1>7, Spans DEF IsBegun, Proper
<1> QED
  BY <1>3, <1>4, <1>5, <1>7, <1>8

\* A customer writes, sends a photo or taps a button.
LEMMA AskingRecord ==
  ASSUME Typed, NEW c \in Customers, NEW q \in Questions, NEW aim \in Posts \cup {None}
  PROVE  /\ \E rec \in RequestRecords :
            /\ rec = [Asking("text", c) EXCEPT !.q = q, !.aim = aim] /\ Proper(rec)
            /\ IsBegun(rec, "text", "text", ShopOf[c], c, None, 0, None, NoProduct, {},
                       ctx[c], ctx[c], q, aim)
         /\ \E rec \in RequestRecords :
            /\ rec = Asking("photo", c) /\ Proper(rec)
            /\ IsBegun(rec, "photo", "photo", ShopOf[c], c, None, 0, None, NoProduct, {},
                       ctx[c], ctx[c], None, None)
<1> USE CatalogAssumption, AnsweringAssumption
<1>1. ShopOf[c] \in Merchants /\ NoProduct \in Products /\ ctx[c] \in Contexts
  BY DEF NoProduct, Products, Typed, TalkOK
<1>2. PICK base : base = Asking("text", c)
  OBVIOUS
<1>a. base = Begun("text", "text", ShopOf[c], c, None, 0, None, NoProduct, {},
                   ctx[c], ctx[c], None, None)
  BY <1>2 DEF Begun, Asking, Idle
<1>b. PICK text : text = [base EXCEPT !.q = q, !.aim = aim]
  OBVIOUS
<1>c. text = Begun("text", "text", ShopOf[c], c, None, 0, None, NoProduct, {},
                   ctx[c], ctx[c], q, aim)
  BY <1>a, <1>b DEF Begun
<1>3. PICK photo : photo = Asking("photo", c)
  OBVIOUS
<1>d. photo = Begun("photo", "photo", ShopOf[c], c, None, 0, None, NoProduct, {},
                    ctx[c], ctx[c], None, None)
  BY <1>3 DEF Begun, Asking, Idle
<1>4. /\ text \in RequestRecords
      /\ IsBegun(text, "text", "text", ShopOf[c], c, None, 0, None, NoProduct, {},
                 ctx[c], ctx[c], q, aim)
  BY <1>1, <1>c, BegunRecord DEF Kinds
<1>5. /\ photo \in RequestRecords
      /\ IsBegun(photo, "photo", "photo", ShopOf[c], c, None, 0, None, NoProduct, {},
                 ctx[c], ctx[c], None, None)
  BY <1>1, <1>d, BegunRecord DEF Kinds
<1>6. Proper(text)
  BY <1>1, <1>4, Spans DEF IsBegun, Proper
<1>7. Proper(photo)
  BY <1>1, <1>5, Spans DEF IsBegun, Proper
<1>8. text = [Asking("text", c) EXCEPT !.q = q, !.aim = aim]
  BY ONLY <1>2, <1>b
<1> QED
  BY <1>3, <1>4, <1>5, <1>6, <1>7, <1>8

\* A tap's request has the product in the context it will write.
LEMMA TapRecord ==
  ASSUME Typed, NEW c \in Customers, NEW p \in Posts
  PROVE  \E rec \in RequestRecords :
         /\ rec = [Asking("tap", c) EXCEPT !.step = "reply", !.new.last = p] /\ Proper(rec)
         /\ IsBegun(rec, "tap", "reply", ShopOf[c], c, None, 0, None, NoProduct, {},
                    ctx[c], [ctx[c] EXCEPT !.last = p], None, None)
<1> USE CatalogAssumption, AnsweringAssumption
<1>1. /\ ShopOf[c] \in Merchants /\ NoProduct \in Products /\ ctx[c] \in Contexts
  BY DEF NoProduct, Products, Typed, TalkOK
<1>2. PICK new \in Contexts : new = [ctx[c] EXCEPT !.last = p]
  BY <1>1 DEF Contexts
<1>3. PICK base : base = Asking("tap", c)
  OBVIOUS
<1>4. base = Begun("tap", "tap", ShopOf[c], c, None, 0, None, NoProduct, {},
                   ctx[c], ctx[c], None, None)
  BY <1>3 DEF Begun, Asking, Idle
<1>5. PICK rec : rec = [base EXCEPT !.step = "reply", !.new.last = p]
  OBVIOUS
<1>6. rec = Begun("tap", "reply", ShopOf[c], c, None, 0, None, NoProduct, {},
                  ctx[c], new, None, None)
  BY <1>2, <1>4, <1>5 DEF Begun
<1>7. /\ rec \in RequestRecords
      /\ IsBegun(rec, "tap", "reply", ShopOf[c], c, None, 0, None, NoProduct, {},
                 ctx[c], new, None, None)
  BY <1>1, <1>6, BegunRecord DEF Kinds
<1>8. Proper(rec)
  BY <1>1, <1>7, Spans DEF IsBegun, Proper
<1>9. rec = [Asking("tap", c) EXCEPT !.step = "reply", !.new.last = p]
  BY ONLY <1>3, <1>5
<1> QED
  BY <1>2, <1>7, <1>8, <1>9

\* A message goes on to its next step, or to its reply, without an answer of its own.
LEMMA PassingRecord ==
  ASSUME Typed, NEW r \in Requests, NEW s \in {"customer", "generate", "reply"},
         req[r].step \in {"text", "photo", "customer", "generate"},
         s # "reply" => req[r].step \in {"text", "customer"},
         \/ req' = [req EXCEPT ![r].step = s]
         \/ s = "reply" /\ Reply(r)
  PROVE  \E rec \in RequestRecords :
         /\ Moved(r, rec) /\ Proper(rec) /\ SameMessage(rec, req[r])
         /\ rec.step = s /\ rec.new = req[r].new /\ rec.said = req[r].said
         /\ rec.log = req[r].log
<1> USE CatalogAssumption, AnsweringAssumption
<1>0. req \in [Requests -> RequestRecords] /\ req[r] \in RequestRecords /\ Proper(req[r])
  BY ReqTyped
<1>1. PICK one : one = [req[r] EXCEPT !.step = s]
  OBVIOUS
<1>2. /\ one \in RequestRecords /\ SameMessage(one, req[r])
      /\ one.step = s /\ one.new = req[r].new /\ one.said = req[r].said
      /\ one.log = req[r].log /\ one.at = req[r].at
  BY <1>0, <1>1 DEF RequestRecords, SameMessage, SameUpdate
<1>3. Patience(req[r].m) \in Nat
  BY Spans
<1>4. Proper(one)
  BY <1>0, <1>2 DEF Proper, SameMessage, SameUpdate
<1>5. PICK two : two = [one EXCEPT !.at = 0]
  OBVIOUS
<1>6. /\ two \in RequestRecords /\ SameMessage(two, req[r])
      /\ two.step = s /\ two.new = req[r].new /\ two.said = req[r].said
      /\ two.log = req[r].log /\ two.at = 0
  BY <1>2, <1>5 DEF RequestRecords, SameMessage, SameUpdate
<1>7. Proper(two)
  BY <1>0, <1>3, <1>6 DEF Proper, SameMessage, SameUpdate
<1>8. CASE req' = [req EXCEPT ![r].step = s]
  <2>1. Moved(r, one)
    BY <1>0, <1>1, <1>8 DEF Moved
  <2> QED
    BY <1>2, <1>4, <2>1
<1>9. CASE s = "reply" /\ Reply(r)
  <2>1. Moved(r, two)
    BY <1>0, <1>1, <1>5, <1>9 DEF Moved, Reply
  <2> QED
    BY <1>6, <1>7, <2>1
<1> QED
  BY <1>8, <1>9

\* A message is answered.
LEMMA AnsweredRecord ==
  ASSUME Typed, NEW r \in Requests, NEW new \in Contexts, NEW p, NEW age \in Nat,
         NEW how \in {"ordinal", "cache", "llm"},
         req[r].step \in {"text", "generate"}, Answer(r, new, how, p, age)
  PROVE  \E rec \in RequestRecords :
         /\ Moved(r, rec) /\ Proper(rec) /\ SameMessage(rec, req[r])
         /\ rec.step = "reply" /\ rec.new = new /\ rec.log = req[r].log
         /\ rec.said.how = how /\ rec.said.age = age
         /\ rec.said.apt <=> p = req[r].aim
<1> USE CatalogAssumption, AnsweringAssumption
<1>0. req \in [Requests -> RequestRecords] /\ req[r] \in RequestRecords /\ Proper(req[r])
  BY ReqTyped
<1>1. PICK apt \in BOOLEAN : apt = (p = req[r].aim)
  OBVIOUS
<1>2. PICK said : said = [how |-> how, apt |-> apt, age |-> age]
  OBVIOUS
<1>3. said \in Answers /\ said.how = how /\ said.age = age /\ said.apt = apt
  BY <1>2 DEF Answers
<1>a. PICK one : one = [req[r] EXCEPT !.step = "reply"]
  OBVIOUS
<1>4. /\ one \in RequestRecords /\ SameMessage(one, req[r])
      /\ one.step = "reply" /\ one.log = req[r].log
  BY <1>0, <1>a DEF RequestRecords, SameMessage, SameUpdate
<1>b. PICK two : two = [one EXCEPT !.new = new]
  OBVIOUS
<1>5. /\ two \in RequestRecords /\ SameMessage(two, req[r])
      /\ two.step = "reply" /\ two.log = req[r].log /\ two.new = new
  BY <1>4, <1>b DEF RequestRecords, SameMessage, SameUpdate
<1>c. PICK three : three = [two EXCEPT !.at = 0]
  OBVIOUS
<1>6. /\ three \in RequestRecords /\ SameMessage(three, req[r])
      /\ three.step = "reply" /\ three.log = req[r].log /\ three.new = new /\ three.at = 0
  BY <1>5, <1>c DEF RequestRecords, SameMessage, SameUpdate
<1>d. PICK rec : rec = [three EXCEPT !.said = said]
  OBVIOUS
<1>7. /\ rec \in RequestRecords /\ SameMessage(rec, req[r])
      /\ rec.step = "reply" /\ rec.log = req[r].log /\ rec.new = new /\ rec.at = 0
      /\ rec.said = said
  BY <1>3, <1>6, <1>d DEF RequestRecords, SameMessage, SameUpdate
<1>8. Patience(req[r].m) \in Nat
  BY Spans
<1>9. Proper(rec)
  BY <1>0, <1>7, <1>8 DEF Proper, SameMessage, SameUpdate
<1>10. Moved(r, rec)
  <2>1. req' = [req EXCEPT ![r].step = "reply", ![r].new = new, ![r].at = 0, ![r].said = said]
    BY <1>1, <1>2 DEF Answer
  <2> QED
    BY ONLY <1>0, <1>a, <1>b, <1>c, <1>d, <2>1 DEF Moved
<1>11. rec.said.apt <=> p = req[r].aim
  BY ONLY <1>1, <1>3, <1>7
<1> QED
  BY <1>3, <1>7, <1>9, <1>10, <1>11

\* A photo is answered by a carousel.
LEMMA CarouselRecord ==
  ASSUME Typed, NEW r \in Requests, NEW l \in Logs, NEW shown \in Carousels,
         SendCarousel(r, l, shown)
  PROVE  \E rec \in RequestRecords :
         /\ Moved(r, rec) /\ Proper(rec) /\ SameMessage(rec, req[r])
         /\ rec.step = "reply" /\ rec.new = Seeing(req[r].new, shown)
         /\ rec.said = req[r].said /\ rec.log = l
<1> USE CatalogAssumption, AnsweringAssumption
<1>0. req \in [Requests -> RequestRecords] /\ req[r] \in RequestRecords /\ Proper(req[r])
  BY ReqTyped
<1>a. req[r].new \in Contexts
  BY <1>0, RecordOf
<1>s. /\ req[r].step = "photo"
      /\ req' = [req EXCEPT ![r].step = "reply", ![r].log = l, ![r].new.shown = shown]
  BY DEF SendCarousel
<1>1. PICK new \in Contexts : new = [req[r].new EXCEPT !.shown = shown]
  BY <1>a DEF Contexts
<1>2. PICK one : one = [req[r] EXCEPT !.step = "reply"]
  OBVIOUS
<1>3. /\ one \in RequestRecords /\ SameMessage(one, req[r])
      /\ one.step = "reply" /\ one.new = req[r].new /\ one.at = req[r].at
      /\ one.said = req[r].said
  BY <1>0, <1>2 DEF RequestRecords, SameMessage, SameUpdate
<1>4. PICK two : two = [one EXCEPT !.log = l]
  OBVIOUS
<1>5. /\ two \in RequestRecords /\ SameMessage(two, req[r])
      /\ two.step = "reply" /\ two.new = req[r].new /\ two.at = req[r].at
      /\ two.said = req[r].said /\ two.log = l
  BY <1>3, <1>4 DEF RequestRecords, SameMessage, SameUpdate
<1>6. PICK rec : rec = [two EXCEPT !.new.shown = shown]
  OBVIOUS
<1>b. rec = [two EXCEPT !.new = new]
  BY <1>1, <1>5, <1>6 DEF RequestRecords
<1>7. /\ rec \in RequestRecords /\ SameMessage(rec, req[r])
      /\ rec.step = "reply" /\ rec.new = new /\ rec.at = req[r].at
      /\ rec.said = req[r].said /\ rec.log = l
  BY <1>5, <1>b DEF RequestRecords, SameMessage, SameUpdate
<1>8. Proper(rec)
  BY <1>0, <1>7, <1>s DEF Proper, SameMessage, SameUpdate
<1>9. Moved(r, rec)
  BY ONLY <1>0, <1>2, <1>4, <1>6, <1>s DEF Moved
<1> QED
  BY <1>1, <1>7, <1>8, <1>9 DEF Seeing

\* An ingestion has flushed.
LEMMA FlushRecord ==
  ASSUME Typed, NEW r \in Requests, Flush(r)
  PROVE  \E rec \in RequestRecords, todo \in SUBSET Admins :
         /\ Moved(r, rec) /\ Proper(rec)
         /\ SameUpdate(rec, req[r])
         /\ rec.step = "notify" /\ rec.todo = todo /\ rec.made = {}
         /\ rec.new = req[r].new /\ rec.said = req[r].said /\ rec.log = req[r].log
<1> USE CatalogAssumption, AnsweringAssumption
<1>0. req \in [Requests -> RequestRecords] /\ req[r] \in RequestRecords /\ Proper(req[r])
  BY ReqTyped
<1>1. PICK todo \in SUBSET Admins :
        todo = IF Outcome(req[r]).status = "set" THEN {} ELSE AdminsOf(req[r].m)
  BY DEF AdminsOf
<1>2. PICK one : one = [req[r] EXCEPT !.step = "notify"]
  OBVIOUS
<1>3. /\ one \in RequestRecords /\ SameMessage(one, req[r]) /\ one.step = "notify"
      /\ one.new = req[r].new /\ one.said = req[r].said /\ one.at = req[r].at
      /\ one.log = req[r].log
  BY <1>0, <1>2 DEF RequestRecords, SameMessage, SameUpdate
<1>4. PICK rec : rec = [one EXCEPT !.todo = todo]
  OBVIOUS
<1>5. /\ rec \in RequestRecords /\ SameUpdate(rec, req[r])
      /\ rec.step = "notify" /\ rec.todo = todo /\ rec.made = req[r].made
      /\ rec.new = req[r].new /\ rec.said = req[r].said /\ rec.at = req[r].at
      /\ rec.log = req[r].log
  BY <1>0, <1>3, <1>4 DEF RequestRecords, SameMessage, SameUpdate
<1>6. req[r].step = "load" /\ req[r].made = {}
  BY <1>0 DEF Flush, Proper
<1>8. Proper(rec)
  BY <1>0, <1>5, <1>6 DEF Proper, SameUpdate
<1>9. Moved(r, rec)
  BY <1>0, <1>1, <1>2, <1>4 DEF Moved, Flush
<1> QED
  BY <1>5, <1>6, <1>8, <1>9

\* What may become of the message to an admin, and of its row.
Hows == {"told", "lost", "refused"}
Mark(how) == IF how = "told" THEN "told" ELSE "silent"

\* What a request has for the admins, once a was notified or left alone.
Notified(rec, old, a, row, how) ==
  /\ rec.todo = old.todo \ {a}
  /\ rec.made = IF row = "told" THEN old.made ELSE old.made \cup {<<a, row, Mark(how)>>}

\* An admin is told, or is not to be told again.
LEMMA NotifyRecord ==
  ASSUME Typed, NEW r \in Requests, NEW a \in Admins, NEW row \in {"none", "told", "silent"},
         NEW how \in Hows, Notify(r, a, row, how)
  PROVE  \E rec \in RequestRecords :
         /\ Moved(r, rec) /\ Proper(rec) /\ SameUpdate(rec, req[r])
         /\ rec.step = "notify" /\ Notified(rec, req[r], a, row, how)
         /\ rec.new = req[r].new /\ rec.said = req[r].said /\ rec.log = req[r].log
<1> USE CatalogAssumption, AnsweringAssumption
<1>0. req \in [Requests -> RequestRecords] /\ req[r] \in RequestRecords /\ Proper(req[r])
  BY ReqTyped
<1>1. req[r].step = "notify"
  BY DEF Notify
<1>2. PICK one : one = [req[r] EXCEPT !.todo = @ \ {a}]
  OBVIOUS
<1>3. /\ one \in RequestRecords /\ SameUpdate(one, req[r]) /\ one.step = "notify"
      /\ one.new = req[r].new /\ one.said = req[r].said /\ one.at = req[r].at
      /\ one.todo = req[r].todo \ {a} /\ one.made = req[r].made /\ one.log = req[r].log
  BY <1>0, <1>1, <1>2 DEF RequestRecords, SameUpdate
<1>4. Proper(one)
  BY <1>0, <1>1, <1>3 DEF Proper, SameUpdate
<1>5. CASE row = "told"
  <2>1. Moved(r, one)
    BY <1>0, <1>2, <1>5 DEF Moved, Notify
  <2> QED
    BY <1>3, <1>4, <1>5, <2>1 DEF Notified
<1>6. CASE row # "told"
  <2>1. PICK e \in Admins \X {"none", "silent", "told"} \X {"told", "silent"} :
          e = <<a, row, Mark(how)>>
    <3>1. PICK mark \in {"told", "silent"} : mark = Mark(how)
      BY DEF Mark
    <3> QED
      BY <3>1
  <2>2. PICK two : two = [one EXCEPT !.made = @ \cup {e}]
    OBVIOUS
  <2>3. /\ two \in RequestRecords /\ SameUpdate(two, req[r]) /\ two.step = "notify"
        /\ two.new = req[r].new /\ two.said = req[r].said /\ two.at = req[r].at
        /\ two.todo = req[r].todo \ {a} /\ two.made = req[r].made \cup {e}
        /\ two.log = req[r].log
    BY <1>3, <2>2 DEF RequestRecords, SameUpdate
  <2>4. Proper(two)
    BY <1>0, <1>1, <2>3 DEF Proper, SameUpdate
  <2>5. req' = [req EXCEPT ![r].todo = @ \ {a}, ![r].made = @ \cup {e}]
    BY <1>6, <2>1 DEF Notify, Mark
  <2>6. Moved(r, two)
    BY ONLY <1>0, <1>2, <2>2, <2>5 DEF Moved
  <2> QED
    BY <1>6, <2>1, <2>3, <2>4, <2>6 DEF Notified
<1> QED
  BY <1>5, <1>6

\* Time passes for the calls in flight.
LEMMA TickRecord ==
  ASSUME Typed, Tick, NEW r \in Requests
  PROVE  /\ req'[r] \in RequestRecords /\ Proper(req'[r]) /\ SameMessage(req'[r], req[r])
         /\ req'[r].step = req[r].step /\ req'[r].new = req[r].new
         /\ req'[r].said = req[r].said /\ req'[r].log = req[r].log
<1> USE CatalogAssumption, AnsweringAssumption
<1>0. req[r] \in RequestRecords /\ Proper(req[r])
  BY ReqTyped
<1>1. CASE ~Timed(r)
  <2>1. req'[r] = req[r]
    BY <1>1 DEF Tick
  <2> QED
    BY <1>0, <2>1 DEF SameMessage, SameUpdate
<1>2. CASE Timed(r)
  <2>1. /\ req'[r] = [req[r] EXCEPT !.at = @ + 1]
        /\ req[r].at < Patience(req[r].m) /\ req[r].at \in Nat
    BY <1>0, <1>2, RecordOf DEF Tick
  <2>5. Patience(req[r].m) \in Nat
    BY Spans
  <2>2. PICK rec : rec = [req[r] EXCEPT !.at = @ + 1]
    OBVIOUS
  <2>3. /\ rec \in RequestRecords /\ SameMessage(rec, req[r]) /\ rec.step = req[r].step
        /\ rec.new = req[r].new /\ rec.said = req[r].said /\ rec.log = req[r].log
        /\ rec.at = req[r].at + 1
    BY <1>0, <2>1, <2>2 DEF RequestRecords, SameMessage, SameUpdate
  <2>4. Proper(rec)
    BY <1>0, <1>2, <2>1, <2>3, <2>5 DEF Proper, SameMessage, SameUpdate, Timed
  <2> QED
    BY <2>1, <2>2, <2>3, <2>4
<1> QED
  BY <1>1, <1>2

-----------------------------------------------------------------------------
(* The steps in groups: what is common to them is proved once.              *)

\* Updates of the catalogue that take no part in a conversation, and the customers'.
UpdateStep ==
  \/ \E p \in Posts : Post(p)
  \/ \E r \in Requests, m \in Merchants, p \in Posts, v \in Versions :
       ReceivePost(r, m, p, v) \/ IgnorePost(r, m, p, v)
  \/ \E r \in Requests, a \in Admins, p \in Posts, v \in Versions : ReceiveBackfill(r, a, p, v)
  \/ \E r \in Requests : Flush(r)
  \/ \E r \in Requests, a \in Admins, row \in {"none", "told", "silent"}, how \in Hows :
       Notify(r, a, row, how)

\* A message goes on without an answer of its own.
Passing(r) ==
  LayerReply(r) \/ TakeMerchant(r) \/ TakeCustomer(r) \/ NoCarousel(r)

\* Request r's record rec of an update that has just begun.
Starts(r, rec) ==
  /\ req[r] = Idle /\ Moved(r, rec) /\ Proper(rec)
  /\ rec.step \in {"load", "notify", "text", "photo", "reply"}
  /\ rec.made = {} /\ rec.said = NoAnswer /\ rec.log = None /\ rec.at = 0
  /\ rough' = IF rec.post # None /\ \E q \in Requests : req[q].post = rec.post
              THEN rough \cup {rec.post} ELSE rough

\* A layer that leaves the question to the next one changes its request only.
LEMMA PassingMoves ==
  ASSUME Typed, NEW r \in Requests, Passing(r)
  PROVE  /\ \E rec \in RequestRecords :
            /\ Moved(r, rec) /\ Proper(rec) /\ SameMessage(rec, req[r])
            /\ rec.step \in {"customer", "generate", "reply"}
            /\ rec.step # "reply" => req[r].step \in {"text", "customer"}
            /\ rec.new = req[r].new /\ rec.said = req[r].said /\ rec.log = req[r].log
         /\ req[r].step \in {"text", "photo", "customer", "generate"}
         /\ UNCHANGED <<catalogVars, rough, known, ctx, logs, cache, named, seen, blurred>>
<1>1. PICK s \in {"customer", "generate", "reply"} :
        /\ s # "reply" => req[r].step \in {"text", "customer"}
        /\ req' = [req EXCEPT ![r].step = s] \/ (s = "reply" /\ Reply(r))
  BY DEF Passing, LayerReply, TakeMerchant, TakeCustomer, NoCarousel
<1>2. /\ req[r].step \in {"text", "photo", "customer", "generate"}
      /\ UNCHANGED <<catalogVars, rough, known, ctx, logs, cache, named, seen, blurred>>
  BY DEF Passing, LayerReply, TakeMerchant, TakeCustomer, NoCarousel,
         RestOfCatalog, answerVars
<1> QED
  BY <1>1, <1>2, PassingRecord

\* An answer from the last carousel or from the cache.
LEMMA LookupMoves ==
  ASSUME Typed, NEW r \in Requests, OrdinalReply(r) \/ CacheHit(r)
  PROVE  /\ \E rec \in RequestRecords :
            /\ Moved(r, rec) /\ Proper(rec) /\ SameMessage(rec, req[r])
            /\ rec.step = "reply" /\ rec.new = req[r].ctx /\ rec.log = req[r].log
            /\ \/ /\ ByOrdinal(req[r]) /\ rec.said.how = "ordinal" /\ rec.said.age = 0
                  /\ rec.said.apt <=> req[r].ctx.shown[req[r].q] = req[r].aim
               \/ /\ rec.said.how = "cache" /\ rec.said.age = Entry(req[r]).age
         /\ req[r].step = "text"
         /\ UNCHANGED <<catalogVars, rough, known, ctx, logs, cache, spent, calls, named, seen, blurred>>
<1>0. req[r] \in RequestRecords /\ Proper(req[r]) /\ req[r].ctx \in Contexts
  BY ReqTyped, RecordOf
<1>1. CASE OrdinalReply(r)
  <2>1. /\ Answer(r, req[r].ctx, "ordinal", req[r].ctx.shown[req[r].q], 0)
        /\ req[r].step = "text" /\ ByOrdinal(req[r])
        /\ UNCHANGED <<catalogVars, rough, known, ctx, logs, cache, spent, calls, named, seen, blurred>>
    BY <1>1 DEF OrdinalReply, RestOfCatalog
  <2> QED
    BY <1>0, <2>1, AnsweredRecord
<1>2. CASE CacheHit(r)
  <2>1. /\ Answer(r, req[r].ctx, "cache", Entry(req[r]).about, Entry(req[r]).age)
        /\ req[r].step = "text"
        /\ UNCHANGED <<catalogVars, rough, known, ctx, logs, cache, spent, calls, named, seen, blurred>>
    BY <1>2 DEF CacheHit, RestOfCatalog
  <2>2. req[r].m \in Merchants /\ req[r].q \in Questions
    BY <1>0, <2>1, CatalogAssumption DEF Proper
  <2>3. Entry(req[r]).age \in Nat
    BY <2>2 DEF Typed, CacheOK, Entries, Entry
  <2> QED
    BY <1>0, <2>1, <2>3, AnsweredRecord
<1> QED
  BY <1>1, <1>2

\* What the provider's result refers to is noted.
LEMMA NotingMoves ==
  ASSUME Typed, NEW r \in Requests, req[r].c \in Customers, NEW ref \in Posts \cup {None},
         Names(req[r], ref)
  PROVE  /\ Noting(req[r].ctx, ref) \in Contexts
         /\ Noting(req[r].ctx, ref).shown = req[r].ctx.shown
         /\ Noting(req[r].ctx, ref).last = IF ref = None THEN req[r].ctx.last ELSE ref
         /\ named' \in [Customers -> SUBSET Posts]
         /\ \A c \in Customers : named[c] \subseteq named'[c]
         /\ ref # None => ref \in named'[req[r].c]
<1>1. req[r].ctx \in Contexts /\ named \in [Customers -> SUBSET Posts]
  BY ReqTyped, RecordOf DEF Typed, TalkOK
<1>2. /\ Noting(req[r].ctx, ref) \in Contexts
      /\ Noting(req[r].ctx, ref).shown = req[r].ctx.shown
      /\ Noting(req[r].ctx, ref).last = IF ref = None THEN req[r].ctx.last ELSE ref
  BY <1>1 DEF Noting, Contexts
<1>3. /\ named' \in [Customers -> SUBSET Posts]
      /\ \A c \in Customers : named[c] \subseteq named'[c]
      /\ ref # None => ref \in named'[req[r].c]
  BY <1>1 DEF Names
<1> QED
  BY <1>2, <1>3

\* An answer of the provider.
LEMMA GenerateMoves ==
  ASSUME Typed, NEW r \in Requests, NEW ref \in Posts \cup {None}, Generate(r, ref)
  PROVE  /\ \E rec \in RequestRecords :
            /\ Moved(r, rec) /\ Proper(rec) /\ SameMessage(rec, req[r])
            /\ rec.step = "reply" /\ rec.log = req[r].log
            /\ rec.new = Noting(req[r].ctx, ref)
            /\ rec.said.how = "llm" /\ rec.said.age = req[r].at
         /\ req[r].step = "generate" /\ req[r].c \in Customers
         /\ Subject(req[r]) \in Posts /\ Names(req[r], ref)
         /\ UNCHANGED <<catalogVars, rough, known, ctx, logs, spent, calls, seen, blurred>>
<1> USE CatalogAssumption, AnsweringAssumption
<1>0. /\ req[r] \in RequestRecords /\ Proper(req[r]) /\ req[r].ctx \in Contexts
      /\ req[r].at \in Nat
  BY ReqTyped, RecordOf
<1>1. /\ Answer(r, Noting(req[r].ctx, ref), "llm", Subject(req[r]), req[r].at)
      /\ req[r].step = "generate" /\ Subject(req[r]) # None /\ Names(req[r], ref)
      /\ UNCHANGED <<catalogVars, rough, known, ctx, logs, spent, calls, seen, blurred>>
  BY DEF Generate, RestOfCatalog
<1>2. req[r].c \in Customers
  BY <1>0, <1>1 DEF Proper
<1>3. Subject(req[r]) \in Posts
  BY <1>0, <1>1 DEF Subject, Contexts
<1>4. PICK new \in Contexts : new = Noting(req[r].ctx, ref)
  BY <1>1, <1>2, NotingMoves
<1> QED
  BY <1>0, <1>1, <1>2, <1>3, <1>4, AnsweredRecord

\* No answer of the provider: the hand-off's.
LEMMA NothingMoves ==
  ASSUME Typed, NEW r \in Requests, NEW ref \in Posts \cup {None}, GenerateNothing(r, ref)
  PROVE  /\ \E rec \in RequestRecords :
            /\ Moved(r, rec) /\ Proper(rec) /\ SameMessage(rec, req[r])
            /\ rec.step = "reply" /\ rec.log = req[r].log /\ rec.said = req[r].said
            /\ rec.new = Noting(req[r].ctx, ref)
         /\ req[r].step = "generate" /\ req[r].c \in Customers /\ Names(req[r], ref)
         /\ UNCHANGED <<catalogVars, rough, known, ctx, logs, cache, spent, calls, seen, blurred>>
<1> USE CatalogAssumption, AnsweringAssumption
<1>0. req \in [Requests -> RequestRecords] /\ req[r] \in RequestRecords /\ Proper(req[r])
  BY ReqTyped
<1>1. /\ req' = [req EXCEPT ![r].step = "reply", ![r].at = 0,
                            ![r].new = Noting(req[r].ctx, ref)]
      /\ req[r].step = "generate" /\ Names(req[r], ref)
      /\ UNCHANGED <<catalogVars, rough, known, ctx, logs, cache, spent, calls, seen, blurred>>
  BY DEF GenerateNothing, RestOfCatalog
<1>2. req[r].c \in Customers
  BY <1>0, <1>1 DEF Proper
<1>3. PICK new \in Contexts : new = Noting(req[r].ctx, ref)
  BY <1>1, <1>2, NotingMoves
<1>4. PICK one : one = [req[r] EXCEPT !.step = "reply"]
  OBVIOUS
<1>5. /\ one \in RequestRecords /\ SameMessage(one, req[r])
      /\ one.step = "reply" /\ one.log = req[r].log /\ one.said = req[r].said
  BY <1>0, <1>4 DEF RequestRecords, SameMessage, SameUpdate
<1>6. PICK two : two = [one EXCEPT !.at = 0]
  OBVIOUS
<1>7. /\ two \in RequestRecords /\ SameMessage(two, req[r]) /\ two.at = 0
      /\ two.step = "reply" /\ two.log = req[r].log /\ two.said = req[r].said
  BY <1>5, <1>6 DEF RequestRecords, SameMessage, SameUpdate
<1>8. PICK rec : rec = [two EXCEPT !.new = new]
  OBVIOUS
<1>9. /\ rec \in RequestRecords /\ SameMessage(rec, req[r]) /\ rec.at = 0
      /\ rec.step = "reply" /\ rec.log = req[r].log /\ rec.said = req[r].said
      /\ rec.new = new
  BY <1>7, <1>8 DEF RequestRecords, SameMessage, SameUpdate
<1>10. Patience(req[r].m) \in Nat
  BY Spans
<1>11. Proper(rec)
  BY <1>0, <1>1, <1>9, <1>10 DEF Proper, SameMessage, SameUpdate
<1>12. Moved(r, rec)
  BY ONLY <1>0, <1>1, <1>3, <1>4, <1>6, <1>8 DEF Moved
<1> QED
  BY <1>1, <1>2, <1>3, <1>9, <1>11, <1>12

\* A carousel.
LEMMA CarouselMoves ==
  ASSUME Typed, NEW r \in Requests, NEW l \in Logs, NEW shown \in Carousels,
         SendCarousel(r, l, shown)
  PROVE  /\ \E rec \in RequestRecords :
            /\ Moved(r, rec) /\ Proper(rec) /\ SameMessage(rec, req[r])
            /\ rec.step = "reply" /\ rec.new = Seeing(req[r].new, shown)
            /\ rec.said = req[r].said /\ rec.log = l
         /\ req[r].step = "photo" /\ req[r].c \in Customers
         /\ \A i \in DOMAIN shown : shown[i] \in Posts /\ SeenBy(req[r].m, shown[i]) # NoProduct
         /\ logs' = [logs EXCEPT ![l] = [c |-> req[r].c, shown |-> shown, state |-> "sent"]]
         /\ seen' = [seen EXCEPT ![req[r].c] = shown]
         /\ blurred' = IF Sending(req[r].c) THEN blurred \cup {req[r].c} ELSE blurred
         /\ UNCHANGED <<catalogVars, rough, known, ctx, cache, spent, calls, named>>
<1>1. PICK n \in 1..DISPLAY_K : shown \in [1..n -> Posts]
  BY DEF Carousels
<1>2. DOMAIN shown = 1..Len(shown) /\ \A i \in DOMAIN shown : shown[i] \in Posts
  BY <1>1, AnsweringAssumption
<1>3. req[r].step = "photo"
  BY DEF SendCarousel
<1>4. req[r].c \in Customers
  BY <1>3, ReqTyped DEF Proper
<1>5. \A i \in DOMAIN shown : SeenBy(req[r].m, shown[i]) # NoProduct
  BY <1>2 DEF SendCarousel
<1>6. /\ logs' = [logs EXCEPT ![l] = [c |-> req[r].c, shown |-> shown, state |-> "sent"]]
      /\ seen' = [seen EXCEPT ![req[r].c] = shown]
      /\ blurred' = IF Sending(req[r].c) THEN blurred \cup {req[r].c} ELSE blurred
      /\ UNCHANGED <<catalogVars, rough, known, ctx, cache, spent, calls, named>>
  BY DEF SendCarousel, RestOfCatalog, Blur
<1> QED
  BY <1>2, <1>3, <1>4, <1>5, <1>6, CarouselRecord

\* The updates that reach the catalogue.
LEMMA PostStarts ==
  ASSUME Typed, NEW r \in Requests, NEW m \in Merchants, NEW p \in Posts, NEW v \in Versions,
         ReceivePost(r, m, p, v)
  PROVE  \E rec \in RequestRecords :
         /\ Starts(r, rec)
         /\ IsBegun(rec, "post", "load", m, None, p, v, channel[m], SeenBy(m, p), {},
                    NoContext, NoContext, None, None)
<1>1. PICK rec \in RequestRecords :
        /\ rec = Ingesting("post", m, p, v) /\ Proper(rec)
        /\ IsBegun(rec, "post", "load", m, None, p, v, channel[m], SeenBy(m, p), {},
                   NoContext, NoContext, None, None)
  BY IngestingRecord
<1>2. Begin(r, rec)
  BY <1>1 DEF ReceivePost
<1> QED
  BY <1>1, <1>2 DEF Starts, Begin, Moved, IsBegun

\* A backfill starts one request with what it loaded.
LEMMA BackfillStarts ==
  ASSUME Typed, NEW r \in Requests, NEW a \in Admins, NEW p \in Posts, NEW v \in Versions,
         ReceiveBackfill(r, a, p, v)
  PROVE  \E rec \in RequestRecords :
         /\ Starts(r, rec)
         /\ IsBegun(rec, "backfill", "load", AdminOf[a], None, p, v, channel[AdminOf[a]],
                    SeenBy(AdminOf[a], p), {}, NoContext, NoContext, None, None)
<1>0. AdminOf[a] \in Merchants
  BY CatalogAssumption
<1>1. PICK rec \in RequestRecords :
        /\ rec = Ingesting("backfill", AdminOf[a], p, v) /\ Proper(rec)
        /\ IsBegun(rec, "backfill", "load", AdminOf[a], None, p, v, channel[AdminOf[a]],
                   SeenBy(AdminOf[a], p), {}, NoContext, NoContext, None, None)
  BY <1>0, IngestingRecord
<1>2. Begin(r, rec)
  BY <1>1 DEF ReceiveBackfill
<1> QED
  BY <1>1, <1>2 DEF Starts, Begin, Moved, IsBegun

\* A customer's pointer to a product, or to a post of the shop's channel.
LEMMA PointerStarts ==
  ASSUME Typed, NEW r \in Requests, NEW c \in Customers, NEW p \in Posts,
         Link(r, c, p) \/ \E v \in Versions : Forward(r, c, p, v)
  PROVE  /\ \E rec \in RequestRecords :
            /\ Starts(r, rec)
            /\ rec.m = ShopOf[c] /\ rec.c = c /\ rec.post = p
            /\ rec.ctx = ctx[c] /\ rec.new = About(ctx[c], p) /\ rec.q = None
            /\ rec.old = SeenBy(ShopOf[c], p)
            /\ \/ /\ rec.ver = 0 /\ rec.step = "notify" /\ rec.kind \in {"forward", "link"}
                  /\ SeenBy(ShopOf[c], p) # NoProduct
               \/ /\ rec.ver # 0 /\ rec.step = "load" /\ rec.kind = "forward"
                  /\ SeenBy(ShopOf[c], p) = NoProduct /\ channel[ShopOf[c]] = ChannelOf[p]
         /\ blurred' = IF Sending(c) THEN blurred \cup {c} ELSE blurred
         /\ UNCHANGED <<catalogVars, known, ctx, logs, cache, spent, calls, named, seen>>
<1>0. ctx[c] \in Contexts
  BY DEF Typed, TalkOK
<1>1. /\ blurred' = IF Sending(c) THEN blurred \cup {c} ELSE blurred
      /\ UNCHANGED <<catalogVars, known, ctx, logs, cache, spent, calls, named, seen>>
  BY DEF Link, Forward, Enter, Blur, ReceiveLink, ReceiveForward
<1>2. CASE SeenBy(ShopOf[c], p) # NoProduct
  <2>1. PICK kind \in {"forward", "link"} : Begin(r, Known(kind, c, p, ctx[c]))
    BY <1>2 DEF Link, Forward, ReceiveLink, ReceiveForward
  <2>2. PICK rec \in RequestRecords, todo \in SUBSET Admins :
          /\ rec = Known(kind, c, p, ctx[c]) /\ Proper(rec)
          /\ IsBegun(rec, kind, "notify", ShopOf[c], c, p, 0, None, SeenBy(ShopOf[c], p), todo,
                     ctx[c], [ctx[c] EXCEPT !.last = p], None, None)
    BY <1>0, KnownRecord
  <2>3. Starts(r, rec)
    BY <2>1, <2>2 DEF Starts, Begin, Moved, IsBegun
  <2> QED
    BY <1>1, <1>2, <2>2, <2>3 DEF IsBegun, About
<1>3. CASE SeenBy(ShopOf[c], p) = NoProduct
  <2>1. PICK v \in Versions :
          /\ channel[ShopOf[c]] = ChannelOf[p]
          /\ Begin(r, [Ingesting("forward", ShopOf[c], p, v) EXCEPT
                         !.c = c, !.ctx = ctx[c], !.new = [ctx[c] EXCEPT !.last = p]])
    BY <1>3 DEF Link, Forward, ReceiveLink, ReceiveForward
  <2>2. PICK rec \in RequestRecords :
          /\ rec = [Ingesting("forward", ShopOf[c], p, v) EXCEPT
                      !.c = c, !.ctx = ctx[c], !.new = [ctx[c] EXCEPT !.last = p]]
          /\ Proper(rec)
          /\ IsBegun(rec, "forward", "load", ShopOf[c], c, p, v, channel[ShopOf[c]],
                     SeenBy(ShopOf[c], p), {}, ctx[c], [ctx[c] EXCEPT !.last = p], None, None)
    BY <1>0, ForwardedRecord
  <2>3. Starts(r, rec)
    BY <2>1, <2>2 DEF Starts, Begin, Moved, IsBegun
  <2>4. v # 0
    BY DEF Versions
  <2> QED
    BY <1>1, <1>3, <2>1, <2>2, <2>3, <2>4 DEF IsBegun, About
<1> QED
  BY <1>2, <1>3

\* What a question means is a post, or nothing.
LEMMA MeantTyped ==
  ASSUME Typed, NEW c \in Customers, NEW q \in Questions
  PROVE  Meant(c, q) \in Posts \cup {None}
<1> USE AnsweringAssumption
<1>1. ctx[c].last \in Posts \cup {None} /\ seen[c] \in Carousels \cup {<<>>}
  BY DEF Typed, TalkOK, Contexts
<1>2. \A i \in Ordinals : i <= Len(seen[c]) => seen[c][i] \in Posts
  <2>1. CASE seen[c] = <<>>
    BY <2>1 DEF Ordinals
  <2>2. CASE seen[c] \in Carousels
    <3>1. PICK n \in 1..DISPLAY_K : seen[c] \in [1..n -> Posts]
      BY <2>2 DEF Carousels
    <3> QED
      BY <3>1 DEF Ordinals
  <2> QED
    BY <1>1, <2>1, <2>2
<1>3. CASE q \in Ordinals
  BY <1>2, <1>3 DEF Meant
<1>4. CASE q \notin Ordinals
  BY <1>1, <1>4 DEF Meant, Questions
<1> QED
  BY <1>3, <1>4

\* A text, a photo.
LEMMA MessageStarts ==
  ASSUME Typed, NEW r \in Requests, NEW c \in Customers,
         (\E q \in Questions : ReceiveText(r, c, q)) \/ ReceivePhoto(r, c)
  PROVE  /\ \E rec \in RequestRecords :
            /\ Starts(r, rec)
            /\ rec.m = ShopOf[c] /\ rec.c = c /\ rec.post = None /\ rec.ver = 0
            /\ rec.ctx = ctx[c] /\ rec.new = ctx[c] /\ rec.step \in {"text", "photo"}
            /\ rec.q = None \/ rec.aim = Meant(c, rec.q)
         /\ blurred' = IF Sending(c) THEN blurred \cup {c} ELSE blurred
         /\ UNCHANGED <<catalogVars, rough, known, ctx, logs, cache, spent, calls, named, seen>>
<1>1. CASE \E q \in Questions : ReceiveText(r, c, q)
  <2>1. PICK q \in Questions : ReceiveText(r, c, q)
    BY <1>1
  <2>5. PICK aim \in Posts \cup {None} : aim = Meant(c, q)
    BY MeantTyped
  <2>2. PICK rec \in RequestRecords :
          /\ rec = [Asking("text", c) EXCEPT !.q = q, !.aim = aim] /\ Proper(rec)
          /\ IsBegun(rec, "text", "text", ShopOf[c], c, None, 0, None, NoProduct, {},
                     ctx[c], ctx[c], q, aim)
    BY AskingRecord
  <2>3. Begin(r, rec) /\ Enter(c) /\ UNCHANGED catalogVars
    BY <2>1, <2>2, <2>5 DEF ReceiveText
  <2>4. Starts(r, rec) /\ UNCHANGED rough
    BY <2>2, <2>3 DEF Starts, Begin, Moved, IsBegun
  <2> QED
    BY <2>2, <2>3, <2>4, <2>5 DEF IsBegun, Enter, Blur
<1>2. CASE ReceivePhoto(r, c)
  <2>1. PICK q : q \in Questions
    BY DEF Questions
  <2>2. PICK rec \in RequestRecords :
          /\ rec = Asking("photo", c) /\ Proper(rec)
          /\ IsBegun(rec, "photo", "photo", ShopOf[c], c, None, 0, None, NoProduct, {},
                     ctx[c], ctx[c], None, None)
    BY <2>1, AskingRecord
  <2>3. Begin(r, rec) /\ Enter(c) /\ UNCHANGED catalogVars
    BY <1>2, <2>2 DEF ReceivePhoto
  <2>4. Starts(r, rec) /\ UNCHANGED rough
    BY <2>2, <2>3 DEF Starts, Begin, Moved, IsBegun
  <2> QED
    BY <2>2, <2>3, <2>4 DEF IsBegun, Enter, Blur
<1> QED
  BY <1>1, <1>2

\* A tap starts one request, about a product.
LEMMA TapStarts ==
  ASSUME Typed, NEW r \in Requests, NEW l \in Logs, NEW p \in Posts, ReceiveTap(r, l, p)
  PROVE  /\ logs[l].c \in Customers
         /\ \E rec \in RequestRecords :
            /\ Starts(r, rec)
            /\ rec.m = ShopOf[logs[l].c] /\ rec.c = logs[l].c /\ rec.post = None /\ rec.ver = 0
            /\ rec.ctx = ctx[logs[l].c] /\ rec.new = About(ctx[logs[l].c], p)
            /\ rec.step = "reply" /\ rec.q = None
         /\ blurred' = IF Sending(logs[l].c) THEN blurred \cup {logs[l].c} ELSE blurred
         /\ UNCHANGED <<catalogVars, rough, known, ctx, logs, cache, spent, calls, named, seen>>
<1>0. PICK c : c = logs[l].c
  OBVIOUS
<1>1. /\ Enter(c) /\ UNCHANGED catalogVars
      /\ Begin(r, [Asking("tap", c) EXCEPT !.step = "reply", !.new.last = p])
  BY <1>0 DEF ReceiveTap
<1>2. c \in Customers
  BY <1>1, CatalogAssumption DEF Enter, Typed, ShelfOK
<1>3. PICK rec \in RequestRecords :
        /\ rec = [Asking("tap", c) EXCEPT !.step = "reply", !.new.last = p] /\ Proper(rec)
        /\ IsBegun(rec, "tap", "reply", ShopOf[c], c, None, 0, None, NoProduct, {},
                   ctx[c], [ctx[c] EXCEPT !.last = p], None, None)
  BY <1>2, TapRecord
<1>4. Starts(r, rec) /\ UNCHANGED rough
  BY <1>1, <1>3 DEF Starts, Begin, Moved, IsBegun
<1> QED
  BY <1>0, <1>1, <1>2, <1>3, <1>4 DEF IsBegun, Enter, Blur, About

\* What the buttons of a carousel lead to.
LEMMA ButtonsTyped ==
  ASSUME Typed, NEW l \in Logs
  PROVE  Buttons(l) \subseteq Posts
<1>1. logs[l].shown \in Carousels \cup {<<>>}
  BY DEF Typed, TalkOK, LogRows
<1>2. CASE logs[l].shown = <<>>
  BY <1>2 DEF Buttons
<1>3. CASE logs[l].shown \in Carousels
  <2>1. PICK n \in 1..DISPLAY_K : logs[l].shown \in [1..n -> Posts]
    BY <1>3 DEF Carousels
  <2> QED
    BY <2>1 DEF Buttons
<1> QED
  BY <1>1, <1>2, <1>3

\* The end of a request, with its commit or without.
Ends(r) == Commit(r) \/ CommitCatalog(r) \/ Fail(r)

\* A request that ends leaves an idle slot.
LEMMA EndMoves ==
  ASSUME NEW r \in Requests, Ends(r)
  PROVE  Moved(r, Idle)
BY DEF Ends, Commit, CommitCatalog, Fail, StoreCatalog, LoseCatalog, Moved

\* A customer's update begins.
CustomerStarts(r) ==
  \/ \E c \in Customers : (\E q \in Questions : ReceiveText(r, c, q)) \/ ReceivePhoto(r, c)
  \/ \E l \in Logs, p \in Posts : p \in Buttons(l) /\ ReceiveTap(r, l, p)
  \/ \E c \in Customers, p \in Posts :
       Link(r, c, p) \/ \E v \in Versions : Forward(r, c, p, v)

\* An answer is made.
AnswersIt(r) ==
  \/ OrdinalReply(r) \/ CacheHit(r)
  \/ \E ref \in Posts \cup {None} : Generate(r, ref) \/ GenerateNothing(r, ref)
  \/ \E l \in Logs, s \in Carousels : SendCarousel(r, l, s)

\* The steps of the storefront, by what they may write.
LEMMA StepCases ==
  ASSUME Typed, [Next]_vars
  PROVE  \/ UNCHANGED vars
         \/ UpdateStep /\ UNCHANGED answerVars
         \/ Tick
         \/ \E r \in Requests : CustomerStarts(r) \/ Passing(r) \/ AnswersIt(r) \/ Ends(r)
<1>1. CASE CatalogStep
  BY <1>1 DEF CatalogStep, UpdateStep, Hows
<1>2. ASSUME NEW r \in Requests, Incoming(r) PROVE CustomerStarts(r)
  BY <1>2, ButtonsTyped DEF Incoming, CustomerStarts
<1>3. ASSUME NEW r \in Requests, Working(r) PROVE Passing(r) \/ AnswersIt(r) \/ Ends(r)
  BY <1>3 DEF Working, Passing, AnswersIt, Ends
<1> QED
  BY <1>1, <1>2, <1>3 DEF Next

\* Every step keeps the requests typed,
LEMMA ReqStep ==
  ASSUME Typed, [Next]_vars
  PROVE  ReqOK'
<1>0. /\ req \in [Requests -> RequestRecords] /\ \A r \in Requests : Proper(req[r])
      /\ Idle \in RequestRecords /\ Proper(Idle)
  BY ReqTyped, IdleRecord
<1>a. ASSUME NEW r \in Requests, NEW rec \in RequestRecords, Moved(r, rec), Proper(rec)
      PROVE  ReqOK'
  BY <1>0, <1>a DEF Moved, ReqOK
<1>b. ASSUME NEW r \in Requests, NEW rec \in RequestRecords, Starts(r, rec) PROVE ReqOK'
  BY <1>a, <1>b DEF Starts
<1>c. ASSUME UNCHANGED req PROVE ReqOK'
  BY <1>0, <1>c DEF ReqOK
<1>1. CASE UNCHANGED vars
  BY <1>1, <1>c DEF vars
<1>2. CASE UpdateStep /\ UNCHANGED answerVars
  <2>1. ASSUME NEW p \in Posts, Post(p) PROVE ReqOK'
    BY <1>c, <2>1 DEF Post
  <2>2. ASSUME NEW r \in Requests, NEW m \in Merchants, NEW p \in Posts, NEW v \in Versions,
               ReceivePost(r, m, p, v)
        PROVE  ReqOK'
    BY <1>b, <2>2, PostStarts
  <2>3. ASSUME NEW r \in Requests, NEW m \in Merchants, NEW p \in Posts, NEW v \in Versions,
               IgnorePost(r, m, p, v)
        PROVE  ReqOK'
    BY <1>c, <2>3 DEF IgnorePost
  <2>4. ASSUME NEW r \in Requests, NEW a \in Admins, NEW p \in Posts, NEW v \in Versions,
               ReceiveBackfill(r, a, p, v)
        PROVE  ReqOK'
    BY <1>b, <2>4, BackfillStarts
  <2>5. ASSUME NEW r \in Requests, Flush(r) PROVE ReqOK'
    BY <1>a, <2>5, FlushRecord
  <2>6. ASSUME NEW r \in Requests, NEW a \in Admins, NEW row \in {"none", "told", "silent"},
               NEW how \in Hows, Notify(r, a, row, how)
        PROVE  ReqOK'
    BY <1>a, <2>6, NotifyRecord
  <2> QED
    BY <1>2, <2>1, <2>2, <2>3, <2>4, <2>5, <2>6 DEF UpdateStep
<1>3. CASE Tick
  <2>1. \A r \in Requests : req'[r] \in RequestRecords /\ Proper(req'[r])
    BY <1>3, TickRecord
  <2>2. req' = [r \in Requests |-> req'[r]]
    BY <1>3 DEF Tick
  <2> QED
    BY <2>1, <2>2 DEF ReqOK
<1>4. ASSUME NEW r \in Requests, CustomerStarts(r) PROVE ReqOK'
  <2>1. ASSUME NEW c \in Customers,
               (\E q \in Questions : ReceiveText(r, c, q)) \/ ReceivePhoto(r, c)
        PROVE  ReqOK'
    BY <1>b, <2>1, MessageStarts
  <2>2. ASSUME NEW l \in Logs, NEW p \in Posts, ReceiveTap(r, l, p) PROVE ReqOK'
    BY <1>b, <2>2, TapStarts
  <2>3. ASSUME NEW c \in Customers, NEW p \in Posts,
               Link(r, c, p) \/ \E v \in Versions : Forward(r, c, p, v)
        PROVE  ReqOK'
    <3>1. \E rec \in RequestRecords : Starts(r, rec)
      BY <2>3, PointerStarts
    <3> QED
      BY <1>b, <3>1
  <2> QED
    BY <1>4, <2>1, <2>2, <2>3 DEF CustomerStarts
<1>5. ASSUME NEW r \in Requests, Passing(r) PROVE ReqOK'
  BY <1>5, <1>a, PassingMoves
<1>6. ASSUME NEW r \in Requests, AnswersIt(r) PROVE ReqOK'
  BY <1>6, <1>a, LookupMoves, GenerateMoves, NothingMoves, CarouselMoves DEF AnswersIt
<1>7. ASSUME NEW r \in Requests, Ends(r) PROVE ReqOK'
  BY <1>7, <1>0, <1>a, EndMoves
<1> QED
  BY <1>1, <1>2, <1>3, <1>4, <1>5, <1>6, <1>7, StepCases

\* What a request ends with.
LEMMA OutcomeTyped ==
  ASSUME Typed, NEW rec \in RequestRecords, rec.m \in Merchants, rec.post \in Posts
  PROVE  /\ Outcome(rec) \in Products
         /\ \A now \in Products :
              LET new == Merged(rec.old, Outcome(rec), now) IN
              /\ new \in Products
              /\ new.owner = IF rec.m # rec.old.owner THEN rec.m ELSE now.owner
              /\ new.text = IF rec.ver # rec.old.text THEN rec.ver ELSE now.text
              /\ new.price = IF Outcome(rec).price # rec.old.price THEN Outcome(rec).price
                             ELSE now.price
              /\ new.status = IF Outcome(rec).status # rec.old.status THEN Outcome(rec).status
                              ELSE now.status
<1>1. rec.old \in Products /\ rec.ver \in 0..MaxVersion
  BY RecordOf
<1>2. PICK price \in 0..MaxVersion :
        price = IF <<rec.post, rec.ver>> \in Priced THEN rec.ver ELSE rec.old.price
  BY <1>1 DEF Products
<1>3. PICK status \in {None, "missing", "set"} :
        status = IF <<rec.post, rec.ver>> \in Priced THEN "set"
                 ELSE IF rec.old.status = None THEN "missing" ELSE rec.old.status
  BY <1>1 DEF Products
<1>4. Outcome(rec) = [owner |-> rec.m, text |-> rec.ver, price |-> price, status |-> status]
  BY <1>2, <1>3 DEF Outcome, Ingested
<1>5. PICK new : new = Outcome(rec)
  OBVIOUS
<1>6. /\ new \in Products /\ DOMAIN new = {"owner", "text", "price", "status"}
      /\ new.owner = rec.m /\ new.text = rec.ver /\ new.price = price /\ new.status = status
  BY <1>1, <1>4, <1>5 DEF Products
<1>7. ASSUME NEW now \in Products
      PROVE  \E x \in Products :
             /\ x = Merged(rec.old, new, now)
             /\ x.owner = IF new.owner # rec.old.owner THEN new.owner ELSE now.owner
             /\ x.text = IF new.text # rec.old.text THEN new.text ELSE now.text
             /\ x.price = IF new.price # rec.old.price THEN new.price ELSE now.price
             /\ x.status = IF new.status # rec.old.status THEN new.status ELSE now.status
  <2>1. PICK x : x = Merged(rec.old, new, now)
    OBVIOUS
  <2>2. /\ DOMAIN x = {"owner", "text", "price", "status"}
        /\ x.owner = IF new.owner # rec.old.owner THEN new.owner ELSE now.owner
        /\ x.text = IF new.text # rec.old.text THEN new.text ELSE now.text
        /\ x.price = IF new.price # rec.old.price THEN new.price ELSE now.price
        /\ x.status = IF new.status # rec.old.status THEN new.status ELSE now.status
    BY <1>6, <2>1 DEF Merged
  <2>3. x = [f \in {"owner", "text", "price", "status"} |-> x[f]]
    BY <1>6, <2>1 DEF Merged
  <2>4. /\ x.owner \in Merchants \cup {None} /\ x.text \in 0..MaxVersion
        /\ x.price \in 0..MaxVersion /\ x.status \in {None, "missing", "set"}
    BY <1>1, <1>6, <2>2 DEF Products
  <2>5. x = [owner |-> x.owner, text |-> x.text, price |-> x.price, status |-> x.status]
    BY <2>3
  <2>6. x \in Products
    BY <2>4, <2>5 DEF Products
  <2> QED
    BY <2>1, <2>2, <2>6
<1> QED
  BY <1>5, <1>6, <1>7

\* the catalogue,
LEMMA ShelfStep ==
  ASSUME Typed, [Next]_vars
  PROVE  ShelfOK'
<1> USE CatalogAssumption
<1>0. ShelfOK /\ \A r \in Requests : req[r] \in RequestRecords /\ Proper(req[r])
  BY ReqTyped DEF Typed
<1>a. ASSUME NEW p \in Posts \cup {None}, rough' = rough \/ rough' = rough \cup ({p} \ {None}),
             UNCHANGED catalogVars
      PROVE  ShelfOK'
  BY <1>0, <1>a DEF ShelfOK, catalogVars, stored
<1>b. ASSUME NEW r \in Requests, NEW rec \in RequestRecords, Starts(r, rec),
             UNCHANGED <<agenda, version, stored, notes>>,
             inbox' \in [Merchants -> [Posts -> SUBSET Versions]]
      PROVE  ShelfOK'
  <2>1. rec.post \in Posts \cup {None}
    BY RecordOf
  <2>2. rough' \subseteq Posts
    BY <1>0, <1>b, <2>1 DEF Starts, ShelfOK
  <2> QED
    BY <1>0, <1>b, <2>2 DEF ShelfOK, stored
<1>1. CASE UNCHANGED vars
  BY <1>0, <1>1 DEF vars, catalogVars, stored, ShelfOK
<1>2. CASE UpdateStep /\ UNCHANGED answerVars
  <2>1. ASSUME NEW p \in Posts, Post(p) PROVE ShelfOK'
    <3>1. agenda.feed \in [Posts -> 0..MaxVersion]
      BY <1>0 DEF ShelfOK
    <3>2. version[p] + 1 \in Versions
      BY <1>0, <2>1, <3>1 DEF Post, ShelfOK, Versions
    <3>3. version' \in [Posts -> 0..MaxVersion]
      BY <1>0, <2>1, <3>2 DEF Post, ShelfOK, Versions
    <3>4. \A m \in Merchants : inbox'[m] \in [Posts -> SUBSET Versions]
      BY <1>0, <2>1, <3>2 DEF Post, ShelfOK
    <3>5. inbox' \in [Merchants -> [Posts -> SUBSET Versions]]
      BY <2>1, <3>4 DEF Post
    <3> QED
      BY <1>0, <2>1, <3>3, <3>5 DEF Post, ShelfOK, stored
  <2>2. ASSUME NEW r \in Requests, NEW m \in Merchants, NEW p \in Posts, NEW v \in Versions,
               ReceivePost(r, m, p, v)
        PROVE  ShelfOK'
    <3>1. inbox' \in [Merchants -> [Posts -> SUBSET Versions]]
      BY <1>0, <2>2 DEF ReceivePost, Delivered, ShelfOK
    <3> QED
      BY <1>b, <2>2, <3>1, PostStarts DEF ReceivePost
  <2>3. ASSUME NEW r \in Requests, NEW m \in Merchants, NEW p \in Posts, NEW v \in Versions,
               IgnorePost(r, m, p, v)
        PROVE  ShelfOK'
    <3>1. inbox' \in [Merchants -> [Posts -> SUBSET Versions]]
      BY <1>0, <2>3 DEF IgnorePost, Delivered, ShelfOK
    <3> QED
      BY <1>0, <2>3, <3>1 DEF IgnorePost, ShelfOK, stored
  <2>4. ASSUME NEW r \in Requests, NEW a \in Admins, NEW p \in Posts, NEW v \in Versions,
               ReceiveBackfill(r, a, p, v)
        PROVE  ShelfOK'
    BY <1>0, <1>b, <2>4, BackfillStarts DEF ReceiveBackfill, catalogVars, ShelfOK
  <2>5. ASSUME NEW r \in Requests, Flush(r) PROVE ShelfOK'
    BY <1>a, <2>5 DEF Flush
  <2>6. ASSUME NEW r \in Requests, NEW a \in Admins, NEW row \in {"none", "told", "silent"},
               NEW how \in Hows, Notify(r, a, row, how)
        PROVE  ShelfOK'
    <3>1. notes' \in [Admins -> [Posts -> 0..2]]
      <4>1. CASE UNCHANGED notes
        BY <1>0, <4>1 DEF ShelfOK
      <4>2. CASE notes' = [notes EXCEPT ![a][req[r].post] = Noted(@, how)]
        <5>1. req[r].post \in Posts
          BY <1>0, <2>6 DEF Notify, Proper
        <5>2. notes[a][req[r].post] \in 0..2
          BY <1>0, <5>1 DEF ShelfOK
        <5>3. PICK n \in 0..2 : n = Noted(notes[a][req[r].post], how)
          BY <5>2 DEF Noted
        <5>4. notes' = [notes EXCEPT ![a][req[r].post] = n]
          BY <4>2, <5>3
        <5> QED
          BY <1>0, <5>1, <5>4 DEF ShelfOK
      <4> QED
        BY <2>6, <4>1, <4>2 DEF Notify
    <3> QED
      BY <1>0, <2>6, <3>1 DEF Notify, ShelfOK, stored
  <2> QED
    BY <1>2, <2>1, <2>2, <2>3, <2>4, <2>5, <2>6 DEF UpdateStep
<1>3. CASE Tick
  BY <1>3, <1>a DEF Tick, RestOfCatalog
<1>4. ASSUME NEW r \in Requests, CustomerStarts(r) PROVE ShelfOK'
  <2>1. ASSUME NEW c \in Customers,
               (\E q \in Questions : ReceiveText(r, c, q)) \/ ReceivePhoto(r, c)
        PROVE  ShelfOK'
    BY <1>a, <2>1, MessageStarts
  <2>2. ASSUME NEW l \in Logs, NEW p \in Posts, ReceiveTap(r, l, p) PROVE ShelfOK'
    BY <1>a, <2>2, TapStarts
  <2>3. ASSUME NEW c \in Customers, NEW p \in Posts,
               Link(r, c, p) \/ \E v \in Versions : Forward(r, c, p, v)
        PROVE  ShelfOK'
    <3>1. UNCHANGED catalogVars /\ \E rec \in RequestRecords : Starts(r, rec)
      BY <2>3, PointerStarts
    <3> QED
      BY <1>0, <1>b, <3>1 DEF catalogVars, ShelfOK
  <2> QED
    BY <1>4, <2>1, <2>2, <2>3 DEF CustomerStarts
<1>5. ASSUME NEW r \in Requests, Passing(r) PROVE ShelfOK'
  BY <1>5, <1>a, PassingMoves
<1>6. ASSUME NEW r \in Requests, AnswersIt(r) PROVE ShelfOK'
  BY <1>6, <1>a, LookupMoves, GenerateMoves, NothingMoves, CarouselMoves DEF AnswersIt
<1>7. ASSUME NEW r \in Requests, Ends(r) PROVE ShelfOK'
  <2>1. CASE Commit(r)
    BY <1>a, <2>1 DEF Commit, RestOfCatalog
  <2>2. CASE CommitCatalog(r)
    <3> DEFINE rec == req[r]
    <3>1. StoreCatalog(r) /\ rec \in RequestRecords /\ rec.post \in Posts /\ rec.m \in Merchants
      BY <1>0, <2>2 DEF CommitCatalog, StoreCatalog, Proper
    <3>2. product' \in [Posts -> Products]
      <4>1. product[rec.post] \in Products
        BY <1>0, <3>1 DEF ShelfOK
      <4>2. PICK x \in Products : x = Merged(rec.old, Outcome(rec), product[rec.post])
        BY <3>1, <4>1, OutcomeTyped
      <4>3. product' = product \/ product' = [product EXCEPT ![rec.post] = x]
        BY <3>1, <4>2 DEF StoreCatalog
      <4> QED
        BY <1>0, <4>3 DEF ShelfOK
    <3>3. channel' \in [Merchants -> Channels \cup {None}] /\ heard' \in [Merchants -> SUBSET Channels]
      BY <1>0, <3>1 DEF ShelfOK, StoreCatalog
    <3>4. open' \in [Admins -> [Posts -> SUBSET {"told", "silent"}]]
      <4>1. rec.made \subseteq Admins \X {"none", "silent", "told"} \X {"told", "silent"}
        BY <3>1, RecordOf
      <4>2. ASSUME NEW a \in Admins PROVE open'[a] \in [Posts -> SUBSET {"told", "silent"}]
        <5>1. {e[3] : e \in {x \in rec.made : x[1] = a}} \subseteq {"told", "silent"}
          BY <4>1
        <5>2. open'[a] = [open[a] EXCEPT ![rec.post] =
                (@ \ {e[2] : e \in {x \in rec.made : x[1] = a}})
                   \cup {e[3] : e \in {x \in rec.made : x[1] = a}}]
          BY <3>1 DEF StoreCatalog
        <5>3. open[a] \in [Posts -> SUBSET {"told", "silent"}]
          BY <1>0 DEF ShelfOK
        <5> QED
          BY <3>1, <5>1, <5>2, <5>3
      <4>3. open' = [a \in Admins |-> open'[a]]
        BY <3>1 DEF StoreCatalog
      <4> QED
        BY <4>2, <4>3
    <3>5. newest' \in [Posts -> 0..MaxVersion]
      BY <1>0, <3>1, RecordOf DEF ShelfOK, StoreCatalog
    <3>6. backfilled' \subseteq Posts
      BY <1>0, <3>1 DEF ShelfOK, StoreCatalog
    <3>7. UNCHANGED <<agenda, version, inbox, notes, rough>>
      BY <3>1 DEF StoreCatalog
    <3> QED
      BY <1>0, <3>2, <3>3, <3>4, <3>5, <3>6, <3>7 DEF ShelfOK
  <2>3. CASE Fail(r)
    <3>1. LoseCatalog(r) /\ req[r] \in RequestRecords
      BY <1>0, <2>3 DEF Fail
    <3>2. rough' \subseteq Posts
      BY <1>0, <3>1, RecordOf DEF LoseCatalog, ShelfOK
    <3>3. inbox' \in [Merchants -> [Posts -> SUBSET Versions]]
      <4>1. CASE req[r].kind # "post"
        BY <1>0, <3>1, <4>1 DEF LoseCatalog, ShelfOK
      <4>2. CASE req[r].kind = "post"
        <5>1. req[r].ver \in Versions /\ req[r].m \in Merchants /\ req[r].post \in Posts
          BY <1>0, <4>2, RecordOf DEF Proper, Versions
        <5> QED
          BY <1>0, <3>1, <4>2, <5>1 DEF LoseCatalog, ShelfOK
      <4> QED
        BY <4>1, <4>2
    <3> QED
      BY <1>0, <3>1, <3>2, <3>3 DEF LoseCatalog, ShelfOK, stored
  <2> QED
    BY <1>7, <2>1, <2>2, <2>3 DEF Ends
<1> QED
  BY <1>1, <1>2, <1>3, <1>4, <1>5, <1>6, <1>7, StepCases

\* Contexts after an answer and after a carousel.
LEMMA ContextWith ==
  ASSUME NEW k \in Contexts
  PROVE  /\ \A p \in Posts \cup {None} :
              About(k, p) \in Contexts /\ About(k, p).last = p /\ About(k, p).shown = k.shown
         /\ \A s \in Carousels :
              Seeing(k, s) \in Contexts /\ Seeing(k, s).shown = s /\ Seeing(k, s).last = k.last
BY DEF Contexts, About, Seeing

\* What a commit writes of the conversation.
LEMMA StoredContext ==
  ASSUME Typed, NEW r \in Requests, req[r].c \in Customers, StoreContext(req[r])
  PROVE  /\ ctx' \in [Customers -> Contexts] /\ known' \subseteq Customers
         /\ ctx' = [ctx EXCEPT ![req[r].c] = ctx'[req[r].c]]
         /\ ctx'[req[r].c] = IF req[r].new # req[r].ctx \/ req[r].log # None
                            THEN req[r].new ELSE ctx[req[r].c]
         /\ blurred' = blurred \/ blurred' = blurred \cup {req[r].c}
<1>1. req[r].new \in Contexts /\ ctx \in [Customers -> Contexts] /\ known \subseteq Customers
  BY ReqTyped, RecordOf DEF Typed, TalkOK
<1> QED
  BY <1>1 DEF StoreContext, Blur

\* the conversations, and what their answers were,
LEMMA TalkStep ==
  ASSUME Typed, [Next]_vars
  PROVE  TalkOK'
<1>0. /\ TalkOK /\ \A r \in Requests : req[r] \in RequestRecords /\ Proper(req[r])
      /\ agenda.who \subseteq Customers /\ None \notin Posts \cup Customers
  BY ReqTyped, CatalogAssumption DEF Typed, ShelfOK
<1>a. ASSUME UNCHANGED <<known, ctx, logs, named, seen, blurred>> PROVE TalkOK'
  BY <1>0, <1>a DEF TalkOK
<1>b. ASSUME NEW c \in Customers, blurred' = IF Sending(c) THEN blurred \cup {c} ELSE blurred,
             UNCHANGED <<known, ctx, logs, named, seen>>
      PROVE  TalkOK'
  BY <1>0, <1>b DEF TalkOK
<1>1. CASE UNCHANGED vars
  BY <1>1, <1>a DEF vars, answerVars
<1>2. CASE UpdateStep /\ UNCHANGED answerVars
  BY <1>2, <1>a DEF answerVars
<1>3. CASE Tick
  BY <1>3, <1>a DEF Tick
<1>4. ASSUME NEW r \in Requests, CustomerStarts(r) PROVE TalkOK'
  <2>1. ASSUME NEW c \in Customers,
               (\E q \in Questions : ReceiveText(r, c, q)) \/ ReceivePhoto(r, c)
        PROVE  TalkOK'
    BY <1>b, <2>1, MessageStarts
  <2>2. ASSUME NEW l \in Logs, NEW p \in Posts, ReceiveTap(r, l, p) PROVE TalkOK'
    <3>1. PICK c \in Customers : c = logs[l].c
      BY <2>2, TapStarts
    <3>2. /\ blurred' = IF Sending(c) THEN blurred \cup {c} ELSE blurred
          /\ UNCHANGED <<known, ctx, logs, named, seen>>
      BY <2>2, <3>1, TapStarts
    <3> QED
      BY <1>b, <3>2
  <2>3. ASSUME NEW c \in Customers, NEW p \in Posts,
               Link(r, c, p) \/ \E v \in Versions : Forward(r, c, p, v)
        PROVE  TalkOK'
    <3>1. /\ blurred' = IF Sending(c) THEN blurred \cup {c} ELSE blurred
          /\ UNCHANGED <<known, ctx, logs, named, seen>>
      BY <2>3, PointerStarts
    <3> QED
      BY <1>b, <3>1
  <2> QED
    BY <1>4, <2>1, <2>2, <2>3 DEF CustomerStarts
<1>5. ASSUME NEW r \in Requests, Passing(r) PROVE TalkOK'
  BY <1>5, <1>a, PassingMoves
<1>6. ASSUME NEW r \in Requests, AnswersIt(r) PROVE TalkOK'
  <2>1. CASE OrdinalReply(r) \/ CacheHit(r)
    BY <1>a, <2>1, LookupMoves
  <2>2. ASSUME NEW ref \in Posts \cup {None}, Generate(r, ref) \/ GenerateNothing(r, ref)
        PROVE  TalkOK'
    <3>1. /\ req[r].c \in Customers /\ Names(req[r], ref)
          /\ UNCHANGED <<known, ctx, logs, seen, blurred>>
      BY <2>2, GenerateMoves, NothingMoves
    <3>2. named' \in [Customers -> SUBSET Posts]
      BY <3>1, NotingMoves
    <3> QED
      BY <1>0, <3>1, <3>2 DEF TalkOK
  <2>3. ASSUME NEW l \in Logs, NEW s \in Carousels, SendCarousel(r, l, s) PROVE TalkOK'
    <3>1. /\ req[r].c \in Customers
          /\ logs' = [logs EXCEPT ![l] = [c |-> req[r].c, shown |-> s, state |-> "sent"]]
          /\ seen' = [seen EXCEPT ![req[r].c] = s]
          /\ blurred' = blurred \/ blurred' = blurred \cup {req[r].c}
          /\ UNCHANGED <<known, ctx, named>>
      BY <2>3, CarouselMoves
    <3>2. seen' \in [Customers -> Carousels \cup {<<>>}]
      BY <1>0, <3>1 DEF TalkOK
    <3>3. [c |-> req[r].c, shown |-> s, state |-> "sent"] \in LogRows
      BY <3>1 DEF LogRows
    <3>4. logs' \in [Logs -> LogRows]
      BY <1>0, <3>1, <3>3 DEF TalkOK
    <3> QED
      BY <1>0, <3>1, <3>2, <3>4 DEF TalkOK
  <2> QED
    BY <1>6, <2>1, <2>2, <2>3 DEF AnswersIt
<1>7. ASSUME NEW r \in Requests, Ends(r) PROVE TalkOK'
  <2>0. req[r].log \in Logs \cup {None} /\ NoLog \in LogRows
    BY <1>0, RecordOf DEF NoLog, LogRows
  <2>1. CASE Commit(r)
    <3>1. req[r].c \in Customers /\ StoreContext(req[r]) /\ UNCHANGED <<named, seen>>
      BY <1>0, <2>1 DEF Commit, Proper
    <3>2. logs' \in [Logs -> LogRows]
      <4>1. CASE req[r].log = None
        BY <1>0, <2>1, <4>1 DEF Commit, TalkOK
      <4>2. CASE req[r].log # None
        <5>1. req[r].log \in Logs /\ logs[req[r].log] \in LogRows
          BY <1>0, <2>0, <4>2 DEF TalkOK
        <5>2. [logs[req[r].log] EXCEPT !.state = "kept"] \in LogRows
          BY <5>1 DEF LogRows
        <5> QED
          BY <1>0, <2>1, <4>2, <5>1, <5>2 DEF Commit, TalkOK
      <4> QED
        BY <4>1, <4>2
    <3> QED
      BY <1>0, <3>1, <3>2, StoredContext DEF TalkOK
  <2>2. CASE CommitCatalog(r)
    <3>1. CASE req[r].c = None
      BY <1>a, <2>2, <3>1 DEF CommitCatalog, answerVars
    <3>2. CASE req[r].c # None
      <4>1. /\ req[r].c \in Customers /\ StoreContext(req[r])
            /\ UNCHANGED <<logs, named, seen>>
        BY <1>0, <2>2, <3>2, RecordOf DEF CommitCatalog
      <4> QED
        BY <1>0, <4>1, StoredContext DEF TalkOK
    <3> QED
      BY <3>1, <3>2
  <2>3. CASE Fail(r)
    <3>1. req[r].log # None => req[r].c \in Customers
      BY <1>0 DEF Proper
    <3>2. blurred' \subseteq Customers
      BY <1>0, <2>3, <3>1 DEF Fail, Blur, TalkOK
    <3> QED
      BY <1>0, <2>0, <2>3, <3>2 DEF Fail, TalkOK
  <2> QED
    BY <1>7, <2>1, <2>2, <2>3 DEF Ends
<1> QED
  BY <1>1, <1>2, <1>3, <1>4, <1>5, <1>6, <1>7, StepCases

\* the cache,
LEMMA CacheStep ==
  ASSUME Typed, [Next]_vars
  PROVE  CacheOK'
<1>0. CacheOK /\ \A r \in Requests : req[r] \in RequestRecords /\ Proper(req[r])
  BY ReqTyped DEF Typed
<1>a. ASSUME UNCHANGED cache PROVE CacheOK'
  BY <1>0, <1>a DEF CacheOK
<1>b. \A m \in Merchants : Life(m) \in Nat /\ Patience(m) \in Nat
  BY Spans
<1>1. CASE UNCHANGED vars
  BY <1>1, <1>a DEF vars, answerVars
<1>2. CASE UpdateStep /\ UNCHANGED answerVars
  BY <1>2, <1>a DEF answerVars
<1>3. CASE Tick
  <2>1. ASSUME NEW m \in Merchants, NEW q \in Questions
        PROVE  /\ cache'[m][q] \in Entries
               /\ cache'[m][q].left <= Life(m)
               /\ cache'[m][q].age + cache'[m][q].left <= Life(m) + Patience(m)
    <3>1. /\ cache[m][q] \in Entries /\ cache[m][q].left <= Life(m)
          /\ cache[m][q].age + cache[m][q].left <= Life(m) + Patience(m)
          /\ cache'[m][q] = Aged(cache[m][q])
      BY <1>0, <1>3 DEF CacheOK, Tick
    <3>2. PICK e \in Entries : e = cache[m][q]
      BY <3>1
    <3>3. CASE e.left <= 1
      BY <1>b, <3>1, <3>2, <3>3 DEF Aged, NoEntry, Entries
    <3>4. CASE ~(e.left <= 1)
      <4>1. PICK f : f = [e EXCEPT !.age = @ + 1, !.left = @ - 1]
        OBVIOUS
      <4>2. cache'[m][q] = f
        BY <3>1, <3>2, <3>4, <4>1 DEF Aged
      <4>4. e.left \in Nat /\ e.age \in Nat
        BY <3>2 DEF Entries
      <4>3. f \in Entries /\ f.age = e.age + 1 /\ f.left = e.left - 1
        <5>1. PICK older \in Nat, rest \in Nat : older = e.age + 1 /\ rest = e.left - 1
          BY <3>4, <4>4
        <5>2. f = [about |-> e.about, age |-> older, left |-> rest]
          BY <3>2, <4>1, <5>1 DEF Entries
        <5>3. e.about \in Posts \cup {None}
          BY <3>2 DEF Entries
        <5> QED
          BY <5>1, <5>2, <5>3 DEF Entries
      <4> QED
        BY <1>b, <3>1, <3>2, <4>2, <4>3, <4>4
    <3> QED
      BY <3>3, <3>4
  <2>2. cache' = [m \in Merchants |-> [q \in Questions |-> cache'[m][q]]]
    BY <1>3 DEF Tick
  <2> QED
    BY <2>1, <2>2 DEF CacheOK
<1>4. ASSUME NEW r \in Requests, CustomerStarts(r) PROVE CacheOK'
  BY <1>4, <1>a, MessageStarts, TapStarts, PointerStarts DEF CustomerStarts
<1>5. ASSUME NEW r \in Requests, Passing(r) PROVE CacheOK'
  BY <1>5, <1>a, PassingMoves
<1>6. ASSUME NEW r \in Requests, AnswersIt(r) PROVE CacheOK'
  <2>1. CASE OrdinalReply(r) \/ CacheHit(r)
    BY <1>a, <2>1, LookupMoves
  <2>4. ASSUME NEW ref \in Posts \cup {None}, GenerateNothing(r, ref) PROVE CacheOK'
    BY <1>a, <2>4, NothingMoves
  <2>2. ASSUME NEW ref \in Posts \cup {None}, Generate(r, ref) PROVE CacheOK'
    <3>0. req[r].step = "generate" /\ Subject(req[r]) \in Posts
      BY <2>2, GenerateMoves
    <3>1. /\ req[r].m \in Merchants /\ req[r].q \in Questions
          /\ req[r].at \in Nat /\ req[r].at <= Patience(req[r].m)
      BY <1>0, <3>0, RecordOf, CatalogAssumption DEF Proper
    <3>2. PICK e : e = [about |-> Subject(req[r]), age |-> req[r].at, left |-> Life(req[r].m)]
      OBVIOUS
    <3>3. e \in Entries /\ e.age = req[r].at /\ e.left = Life(req[r].m)
      BY <1>b, <3>0, <3>1, <3>2 DEF Entries
    <3>4. cache' = [cache EXCEPT ![req[r].m][req[r].q] = e]
      BY <2>2, <3>2 DEF Generate
    <3>5. cache' \in [Merchants -> [Questions -> Entries]]
      BY <1>0, <3>1, <3>3, <3>4 DEF CacheOK
    <3>6. \A m \in Merchants, q \in Questions :
            cache'[m][q] = IF m = req[r].m /\ q = req[r].q THEN e ELSE cache[m][q]
      BY <1>0, <3>1, <3>4 DEF CacheOK
    <3> QED
      <4>1. ASSUME NEW m \in Merchants, NEW q \in Questions
            PROVE  /\ cache'[m][q].left <= Life(m)
                   /\ cache'[m][q].age + cache'[m][q].left <= Life(m) + Patience(m)
        <5>1. CASE m = req[r].m /\ q = req[r].q
          <6>1. cache'[m][q] = e /\ Life(m) \in Nat /\ Patience(m) \in Nat
            BY <1>b, <3>6, <5>1
          <6> QED
            BY <3>1, <3>3, <5>1, <6>1
        <5>2. CASE ~(m = req[r].m /\ q = req[r].q)
          BY <1>0, <3>6, <5>2 DEF CacheOK
        <5> QED
          BY <5>1, <5>2
      <4> QED
        BY <3>5, <4>1 DEF CacheOK
  <2>3. ASSUME NEW l \in Logs, NEW s \in Carousels, SendCarousel(r, l, s) PROVE CacheOK'
    BY <1>a, <2>3, CarouselMoves
  <2> QED
    BY <1>6, <2>1, <2>2, <2>3, <2>4 DEF AnswersIt
<1>7. ASSUME NEW r \in Requests, Ends(r) PROVE CacheOK'
  BY <1>7, <1>a DEF Ends, Commit, CommitCatalog, Fail, answerVars
<1> QED
  BY <1>1, <1>2, <1>3, <1>4, <1>5, <1>6, <1>7, StepCases

\* Only the two takers of the budget touch the counters.
LEMMA MetersStay ==
  ASSUME Typed, [Next]_vars,
         ~ \E r \in Requests : TakeMerchant(r) \/ TakeCustomer(r)
  PROVE  UNCHANGED <<spent, calls>>
<1>1. CASE UNCHANGED vars
  BY <1>1 DEF vars, answerVars
<1>2. CASE UpdateStep /\ UNCHANGED answerVars
  BY <1>2 DEF answerVars
<1>3. CASE Tick
  BY <1>3 DEF Tick
<1>4. ASSUME NEW r \in Requests, CustomerStarts(r) PROVE UNCHANGED <<spent, calls>>
  <2>1. ASSUME NEW c \in Customers,
               (\E q \in Questions : ReceiveText(r, c, q)) \/ ReceivePhoto(r, c)
        PROVE  UNCHANGED <<spent, calls>>
    BY <2>1, MessageStarts
  <2>2. ASSUME NEW l \in Logs, NEW p \in Posts, ReceiveTap(r, l, p)
        PROVE  UNCHANGED <<spent, calls>>
    BY <2>2, TapStarts
  <2>3. ASSUME NEW c \in Customers, NEW p \in Posts,
               Link(r, c, p) \/ \E v \in Versions : Forward(r, c, p, v)
        PROVE  UNCHANGED <<spent, calls>>
    BY <2>3, PointerStarts
  <2> QED
    BY <1>4, <2>1, <2>2, <2>3 DEF CustomerStarts
<1>5. ASSUME NEW r \in Requests, Passing(r) PROVE UNCHANGED <<spent, calls>>
  BY <1>5 DEF Passing, LayerReply, NoCarousel, answerVars
<1>6. ASSUME NEW r \in Requests, AnswersIt(r) PROVE UNCHANGED <<spent, calls>>
  BY <1>6 DEF AnswersIt, OrdinalReply, CacheHit, Generate, GenerateNothing, SendCarousel
<1>7. ASSUME NEW r \in Requests, Ends(r) PROVE UNCHANGED <<spent, calls>>
  BY <1>7 DEF Ends, Commit, CommitCatalog, Fail, answerVars
<1> QED
  BY <1>1, <1>2, <1>3, <1>4, <1>5, <1>6, <1>7, StepCases

\* What the takers of the budget do to a counter: one more, up to one above the limit.
Counted(x, limit) ==
  /\ spent' \in [Merchants \cup Customers -> Nat]
  /\ spent'[x] = IF spent[x] > limit THEN spent[x] ELSE spent[x] + 1
  /\ spent'[x] <= limit + 1 /\ spent[x] <= spent'[x]
  /\ \A y \in (Merchants \cup Customers) \ {x} : spent'[y] = spent[y]

\* An INCR beyond the limit leaves the counter one above it.
LEMMA IncrCounts ==
  ASSUME Typed, NEW x \in Merchants \cup Customers, NEW limit \in Nat,
         spent[x] <= limit + 1, Incr(x, limit)
  PROVE  Counted(x, limit)
<1>0. spent \in [Merchants \cup Customers -> Nat]
  BY DEF Typed, MeterOK
<1>1. PICK n \in Nat : n = IF spent[x] > limit THEN spent[x] ELSE spent[x] + 1
  BY <1>0
<1>2. spent' = [spent EXCEPT ![x] = n]
  BY <1>1 DEF Incr
<1>3. spent[x] <= n /\ n <= limit + 1
  BY <1>0, <1>1
<1>4. /\ spent' \in [Merchants \cup Customers -> Nat] /\ spent'[x] = n
      /\ \A y \in (Merchants \cup Customers) \ {x} : spent'[y] = spent[y]
  BY <1>0, <1>2
<1> QED
  BY <1>1, <1>3, <1>4 DEF Counted

\* The merchant's counter.
LEMMA MerchantCounts ==
  ASSUME Typed, NEW r \in Requests, TakeMerchant(r)
  PROVE  /\ req[r].step = "text" /\ req[r].m \in Merchants /\ UNCHANGED calls
         /\ Counted(req[r].m, DAILY_MERCHANT_CALL_LIMIT)
<1>1. req[r].step = "text" /\ UNCHANGED calls /\ Incr(req[r].m, DAILY_MERCHANT_CALL_LIMIT)
  BY DEF TakeMerchant
<1>2. req[r].m \in Merchants
  BY <1>1, ReqTyped, CatalogAssumption DEF Proper
<1>3. spent[req[r].m] <= DAILY_MERCHANT_CALL_LIMIT + 1
  BY <1>2 DEF Typed, MeterOK
<1> QED
  BY <1>1, <1>2, <1>3, IncrCounts, AnsweringAssumption

\* The customer's counter, and the call if there is one: counted for the merchant and
\* for the customer, who are not the same.
LEMMA CustomerCounts ==
  ASSUME Typed, NEW r \in Requests, TakeCustomer(r)
  PROVE  /\ req[r].step = "customer" /\ req[r].m \in Merchants /\ req[r].c \in Customers
         /\ Counted(req[r].c, DAILY_CUSTOMER_CALL_LIMIT)
         /\ calls' \in [Merchants \cup Customers -> Nat]
         /\ \/ /\ UNCHANGED calls /\ spent'[req[r].c] > DAILY_CUSTOMER_CALL_LIMIT
            \/ /\ spent'[req[r].c] <= DAILY_CUSTOMER_CALL_LIMIT
               /\ calls'[req[r].m] = calls[req[r].m] + 1
               /\ calls'[req[r].c] = calls[req[r].c] + 1
               /\ \A x \in (Merchants \cup Customers) \ {req[r].m, req[r].c} :
                    calls'[x] = calls[x]
<1>1. req[r].step = "customer" /\ Incr(req[r].c, DAILY_CUSTOMER_CALL_LIMIT)
  BY DEF TakeCustomer
<1>2. PICK m \in Merchants, c \in Customers : m = req[r].m /\ c = req[r].c
  BY <1>1, ReqTyped, CatalogAssumption DEF Proper
<1>3. spent[c] <= DAILY_CUSTOMER_CALL_LIMIT + 1 /\ DAILY_CUSTOMER_CALL_LIMIT \in Nat
  BY AnsweringAssumption DEF Typed, MeterOK
<1>4. Counted(c, DAILY_CUSTOMER_CALL_LIMIT)
  BY <1>1, <1>2, <1>3, IncrCounts
<1>5. spent'[c] \in Nat
  BY <1>4 DEF Counted
<1>6. calls \in [Merchants \cup Customers -> Nat] /\ m # c
  BY AnsweringAssumption DEF Typed, MeterOK
<1>7. CASE spent'[c] > DAILY_CUSTOMER_CALL_LIMIT
  BY <1>1, <1>2, <1>4, <1>6, <1>7 DEF TakeCustomer
<1>8. CASE ~(spent'[c] > DAILY_CUSTOMER_CALL_LIMIT)
  <2>1. calls' = [calls EXCEPT ![m] = @ + 1, ![c] = @ + 1]
    BY <1>2, <1>8 DEF TakeCustomer
  <2>2. PICK i \in Nat, j \in Nat : i = calls[m] + 1 /\ j = calls[c] + 1
    BY <1>6
  <2>3. PICK one : one = [calls EXCEPT ![m] = i]
    OBVIOUS
  <2>4. one \in [Merchants \cup Customers -> Nat] /\ one[c] = calls[c]
    BY <1>6, <2>2, <2>3
  <2>5. calls' = [one EXCEPT ![c] = j]
    BY <1>6, <2>1, <2>2, <2>3, <2>4
  <2>6. /\ calls' \in [Merchants \cup Customers -> Nat]
        /\ calls'[m] = i /\ calls'[c] = j
        /\ \A x \in (Merchants \cup Customers) \ {m, c} : calls'[x] = calls[x]
    BY <1>6, <2>2, <2>3, <2>4, <2>5
  <2> QED
    BY <1>1, <1>2, <1>3, <1>4, <1>5, <1>8, <2>2, <2>6
<1> QED
  BY <1>7, <1>8

\* and the counters.
LEMMA MeterStep ==
  ASSUME Typed, [Next]_vars
  PROVE  MeterOK'
<1>0. MeterOK /\ Merchants \cap Customers = {}
  BY AnsweringAssumption DEF Typed
<1>1. CASE ~ \E r \in Requests : TakeMerchant(r) \/ TakeCustomer(r)
  <2>1. UNCHANGED <<spent, calls>>
    BY <1>1, MetersStay
  <2> QED
    BY <1>0, <2>1 DEF MeterOK
<1>2. ASSUME NEW r \in Requests, TakeMerchant(r) PROVE MeterOK'
  BY <1>0, <1>2, MerchantCounts DEF MeterOK, Counted
<1>3. ASSUME NEW r \in Requests, TakeCustomer(r) PROVE MeterOK'
  BY <1>0, <1>3, CustomerCounts DEF MeterOK, Counted
<1> QED
  BY <1>1, <1>2, <1>3

\* The first state is typed.
LEMMA TypedInit == Init => Typed
<1> SUFFICES ASSUME Init PROVE Typed
  OBVIOUS
<1>0. /\ CatalogInit /\ agenda \in Agendas /\ agenda.stock \in [Posts -> Merchants \cup {None}]
      /\ MaxVersion \in Nat \ {0} /\ ChannelOf \in [Posts -> Channels]
      /\ None \notin Merchants \cup Posts
  BY CatalogAssumption DEF Init, CatalogInit
<1>1. ReqOK
  BY <1>0, IdleRecord DEF CatalogInit, ReqOK
<1>2. NoProduct \in Products /\ NoContext \in Contexts /\ NoLog \in LogRows
  BY <1>0 DEF NoProduct, Products, NoContext, Contexts, NoLog, LogRows
<1>3. ShelfOK
  <2>1. version \in [Posts -> 0..MaxVersion] /\ newest \in [Posts -> 0..MaxVersion]
    BY <1>0 DEF CatalogInit
  <2>2. channel \in [Merchants -> Channels \cup {None}]
    <3>1. ASSUME NEW m \in Merchants PROVE channel[m] \in Channels \cup {None}
      <4>1. CASE \E p \in Posts : agenda.stock[p] = m
        <5>1. PICK p \in Posts : channel[m] = ChannelOf[p]
          BY <1>0, <4>1 DEF CatalogInit
        <5> QED
          BY <1>0, <5>1
      <4>2. CASE ~ \E p \in Posts : agenda.stock[p] = m
        BY <1>0, <4>2 DEF CatalogInit
      <4> QED
        BY <4>1, <4>2
    <3>2. channel = [m \in Merchants |-> channel[m]]
      BY <1>0 DEF CatalogInit
    <3> QED
      BY <3>1, <3>2
  <2>3. product \in [Posts -> Products]
    <3>1. ASSUME NEW p \in Posts
          PROVE  (IF agenda.stock[p] = None THEN NoProduct
                  ELSE [owner |-> agenda.stock[p], text |-> 1, price |-> 1, status |-> "set"])
                   \in Products
      BY <1>0, <1>2 DEF Products
    <3> QED
      BY <1>0, <3>1 DEF CatalogInit
  <2>4. heard \in [Merchants -> SUBSET Channels]
    BY <1>0, <2>2 DEF CatalogInit
  <2> QED
    BY <1>0, <2>1, <2>2, <2>3, <2>4 DEF CatalogInit, ShelfOK
<1>4. TalkOK
  BY <1>2 DEF Init, TalkOK
<1>5. CacheOK
  <2>1. NoEntry \in Entries /\ NoEntry.age = 0 /\ NoEntry.left = 0
    BY DEF NoEntry, Entries
  <2>2. \A m \in Merchants : Life(m) \in Nat /\ Patience(m) \in Nat
    BY Spans
  <2> QED
    BY <2>1, <2>2 DEF Init, CacheOK
<1>6. MeterOK
  BY AnsweringAssumption DEF Init, MeterOK
<1> QED
  BY <1>1, <1>3, <1>4, <1>5, <1>6 DEF Typed

\* Every step keeps everything typed.
LEMMA TypedStep ==
  ASSUME Typed, [Next]_vars
  PROVE  Typed'
BY ReqStep, ShelfStep, TalkStep, CacheStep, MeterStep DEF Typed

\* Typing holds always.
LEMMA TypedAlways == Spec => []Typed
BY TypedInit, TypedStep, PTL DEF Spec

\* Every variable keeps its type through every interleaving of updates, messages,
\* notifications, commits and failures: what webhook.py, ingestion.py and app/llm
\* write is what they read back.
THEOREM StorefrontTyped == Spec => []TypeOK
<1>1. Typed => TypeOK
  BY TypedGivesTypeOK
<1> QED
  BY <1>1, TypedAlways, PTL

-----------------------------------------------------------------------------
(* The steps once more, seen from a conversation and from the catalogue.    *)

\* A request that began: who it is for.
LEMMA StartMoves ==
  ASSUME Typed, NEW r \in Requests, CustomerStarts(r)
  PROVE  \E c \in Customers, rec \in RequestRecords :
         /\ Starts(r, rec) /\ rec.m = ShopOf[c] /\ rec.c = c /\ rec.ctx = ctx[c]
         /\ rec.step # "customer" /\ rec.step # "generate"
         /\ blurred' = IF Sending(c) THEN blurred \cup {c} ELSE blurred
         /\ UNCHANGED <<catalogVars, known, ctx, logs, cache, spent, calls>>
<1>1. ASSUME NEW c \in Customers,
             (\E q \in Questions : ReceiveText(r, c, q)) \/ ReceivePhoto(r, c)
      PROVE  \E rec \in RequestRecords :
             /\ Starts(r, rec) /\ rec.m = ShopOf[c] /\ rec.c = c /\ rec.ctx = ctx[c]
             /\ rec.step # "customer" /\ rec.step # "generate"
             /\ blurred' = IF Sending(c) THEN blurred \cup {c} ELSE blurred
             /\ UNCHANGED <<catalogVars, known, ctx, logs, cache, spent, calls>>
  BY <1>1, MessageStarts
<1>2. ASSUME NEW l \in Logs, NEW p \in Posts, ReceiveTap(r, l, p)
      PROVE  \E c \in Customers, rec \in RequestRecords :
             /\ Starts(r, rec) /\ rec.m = ShopOf[c] /\ rec.c = c /\ rec.ctx = ctx[c]
             /\ rec.step # "customer" /\ rec.step # "generate"
             /\ blurred' = IF Sending(c) THEN blurred \cup {c} ELSE blurred
             /\ UNCHANGED <<catalogVars, known, ctx, logs, cache, spent, calls>>
  <2>1. logs[l].c \in Customers
    BY <1>2, TapStarts
  <2>2. PICK rec \in RequestRecords :
          /\ Starts(r, rec) /\ rec.m = ShopOf[logs[l].c] /\ rec.c = logs[l].c
          /\ rec.ctx = ctx[logs[l].c] /\ rec.step = "reply"
    BY <1>2, TapStarts
  <2>3. /\ blurred' = IF Sending(logs[l].c) THEN blurred \cup {logs[l].c} ELSE blurred
        /\ UNCHANGED <<catalogVars, known, ctx, logs, cache, spent, calls>>
    BY <1>2, TapStarts
  <2> QED
    BY <2>1, <2>2, <2>3
<1>3. ASSUME NEW c \in Customers, NEW p \in Posts,
             Link(r, c, p) \/ \E v \in Versions : Forward(r, c, p, v)
      PROVE  \E rec \in RequestRecords :
             /\ Starts(r, rec) /\ rec.m = ShopOf[c] /\ rec.c = c /\ rec.ctx = ctx[c]
             /\ rec.step # "customer" /\ rec.step # "generate"
             /\ blurred' = IF Sending(c) THEN blurred \cup {c} ELSE blurred
             /\ UNCHANGED <<catalogVars, known, ctx, logs, cache, spent, calls>>
  <2>1. PICK rec \in RequestRecords :
          /\ Starts(r, rec) /\ rec.m = ShopOf[c] /\ rec.c = c /\ rec.ctx = ctx[c]
          /\ rec.step \in {"load", "notify"}
    BY <1>3, PointerStarts
  <2>2. /\ blurred' = IF Sending(c) THEN blurred \cup {c} ELSE blurred
        /\ UNCHANGED <<catalogVars, known, ctx, logs, cache, spent, calls>>
    BY <1>3, PointerStarts
  <2> QED
    BY <2>1, <2>2
<1> QED
  BY <1>1, <1>2, <1>3 DEF CustomerStarts

\* An update of the catalogue begins an ingestion, or moves one on, or neither.
LEMMA UpdateMoves ==
  ASSUME Typed, UpdateStep
  PROVE  \/ UNCHANGED req
         \/ \E r \in Requests, rec \in RequestRecords :
              Starts(r, rec) /\ rec.c = None /\ rec.step = "load"
         \/ \E r \in Requests, rec \in RequestRecords :
              /\ Moved(r, rec) /\ SameUpdate(rec, req[r])
              /\ req[r].step \in {"load", "notify"} /\ rec.step = "notify"
              /\ rec.new = req[r].new /\ rec.said = req[r].said /\ rec.log = req[r].log
<1>1. ASSUME NEW r \in Requests, NEW m \in Merchants, NEW p \in Posts, NEW v \in Versions,
             ReceivePost(r, m, p, v)
      PROVE  \E rec \in RequestRecords : Starts(r, rec) /\ rec.c = None /\ rec.step = "load"
  BY <1>1, PostStarts DEF IsBegun
<1>2. ASSUME NEW r \in Requests, NEW a \in Admins, NEW p \in Posts, NEW v \in Versions,
             ReceiveBackfill(r, a, p, v)
      PROVE  \E rec \in RequestRecords : Starts(r, rec) /\ rec.c = None /\ rec.step = "load"
  BY <1>2, BackfillStarts DEF IsBegun
<1>3. ASSUME NEW r \in Requests, Flush(r)
      PROVE  \E rec \in RequestRecords :
              /\ Moved(r, rec) /\ SameUpdate(rec, req[r])
              /\ req[r].step \in {"load", "notify"} /\ rec.step = "notify"
              /\ rec.new = req[r].new /\ rec.said = req[r].said /\ rec.log = req[r].log
  <2>1. req[r].step = "load"
    BY <1>3 DEF Flush
  <2> QED
    BY <1>3, <2>1, FlushRecord
<1>4. ASSUME NEW r \in Requests, NEW a \in Admins, NEW row \in {"none", "told", "silent"},
             NEW how \in Hows, Notify(r, a, row, how)
      PROVE  \E rec \in RequestRecords :
              /\ Moved(r, rec) /\ SameUpdate(rec, req[r])
              /\ req[r].step \in {"load", "notify"} /\ rec.step = "notify"
              /\ rec.new = req[r].new /\ rec.said = req[r].said /\ rec.log = req[r].log
  <2>1. req[r].step = "notify"
    BY <1>4 DEF Notify
  <2> QED
    BY <1>4, <2>1, NotifyRecord
<1> QED
  BY <1>1, <1>2, <1>3, <1>4 DEF UpdateStep, Post, IgnorePost

\* A step that leaves the catalogue and its requests alone.
Aside ==
  /\ UNCHANGED <<catalogVars, rough>>
  /\ \A q \in Requests : req'[q] = req[q] \/ (req[q].post = None /\ req'[q].post = None)

\* A customer points to post p.
Pointer(r, c, p) == Link(r, c, p) \/ \E v \in Versions : Forward(r, c, p, v)

\* A request without a post moves on beside the catalogue.
LEMMA AsideMoves ==
  ASSUME Typed, NEW r \in Requests, NEW rec \in RequestRecords, Moved(r, rec),
         req[r].post = None, rec.post = None, UNCHANGED <<catalogVars, rough>>
  PROVE  Aside
BY ReqTyped DEF Moved, Aside

\* The steps of the storefront, by what they do to the catalogue.
LEMMA CatalogCases ==
  ASSUME Typed, [Next]_vars
  PROVE  \/ Aside
         \/ UpdateStep
         \/ \E r \in Requests, c \in Customers, p \in Posts : Pointer(r, c, p)
         \/ \E r \in Requests : StoreCatalog(r)
         \/ \E r \in Requests : LoseCatalog(r) /\ req[r].post # None
<1>0. \A r \in Requests : req[r] \in RequestRecords /\ Proper(req[r])
  BY ReqTyped
<1>a. Idle \in RequestRecords /\ Idle.post = None
  BY IdleRecord DEF Idle
<1>1. CASE UNCHANGED vars
  BY <1>1 DEF vars, Aside
<1>3. CASE Tick
  <2>1. ASSUME NEW q \in Requests
        PROVE  req'[q] = req[q] \/ (req[q].post = None /\ req'[q].post = None)
    <3>1. CASE ~Timed(q)
      BY <1>3, <3>1 DEF Tick
    <3>2. CASE Timed(q)
      <4>1. req[q].post = None
        BY <1>0, <3>2 DEF Timed, Proper
      <4>2. SameMessage(req'[q], req[q])
        BY <1>3, TickRecord
      <4> QED
        BY <4>1, <4>2 DEF SameMessage, SameUpdate
    <3> QED
      BY <3>1, <3>2
  <2> QED
    BY <1>3, <2>1 DEF Tick, RestOfCatalog, Aside
<1>4. ASSUME NEW r \in Requests, CustomerStarts(r)
      PROVE  Aside \/ \E c \in Customers, p \in Posts : Pointer(r, c, p)
  <2>0. req[r] = Idle => req[r].post = None
    BY <1>a
  <2>1. ASSUME NEW c \in Customers,
               (\E q \in Questions : ReceiveText(r, c, q)) \/ ReceivePhoto(r, c)
        PROVE  Aside
    <3>1. PICK rec \in RequestRecords : Starts(r, rec) /\ rec.post = None
      BY <2>1, MessageStarts
    <3>2. UNCHANGED <<catalogVars, rough>>
      BY <2>1, MessageStarts
    <3> QED
      BY <2>0, <3>1, <3>2, AsideMoves DEF Starts
  <2>2. ASSUME NEW l \in Logs, NEW p \in Posts, ReceiveTap(r, l, p) PROVE Aside
    <3>1. PICK rec \in RequestRecords : Starts(r, rec) /\ rec.post = None
      BY <2>2, TapStarts
    <3>2. UNCHANGED <<catalogVars, rough>>
      BY <2>2, TapStarts
    <3> QED
      BY <2>0, <3>1, <3>2, AsideMoves DEF Starts
  <2> QED
    BY <1>4, <2>1, <2>2 DEF CustomerStarts, Pointer
<1>b. ASSUME NEW r \in Requests, NEW rec \in RequestRecords, Moved(r, rec),
             SameMessage(rec, req[r]), req[r].step \notin {"load", "notify"},
             UNCHANGED <<catalogVars, rough>>
      PROVE  Aside
  <2>1. req[r].post = None /\ rec.post = None
    BY <1>0, <1>b DEF Proper, SameMessage, SameUpdate
  <2> QED
    BY <1>b, <2>1, AsideMoves
<1>5. ASSUME NEW r \in Requests, Passing(r) PROVE Aside
  <2>1. PICK rec \in RequestRecords : Moved(r, rec) /\ SameMessage(rec, req[r])
    BY <1>5, PassingMoves
  <2>2. req[r].step \notin {"load", "notify"} /\ UNCHANGED <<catalogVars, rough>>
    BY <1>5, PassingMoves
  <2> QED
    BY <1>b, <2>1, <2>2
<1>6. ASSUME NEW r \in Requests, AnswersIt(r) PROVE Aside
  <2>1. \E rec \in RequestRecords : Moved(r, rec) /\ SameMessage(rec, req[r])
    BY <1>6, LookupMoves, GenerateMoves, NothingMoves, CarouselMoves DEF AnswersIt
  <2>2. req[r].step \notin {"load", "notify"} /\ UNCHANGED <<catalogVars, rough>>
    BY <1>6 DEF AnswersIt, OrdinalReply, CacheHit, Generate, GenerateNothing, SendCarousel, RestOfCatalog
  <2> QED
    BY <1>b, <2>1, <2>2
<1>7. ASSUME NEW r \in Requests, Ends(r)
      PROVE  Aside \/ StoreCatalog(r) \/ (LoseCatalog(r) /\ req[r].post # None)
  <2>1. CASE Commit(r)
    <3>1. req[r].post = None /\ Moved(r, Idle) /\ UNCHANGED <<catalogVars, rough>>
      BY <1>0, <2>1 DEF Commit, RestOfCatalog, Proper, Moved
    <3> QED
      BY <1>a, <3>1, AsideMoves
  <2>2. CASE Fail(r) /\ req[r].post = None
    <3>1. Moved(r, Idle) /\ UNCHANGED <<catalogVars, rough>>
      <4>1. req[r].kind # "post"
        BY <1>0, <2>2, CatalogAssumption DEF Proper
      <4> QED
        BY <2>2, <4>1 DEF Fail, LoseCatalog, Moved, catalogVars
    <3> QED
      BY <1>a, <2>2, <3>1, AsideMoves
  <2> QED
    BY <1>7, <2>1, <2>2 DEF Ends, CommitCatalog, Fail
<1> QED
  BY <1>1, <1>3, <1>4, <1>5, <1>6, <1>7, StepCases

-----------------------------------------------------------------------------
(* The age of answers.                                                      *)

\* An answer was grounded no longer ago than its cache entry lives and its call takes.
Timely(rec) == rec.said.how # None => rec.said.age <= Life(rec.m) + Patience(rec.m)
AgeInv == \A r \in Requests : Timely(req[r])

\* No step makes an answer, or one being made, too old.
LEMMA AgeStep ==
  ASSUME Typed, AgeInv, [Next]_vars
  PROVE  AgeInv'
<1>0. \A r \in Requests : req[r] \in RequestRecords /\ Proper(req[r]) /\ Timely(req[r])
  BY ReqTyped DEF AgeInv
<1>a. ASSUME NEW r \in Requests, NEW rec \in RequestRecords, Moved(r, rec), Timely(rec)
      PROVE  AgeInv'
  BY <1>0, <1>a, ReqTyped DEF Moved, AgeInv
<1>b. \A rec : rec.said = NoAnswer => Timely(rec)
  BY DEF Timely, NoAnswer
<1>c. ASSUME NEW r \in Requests, NEW rec \in RequestRecords, Moved(r, rec),
             rec.said = req[r].said, rec.m = req[r].m
      PROVE  AgeInv'
  BY <1>0, <1>a, <1>c DEF Timely
<1>d. \A m \in Merchants : Life(m) \in Nat /\ Patience(m) \in Nat
  BY Spans
<1>e. ASSUME NEW r \in Requests, NEW rec \in RequestRecords, Starts(r, rec) PROVE AgeInv'
  BY <1>a, <1>b, <1>e DEF Starts
<1>f. ASSUME UNCHANGED req PROVE AgeInv'
  BY <1>f DEF AgeInv, Timely
<1>1. CASE UNCHANGED vars
  BY <1>f, <1>1 DEF vars
<1>2. CASE UpdateStep /\ UNCHANGED answerVars
  BY <1>c, <1>e, <1>f, <1>2, UpdateMoves DEF SameUpdate
<1>3. CASE Tick
  BY <1>0, <1>3, TickRecord DEF AgeInv, Timely, SameMessage, SameUpdate
<1>4. ASSUME NEW r \in Requests, CustomerStarts(r) PROVE AgeInv'
  BY <1>4, <1>e, StartMoves
<1>5. ASSUME NEW r \in Requests, Passing(r) PROVE AgeInv'
  BY <1>5, <1>c, PassingMoves DEF SameMessage, SameUpdate
<1>6. ASSUME NEW r \in Requests, AnswersIt(r) PROVE AgeInv'
  <2>1. CASE OrdinalReply(r) \/ CacheHit(r)
    <3>1. req[r].step = "text"
      BY <2>1, LookupMoves
    <3>2. req[r].m \in Merchants /\ req[r].q \in Questions
      BY <1>0, <3>1, CatalogAssumption DEF Proper
    <3>3. /\ Entry(req[r]).age \in Nat /\ Entry(req[r]).left \in Nat
          /\ Entry(req[r]).age + Entry(req[r]).left <= Life(req[r].m) + Patience(req[r].m)
      BY <3>2 DEF Typed, CacheOK, Entries, Entry
    <3>4. PICK rec \in RequestRecords :
            /\ Moved(r, rec) /\ SameMessage(rec, req[r])
            /\ rec.said.age = 0 \/ rec.said.age = Entry(req[r]).age
      BY <2>1, LookupMoves
    <3>5. Timely(rec)
      BY <1>d, <3>2, <3>3, <3>4 DEF Timely, SameMessage, SameUpdate
    <3> QED
      BY <1>a, <3>4, <3>5
  <2>4. ASSUME NEW ref \in Posts \cup {None}, GenerateNothing(r, ref) PROVE AgeInv'
    BY <1>c, <2>4, NothingMoves DEF SameMessage, SameUpdate
  <2>2. ASSUME NEW ref \in Posts \cup {None}, Generate(r, ref) PROVE AgeInv'
    <3>1. req[r].step = "generate"
      BY <2>2, GenerateMoves
    <3>2. /\ req[r].m \in Merchants /\ req[r].at \in Nat /\ req[r].at <= Patience(req[r].m)
      BY <1>0, <3>1, RecordOf, CatalogAssumption DEF Proper
    <3>3. PICK rec \in RequestRecords :
            Moved(r, rec) /\ SameMessage(rec, req[r]) /\ rec.said.age = req[r].at
      BY <2>2, GenerateMoves
    <3>4. Timely(rec)
      BY <1>d, <3>2, <3>3 DEF Timely, SameMessage, SameUpdate
    <3> QED
      BY <1>a, <3>3, <3>4
  <2>3. ASSUME NEW l \in Logs, NEW s \in Carousels, SendCarousel(r, l, s) PROVE AgeInv'
    BY <1>c, <2>3, CarouselMoves DEF SameMessage, SameUpdate
  <2> QED
    BY <1>6, <2>1, <2>2, <2>3, <2>4 DEF AnswersIt
<1>7. ASSUME NEW r \in Requests, Ends(r) PROVE AgeInv'
  BY <1>7, <1>a, <1>b, IdleRecord, EndMoves DEF Idle
<1> QED
  BY <1>1, <1>2, <1>3, <1>4, <1>5, <1>6, <1>7, StepCases

\* An edited catalogue is quoted no longer than the cache keeps an answer and the call
\* that made it may take, in either mode: the invariant of the entries (CacheOK: age
\* and rest of the life together stay within life and patience) is what the cached
\* answer inherits (set_cached_answer's ttl, _TIMEOUT_SECONDS, the SDK's timeout).
THEOREM AnswersAreTimely == Spec => []CachedAnswerAge
<1>1. Init => AgeInv
  BY DEF Init, CatalogInit, AgeInv, Timely, Idle, NoAnswer
<1>2. Typed /\ AgeInv /\ [Next]_vars => AgeInv'
  BY AgeStep
<1>3. AgeInv => CachedAnswerAge
  BY DEF AgeInv, Timely, CachedAnswerAge
<1> QED
  BY <1>1, <1>2, <1>3, TypedAlways, PTL DEF Spec

-----------------------------------------------------------------------------
(* The budget.                                                              *)

\* Messages past the merchant's counter that have not reached the customer's.
Between(m) == {r \in Requests : req[r].step = "customer" /\ req[r].m = m}

BudgetInv ==
  /\ \A c \in Customers : calls[c] <= spent[c] /\ calls[c] <= DAILY_CUSTOMER_CALL_LIMIT
  /\ \A m \in Merchants :
       /\ IsFiniteSet(Between(m))
       /\ calls[m] + Cardinality(Between(m)) <= spent[m]
       /\ calls[m] + Cardinality(Between(m)) <= DAILY_MERCHANT_CALL_LIMIT

\* No request comes between the counters except by the merchant's.
LEMMA BetweenStays ==
  ASSUME Typed, [Next]_vars,
         ~ \E r \in Requests : TakeMerchant(r) \/ TakeCustomer(r)
  PROVE  \A m \in Merchants : Between(m)' \subseteq Between(m)
<1>0. \A r \in Requests : req[r] \in RequestRecords /\ Proper(req[r])
  BY ReqTyped
<1>a. ASSUME NEW r \in Requests, NEW rec \in RequestRecords, Moved(r, rec), rec.step # "customer"
      PROVE  \A m \in Merchants : Between(m)' \subseteq Between(m)
  BY <1>a, ReqTyped DEF Moved, Between
<1>b. ASSUME \A q \in Requests : req'[q].step = req[q].step /\ req'[q].m = req[q].m
      PROVE  \A m \in Merchants : Between(m)' \subseteq Between(m)
  BY <1>b DEF Between
<1>c. ASSUME NEW r \in Requests, NEW rec \in RequestRecords, Starts(r, rec), rec.step # "customer"
      PROVE  \A m \in Merchants : Between(m)' \subseteq Between(m)
  BY <1>c, <1>a DEF Starts
<1>1. CASE UNCHANGED vars
  BY <1>1, <1>b DEF vars
<1>2. CASE UpdateStep /\ UNCHANGED answerVars
  <2>1. CASE UNCHANGED req
    BY <1>b, <2>1
  <2>2. ASSUME NEW r \in Requests, NEW rec \in RequestRecords,
               \/ Starts(r, rec) /\ rec.step = "load"
               \/ Moved(r, rec) /\ rec.step = "notify"
        PROVE  \A m \in Merchants : Between(m)' \subseteq Between(m)
    BY <1>a, <1>c, <2>2
  <2> QED
    BY <1>2, <2>1, <2>2, UpdateMoves
<1>3. CASE Tick
  BY <1>3, <1>b, TickRecord DEF SameMessage, SameUpdate
<1>4. ASSUME NEW r \in Requests, CustomerStarts(r)
      PROVE  \A m \in Merchants : Between(m)' \subseteq Between(m)
  BY <1>4, <1>c, StartMoves
<1>5. ASSUME NEW r \in Requests, Passing(r)
      PROVE  \A m \in Merchants : Between(m)' \subseteq Between(m)
  <2>1. Reply(r)
    BY <1>5 DEF Passing, LayerReply, NoCarousel
  <2>2. PICK rec \in RequestRecords : Moved(r, rec)
    BY <1>5, PassingMoves
  <2>3. req'[r] = rec /\ req'[r].step = "reply"
    <3>1. req'[r] = [req[r] EXCEPT !.step = "reply", !.at = 0]
      BY <2>1, ReqTyped DEF Reply
    <3> QED
      BY <1>0, <2>2, <3>1, ReqTyped DEF Moved, RequestRecords
  <2> QED
    BY <1>a, <2>2, <2>3
<1>6. ASSUME NEW r \in Requests, AnswersIt(r)
      PROVE  \A m \in Merchants : Between(m)' \subseteq Between(m)
  BY <1>6, <1>a, LookupMoves, GenerateMoves, NothingMoves, CarouselMoves DEF AnswersIt
<1>7. ASSUME NEW r \in Requests, Ends(r)
      PROVE  \A m \in Merchants : Between(m)' \subseteq Between(m)
  BY <1>7, <1>a, IdleRecord, EndMoves DEF Idle
<1> QED
  BY <1>1, <1>2, <1>3, <1>4, <1>5, <1>6, <1>7, StepCases

\* What either taker of the budget does to the requests in between.
LEMMA TakerMoves ==
  ASSUME Typed, NEW r \in Requests, NEW n \in Merchants, n = req[r].m
  PROVE  /\ TakeMerchant(r) =>
              /\ \A m \in Merchants \ {n} : Between(m)' = Between(m)
              /\ \/ spent'[n] > DAILY_MERCHANT_CALL_LIMIT /\ Between(n)' = Between(n)
                 \/ /\ ~(spent'[n] > DAILY_MERCHANT_CALL_LIMIT)
                    /\ r \notin Between(n) /\ Between(n)' = Between(n) \cup {r}
         /\ TakeCustomer(r) =>
              /\ \A m \in Merchants \ {n} : Between(m)' = Between(m)
              /\ r \in Between(n) /\ Between(n)' = Between(n) \ {r}
<1>0. req \in [Requests -> RequestRecords] /\ req[r] \in RequestRecords
  BY ReqTyped
<1>1. ASSUME TakeMerchant(r)
      PROVE  /\ \A m \in Merchants \ {n} : Between(m)' = Between(m)
             /\ \/ spent'[n] > DAILY_MERCHANT_CALL_LIMIT /\ Between(n)' = Between(n)
                \/ /\ ~(spent'[n] > DAILY_MERCHANT_CALL_LIMIT)
                   /\ r \notin Between(n) /\ Between(n)' = Between(n) \cup {r}
  <2>1. req[r].step = "text"
    BY <1>1 DEF TakeMerchant
  <2>2. PICK rec \in RequestRecords : Moved(r, rec) /\ SameMessage(rec, req[r])
    BY <1>1, PassingMoves DEF Passing
  <2>3. CASE spent'[n] > DAILY_MERCHANT_CALL_LIMIT
    <3>1. req'[r].step = "reply"
      BY <1>0, <1>1, <2>3 DEF TakeMerchant, Reply, RequestRecords
    <3> QED
      BY <1>0, <2>1, <2>2, <2>3, <3>1 DEF Between, Moved, SameMessage, SameUpdate
  <2>4. CASE ~(spent'[n] > DAILY_MERCHANT_CALL_LIMIT)
    <3>1. req'[r].step = "customer"
      BY <1>0, <1>1, <2>4 DEF TakeMerchant, RequestRecords
    <3> QED
      BY <1>0, <2>1, <2>2, <2>4, <3>1 DEF Between, Moved, SameMessage, SameUpdate
  <2> QED
    BY <2>3, <2>4
<1>2. ASSUME TakeCustomer(r)
      PROVE  /\ \A m \in Merchants \ {n} : Between(m)' = Between(m)
             /\ r \in Between(n) /\ Between(n)' = Between(n) \ {r}
  <2>1. req[r].step = "customer"
    BY <1>2 DEF TakeCustomer
  <2>2. PICK rec \in RequestRecords : Moved(r, rec) /\ SameMessage(rec, req[r])
    BY <1>2, PassingMoves DEF Passing
  <2>3. req'[r].step \in {"reply", "generate"}
    BY <1>0, <1>2 DEF TakeCustomer, Reply, RequestRecords
  <2> QED
    BY <1>0, <2>1, <2>2, <2>3 DEF Between, Moved, SameMessage, SameUpdate
<1> QED
  BY <1>1, <1>2

\* No step calls the provider beyond what was counted.
LEMMA BudgetStep ==
  ASSUME Typed, BudgetInv, [Next]_vars
  PROVE  BudgetInv'
<1>0. /\ spent \in [Merchants \cup Customers -> Nat] /\ calls \in [Merchants \cup Customers -> Nat]
      /\ Merchants \cap Customers = {}
      /\ DAILY_MERCHANT_CALL_LIMIT \in Nat /\ DAILY_CUSTOMER_CALL_LIMIT \in Nat
  BY AnsweringAssumption DEF Typed, MeterOK
<1>a. \A m \in Merchants : /\ IsFiniteSet(Between(m)) /\ Cardinality(Between(m)) \in Nat
                           /\ calls[m] + Cardinality(Between(m)) <= spent[m]
                           /\ calls[m] + Cardinality(Between(m)) <= DAILY_MERCHANT_CALL_LIMIT
  BY FS_CardinalityType DEF BudgetInv
<1>1. CASE ~ \E r \in Requests : TakeMerchant(r) \/ TakeCustomer(r)
  <2>1. UNCHANGED <<spent, calls>> /\ \A m \in Merchants : Between(m)' \subseteq Between(m)
    BY <1>1, MetersStay, BetweenStays
  <2>2. ASSUME NEW m \in Merchants
        PROVE  /\ IsFiniteSet(Between(m)') /\ Cardinality(Between(m)') \in Nat
               /\ Cardinality(Between(m)') <= Cardinality(Between(m))
    BY <1>a, <2>1, FS_Subset, FS_CardinalityType
  <2> QED
    BY <1>0, <1>a, <2>1, <2>2 DEF BudgetInv
<1>2. ASSUME NEW r \in Requests, TakeMerchant(r) PROVE BudgetInv'
  <2>1. PICK n \in Merchants : n = req[r].m
    BY <1>2, MerchantCounts
  <2>2. UNCHANGED calls /\ Counted(n, DAILY_MERCHANT_CALL_LIMIT)
    BY <1>2, <2>1, MerchantCounts
  <2>3. \A m \in Merchants \ {n} : Between(m)' = Between(m)
    BY <1>2, <2>1, TakerMoves
  <2>4. \/ Between(n)' = Between(n)
        \/ /\ ~(spent'[n] > DAILY_MERCHANT_CALL_LIMIT)
           /\ r \notin Between(n) /\ Between(n)' = Between(n) \cup {r}
    BY <1>2, <2>1, TakerMoves
  <2>5. \A m \in Merchants \ {n} :
          /\ IsFiniteSet(Between(m)')
          /\ calls'[m] + Cardinality(Between(m)') <= spent'[m]
          /\ calls'[m] + Cardinality(Between(m)') <= DAILY_MERCHANT_CALL_LIMIT
    BY <1>a, <2>2, <2>3 DEF Counted
  <2>6. /\ IsFiniteSet(Between(n)')
        /\ calls'[n] + Cardinality(Between(n)') <= spent'[n]
        /\ calls'[n] + Cardinality(Between(n)') <= DAILY_MERCHANT_CALL_LIMIT
    <3>0. /\ calls'[n] = calls[n] /\ calls[n] \in Nat /\ spent[n] \in Nat /\ spent'[n] \in Nat
          /\ spent'[n] = IF spent[n] > DAILY_MERCHANT_CALL_LIMIT THEN spent[n] ELSE spent[n] + 1
      BY <1>0, <2>2 DEF Counted
    <3>1. CASE Between(n)' = Between(n)
      BY <1>0, <1>a, <3>0, <3>1
    <3>2. CASE /\ ~(spent'[n] > DAILY_MERCHANT_CALL_LIMIT)
               /\ r \notin Between(n) /\ Between(n)' = Between(n) \cup {r}
      <4>1. IsFiniteSet(Between(n)') /\ Cardinality(Between(n)') = Cardinality(Between(n)) + 1
        BY <1>a, <3>2, FS_AddElement
      <4> QED
        BY <1>0, <1>a, <3>0, <3>2, <4>1
    <3> QED
      BY <2>4, <3>1, <3>2
  <2>7. \A c \in Customers : calls'[c] <= spent'[c] /\ calls'[c] <= DAILY_CUSTOMER_CALL_LIMIT
    BY <1>0, <2>1, <2>2 DEF BudgetInv, Counted
  <2> QED
    BY <2>5, <2>6, <2>7 DEF BudgetInv
<1>3. ASSUME NEW r \in Requests, TakeCustomer(r) PROVE BudgetInv'
  <2>1. PICK n \in Merchants, c \in Customers : n = req[r].m /\ c = req[r].c
    BY <1>3, CustomerCounts
  <2>2. Counted(c, DAILY_CUSTOMER_CALL_LIMIT)
    BY <1>3, <2>1, CustomerCounts
  <2>3. \A m \in Merchants \ {n} : Between(m)' = Between(m)
    BY <1>3, <2>1, TakerMoves
  <2>4. r \in Between(n) /\ Between(n)' = Between(n) \ {r}
    BY <1>3, <2>1, TakerMoves
  <2>5. /\ IsFiniteSet(Between(n)') /\ Cardinality(Between(n)') = Cardinality(Between(n)) - 1
        /\ Cardinality(Between(n)') \in Nat
    BY <1>a, <2>4, FS_RemoveElement, FS_CardinalityType
  <2>6. \/ UNCHANGED calls
        \/ /\ spent'[c] <= DAILY_CUSTOMER_CALL_LIMIT
           /\ calls'[n] = calls[n] + 1 /\ calls'[c] = calls[c] + 1
           /\ \A x \in (Merchants \cup Customers) \ {n, c} : calls'[x] = calls[x]
    BY <1>3, <2>1, CustomerCounts
  <2>7. \A m \in Merchants : spent'[m] = spent[m]
    BY <1>0, <2>2 DEF Counted
  <2>8. \A m \in Merchants \ {n} :
          /\ IsFiniteSet(Between(m)')
          /\ calls'[m] + Cardinality(Between(m)') <= spent'[m]
          /\ calls'[m] + Cardinality(Between(m)') <= DAILY_MERCHANT_CALL_LIMIT
    BY <1>0, <1>a, <2>3, <2>6, <2>7
  <2>9. /\ calls'[n] + Cardinality(Between(n)') <= spent'[n]
        /\ calls'[n] + Cardinality(Between(n)') <= DAILY_MERCHANT_CALL_LIMIT
    <3>1. calls'[n] \in {calls[n], calls[n] + 1} /\ calls[n] \in Nat /\ spent[n] \in Nat
      BY <1>0, <2>6
    <3> QED
      BY <1>0, <1>a, <2>5, <2>7, <3>1
  <2>10. calls'[c] <= spent'[c] /\ calls'[c] <= DAILY_CUSTOMER_CALL_LIMIT
    <3>1. /\ calls[c] \in Nat /\ spent[c] \in Nat /\ calls[c] <= spent[c]
          /\ calls[c] <= DAILY_CUSTOMER_CALL_LIMIT
          /\ spent'[c] = IF spent[c] > DAILY_CUSTOMER_CALL_LIMIT THEN spent[c] ELSE spent[c] + 1
      BY <1>0, <2>2 DEF Counted, BudgetInv
    <3>2. calls'[c] = calls[c] \/ (calls'[c] = calls[c] + 1 /\ spent'[c] <= DAILY_CUSTOMER_CALL_LIMIT)
      BY <2>6
    <3> QED
      BY <1>0, <3>1, <3>2
  <2>11. \A d \in Customers \ {c} : calls'[d] = calls[d] /\ spent'[d] = spent[d]
    BY <1>0, <2>2, <2>6 DEF Counted
  <2> QED
    BY <2>5, <2>8, <2>9, <2>10, <2>11 DEF BudgetInv
<1> QED
  BY <1>1, <1>2, <1>3

\* The budget depletes no slower than the provider is called, however the messages
\* interleave between the two counters: a message between them has already taken a
\* unit of its merchant's (check_and_consume_budget).
THEOREM BudgetDepletes == Spec => []BudgetNeverSlower
<1>1. Init => BudgetInv
  <2> SUFFICES ASSUME Init PROVE BudgetInv
    OBVIOUS
  <2>1. \A m \in Merchants : Between(m) = {}
    BY DEF Init, CatalogInit, Between, Idle
  <2>2. IsFiniteSet({}) /\ Cardinality({}) = 0
    BY FS_EmptySet
  <2>3. /\ \A x \in Merchants \cup Customers : spent[x] = 0 /\ calls[x] = 0
        /\ DAILY_MERCHANT_CALL_LIMIT \in Nat /\ DAILY_CUSTOMER_CALL_LIMIT \in Nat
    BY AnsweringAssumption DEF Init
  <2>4. ASSUME NEW m \in Merchants
        PROVE  IsFiniteSet(Between(m)) /\ Cardinality(Between(m)) = 0
    BY <2>1, <2>2
  <2> QED
    BY <2>3, <2>4 DEF BudgetInv
<1>2. Typed /\ BudgetInv /\ [Next]_vars => BudgetInv'
  BY BudgetStep
<1>3. Typed /\ BudgetInv => BudgetNeverSlower
  <2> SUFFICES ASSUME Typed, BudgetInv PROVE BudgetNeverSlower
    OBVIOUS
  <2>1. ASSUME NEW m \in Merchants
        PROVE  calls[m] <= spent[m] /\ calls[m] <= DAILY_MERCHANT_CALL_LIMIT
    <3>1. /\ calls[m] \in Nat /\ spent[m] \in Nat /\ Cardinality(Between(m)) \in Nat
          /\ DAILY_MERCHANT_CALL_LIMIT \in Nat
      BY FS_CardinalityType, AnsweringAssumption DEF BudgetInv, Typed, MeterOK
    <3> QED
      BY <3>1 DEF BudgetInv
  <2> QED
    BY <2>1 DEF BudgetInv, BudgetNeverSlower
<1> QED
  BY <1>1, <1>2, <1>3, TypedAlways, PTL DEF Spec

-----------------------------------------------------------------------------
(* The rows of the catalogue.                                               *)

\* A product that is there has a status, and a price if the status says so.
RowOK(x) ==
  /\ x.owner # None => x.status # None
  /\ x.status = "set" => x.price # 0

\* What an ingestion loaded, against the row as it is now: nothing, or a product of
\* the merchant's, who still has it; and nothing still, once it holds the row.
SnapshotOK(rec) ==
  /\ RowOK(rec.old)
  /\ rec.old = NoProduct \/ (rec.old.owner = rec.m /\ product[rec.post].owner = rec.m)
  /\ rec.step = "notify" /\ rec.old = NoProduct => product[rec.post] = NoProduct
  /\ rec.old.price # 0 => product[rec.post].price # 0
  /\ rec.kind = "forward" => rec.old = NoProduct

\* Two ingestions never hold the row of the same post.
RowInv ==
  /\ \A p \in Posts : RowOK(product[p])
  /\ \A r \in Requests : Ingests(r) => SnapshotOK(req[r])
  /\ \A r, q \in Requests :
       req[r].step = "notify" /\ Ingests(r) /\ req[q].step = "notify" /\ Ingests(q)
       /\ req[r].post = req[q].post => r = q

\* Ingestions have a post and a merchant.
LEMMA IngestsAt ==
  ASSUME Typed, NEW r \in Requests, Ingests(r)
  PROVE  /\ req[r] \in RequestRecords /\ req[r].step \in {"load", "notify"}
         /\ req[r].post \in Posts /\ req[r].m \in Merchants
         /\ req[r].ver \in Versions /\ req[r].old \in Products
<1>1. req[r] \in RequestRecords /\ Proper(req[r]) /\ req[r].ver # 0
  BY ReqTyped DEF Ingests
<1> QED
  BY <1>1, RecordOf DEF Proper, Versions

\* What the query of an update finds.
LEMMA SeenRow ==
  ASSUME NEW m \in Merchants, NEW p \in Posts, \A o \in Posts : RowOK(product[o])
  PROVE  /\ RowOK(SeenBy(m, p))
         /\ SeenBy(m, p) = NoProduct \/ (SeenBy(m, p) = product[p] /\ product[p].owner = m)
         /\ SeenBy(m, p).price # 0 => product[p].price # 0
BY CatalogAssumption DEF SeenBy, RowOK, NoProduct

\* The row an ingestion commits.
LEMMA StoredRow ==
  ASSUME Typed, RowInv, NEW r \in Requests, StoreCatalog(r), Ingests(r),
         NEW p, p = req[r].post
  PROVE  /\ p \in Posts /\ product' \in [Posts -> Products]
         /\ \A o \in Posts \ {p} : product'[o] = product[o]
         /\ RowOK(product'[p]) /\ product'[p].owner = req[r].m
         /\ product[p] = NoProduct \/ product[p].owner = req[r].m
         /\ product[p].price # 0 => product'[p].price # 0
         /\ product[p].status = "set" => product'[p].status = "set"
         /\ product'[p].text = IF req[r].ver # req[r].old.text THEN req[r].ver ELSE product[p].text
<1>0. /\ product \in [Posts -> Products] /\ p \in Posts /\ req[r].m \in Merchants
      /\ req[r].m # None /\ req[r].ver # 0 /\ req[r].old \in Products
      /\ None \notin {"missing", "set"}
  BY IngestsAt, CatalogAssumption DEF Typed, ShelfOK, Ingests
<1>1. PICK rec \in RequestRecords : rec = req[r]
  BY IngestsAt
<1>2. PICK now \in Products : now = product[p]
  BY <1>0
<1>3. rec.step = "notify" /\ product' = [product EXCEPT ![p] = Merged(rec.old, Outcome(rec), @)]
  BY <1>1 DEF StoreCatalog
<1>4. PICK old \in Products : old = rec.old
  BY <1>0, <1>1
<1>5. /\ RowOK(now) /\ RowOK(old)
      /\ old = NoProduct \/ (old.owner = rec.m /\ now.owner = rec.m)
      /\ old = NoProduct => now = NoProduct
      /\ old.price # 0 => now.price # 0
  BY <1>0, <1>1, <1>2, <1>3, <1>4 DEF RowInv, SnapshotOK
<1>6. PICK out \in Products :
        /\ out = Outcome(rec)
        /\ out.price = IF <<p, rec.ver>> \in Priced THEN rec.ver ELSE old.price
        /\ out.status = IF <<p, rec.ver>> \in Priced THEN "set"
                        ELSE IF old.status = None THEN "missing" ELSE old.status
  <2>1. Outcome(rec) \in Products
    BY <1>0, <1>1, OutcomeTyped
  <2>2. /\ Outcome(rec).price = IF <<p, rec.ver>> \in Priced THEN rec.ver ELSE old.price
        /\ Outcome(rec).status = IF <<p, rec.ver>> \in Priced THEN "set"
                                 ELSE IF old.status = None THEN "missing" ELSE old.status
    BY <1>1, <1>4 DEF Outcome, Ingested
  <2> QED
    BY <2>1, <2>2
<1>7. PICK x \in Products :
        /\ x = Merged(rec.old, Outcome(rec), now)
        /\ x.owner = IF rec.m # old.owner THEN rec.m ELSE now.owner
        /\ x.text = IF rec.ver # old.text THEN rec.ver ELSE now.text
        /\ x.price = IF out.price # old.price THEN out.price ELSE now.price
        /\ x.status = IF out.status # old.status THEN out.status ELSE now.status
  BY <1>0, <1>1, <1>4, <1>6, OutcomeTyped
<1>8. product' = [product EXCEPT ![p] = x]
  BY <1>2, <1>3, <1>7
<1>9. x.owner = rec.m
  BY <1>0, <1>1, <1>5, <1>7
<1>10. (now.price # 0 => x.price # 0) /\ (now.status = "set" => x.status = "set")
  <2>1. CASE old = NoProduct
    <3>1. now = NoProduct /\ now.price = 0 /\ now.status = None
      BY <1>5, <2>1 DEF NoProduct
    <3> QED
      BY <1>0, <3>1
  <2>2. CASE old # NoProduct
    <3>1. old.status # None /\ now.status # None
      BY <1>0, <1>1, <1>5, <2>2 DEF RowOK
    <3> QED
      BY <1>0, <1>1, <1>6, <1>7, <3>1
  <2> QED
    BY <2>1, <2>2
<1>11. RowOK(x)
  <2>1. CASE old = NoProduct
    <3>1. now = NoProduct /\ now.price = 0 /\ now.status = None /\ old.price = 0 /\ old.status = None
      BY <1>5, <2>1 DEF NoProduct
    <3> QED
      BY <1>0, <1>1, <1>6, <1>7, <3>1 DEF RowOK
  <2>2. CASE old # NoProduct
    <3>1. old.status # None /\ now.status # None
      BY <1>0, <1>1, <1>5, <2>2 DEF RowOK
    <3>2. CASE <<p, rec.ver>> \in Priced
      BY <1>0, <1>1, <1>5, <1>6, <1>7, <3>1, <3>2 DEF RowOK
    <3>3. CASE <<p, rec.ver>> \notin Priced
      BY <1>5, <1>6, <1>7, <3>1, <3>3 DEF RowOK
    <3> QED
      BY <3>2, <3>3
  <2> QED
    BY <2>1, <2>2
<1>12. /\ product' \in [Posts -> Products] /\ product'[p] = x
       /\ \A o \in Posts \ {p} : product'[o] = product[o]
  BY <1>0, <1>8
<1>13. product[p] = NoProduct \/ product[p].owner = req[r].m
  BY <1>1, <1>2, <1>5
<1>14. /\ product[p].price # 0 => product'[p].price # 0
       /\ product[p].status = "set" => product'[p].status = "set"
  BY <1>2, <1>10, <1>12
<1>15. product'[p].text = IF req[r].ver # req[r].old.text THEN req[r].ver ELSE product[p].text
  BY <1>1, <1>2, <1>4, <1>7, <1>12
<1> QED
  BY <1>0, <1>1, <1>9, <1>11, <1>12, <1>13, <1>14, <1>15

\* What an ingestion writes is stored by its commit alone.
LEMMA UpdatesStoreNothing ==
  ASSUME UpdateStep
  PROVE  UNCHANGED stored
<1>1. ASSUME NEW p \in Posts, Post(p) PROVE UNCHANGED stored
  BY <1>1 DEF Post
<1>2. ASSUME NEW r \in Requests, NEW m \in Merchants, NEW p \in Posts, NEW v \in Versions,
             ReceivePost(r, m, p, v) \/ IgnorePost(r, m, p, v)
      PROVE  UNCHANGED stored
  BY <1>2 DEF ReceivePost, IgnorePost
<1>3. ASSUME NEW r \in Requests, NEW a \in Admins, NEW p \in Posts, NEW v \in Versions,
             ReceiveBackfill(r, a, p, v)
      PROVE  UNCHANGED stored
  BY <1>3 DEF ReceiveBackfill, catalogVars
<1>4. ASSUME NEW r \in Requests, Flush(r) PROVE UNCHANGED stored
  BY <1>4 DEF Flush, catalogVars
<1>5. ASSUME NEW r \in Requests, NEW a \in Admins, NEW row \in {"none", "told", "silent"},
             NEW how \in Hows, Notify(r, a, row, how)
      PROVE  UNCHANGED stored
  BY <1>5 DEF Notify
<1> QED
  BY <1>1, <1>2, <1>3, <1>4, <1>5 DEF UpdateStep

\* Nothing else writes products.
LEMMA ProductStays ==
  ASSUME Typed, [Next]_vars, ~ \E r \in Requests : StoreCatalog(r) /\ Ingests(r)
  PROVE  UNCHANGED product
<1>1. CASE Aside
  BY <1>1 DEF Aside, catalogVars, stored
<1>2. CASE UpdateStep
  BY <1>2, UpdatesStoreNothing DEF stored
<1>3. ASSUME NEW r \in Requests, NEW c \in Customers, NEW p \in Posts, Pointer(r, c, p)
      PROVE  UNCHANGED product
  BY <1>3 DEF Pointer, Link, Forward, ReceiveLink, ReceiveForward, catalogVars, stored
<1>4. ASSUME NEW r \in Requests, StoreCatalog(r) PROVE UNCHANGED product
  BY <1>4 DEF StoreCatalog
<1>5. ASSUME NEW r \in Requests, LoseCatalog(r) PROVE UNCHANGED product
  BY <1>5 DEF LoseCatalog, stored
<1> QED
  BY <1>1, <1>2, <1>3, <1>4, <1>5, CatalogCases

\* A post once a shop's product stays that shop's.
LEMMA OwnersStay ==
  ASSUME Typed, RowInv, [Next]_vars, NEW p \in Posts, product[p].owner # None
  PROVE  product'[p].owner = product[p].owner
<1>1. CASE ~ \E r \in Requests : StoreCatalog(r) /\ Ingests(r)
  BY <1>1, ProductStays
<1>2. ASSUME NEW r \in Requests, StoreCatalog(r), Ingests(r)
      PROVE  product'[p].owner = product[p].owner
  <2>1. PICK o : o = req[r].post
    OBVIOUS
  <2>2. /\ product'[o].owner = req[r].m
        /\ product[o] = NoProduct \/ product[o].owner = req[r].m
        /\ \A q \in Posts \ {o} : product'[q] = product[q]
    BY <1>2, <2>1, StoredRow
  <2> QED
    BY <2>2 DEF NoProduct
<1> QED
  BY <1>1, <1>2

\* An ingestion that begins finds the row as it is.
LEMMA FreshSnapshot ==
  ASSUME \A o \in Posts : RowOK(product[o]), NEW rec, rec.m \in Merchants, rec.post \in Posts,
         rec.old = SeenBy(rec.m, rec.post), rec.step # "notify",
         rec.kind = "forward" => rec.old = NoProduct
  PROVE  SnapshotOK(rec)
BY SeenRow, CatalogAssumption DEF SnapshotOK

\* What is known of an ingestion's snapshot survives the commit of another.
LEMMA SnapshotKept ==
  ASSUME Typed, RowInv, NEW r \in Requests, NEW q \in Requests \ {r}, Ingests(q),
         StoreCatalog(r)
  PROVE  SnapshotOK(req[q])'
<1>0. /\ req' = [req EXCEPT ![r] = Idle] /\ req'[q] = req[q] /\ req[r].step = "notify"
      /\ SnapshotOK(req[q])
  BY ReqTyped DEF StoreCatalog, RowInv
<1>1. PICK x \in RequestRecords : x = req[q]
  BY ReqTyped
<1>2. x.post \in Posts /\ x.m \in Merchants /\ x.step \in {"load", "notify"}
  BY <1>1, IngestsAt
<1>3. CASE ~Ingests(r)
  <2>1. UNCHANGED product
    BY <1>3 DEF StoreCatalog
  <2> QED
    BY <1>0, <2>1 DEF SnapshotOK
<1>4. CASE Ingests(r)
  <2>1. PICK p : p = req[r].post
    OBVIOUS
  <2>2. /\ \A o \in Posts \ {p} : product'[o] = product[o]
        /\ product'[p].owner = req[r].m
        /\ product[p] = NoProduct \/ product[p].owner = req[r].m
        /\ product[p].price # 0 => product'[p].price # 0
    BY <1>4, <2>1, StoredRow
  <2>3. CASE x.post # p
    BY <1>0, <1>1, <1>2, <2>2, <2>3 DEF SnapshotOK
  <2>4. CASE x.post = p
    <3>1. x.step # "notify"
      BY <1>0, <1>1, <1>4, <2>1, <2>4 DEF RowInv
    <3>2. product[p].owner = x.m => product'[p].owner = x.m
      BY <1>2, <2>2, CatalogAssumption DEF NoProduct
    <3> QED
      BY <1>0, <1>1, <2>2, <2>4, <3>1, <3>2 DEF SnapshotOK
  <2> QED
    BY <2>3, <2>4
<1> QED
  BY <1>3, <1>4

\* No step gives a row two writers or a snapshot another version of it.
LEMMA RowStep ==
  ASSUME Typed, RowInv, [Next]_vars
  PROVE  RowInv'
<1>0. \A r \in Requests : req[r] \in RequestRecords /\ Proper(req[r])
  BY ReqTyped
<1>i. Idle.ver = 0 /\ Idle.step = "idle"
  BY DEF Idle
<1>a. ASSUME NEW r \in Requests, NEW rec \in RequestRecords, Moved(r, rec), UNCHANGED product,
             rec.ver # 0 => SnapshotOK(rec),
             rec.ver # 0 /\ rec.step = "notify" =>
               \A q \in Requests \ {r} :
                 ~(req[q].step = "notify" /\ Ingests(q) /\ req[q].post = rec.post)
      PROVE  RowInv'
  <2>1. \A q \in Requests : req'[q] = IF q = r THEN rec ELSE req[q]
    BY <1>a, ReqTyped DEF Moved
  <2>2. \A p \in Posts : RowOK(product'[p])
    BY <1>a DEF RowInv
  <2>3. ASSUME NEW q \in Requests, Ingests(q)' PROVE SnapshotOK(req[q])'
    <3>1. CASE q = r
      BY <1>a, <2>1, <2>3, <3>1 DEF SnapshotOK, Ingests
    <3>2. CASE q # r
      BY <1>a, <2>1, <2>3, <3>2 DEF SnapshotOK, Ingests, RowInv
    <3> QED
      BY <3>1, <3>2
  <2>4. ASSUME NEW s \in Requests, NEW q \in Requests,
               req'[s].step = "notify", Ingests(s)', req'[q].step = "notify", Ingests(q)',
               req'[s].post = req'[q].post
        PROVE  s = q
    BY <1>a, <2>1, <2>4 DEF RowInv, Ingests
  <2> QED
    BY <2>2, <2>3, <2>4 DEF RowInv, RowOK
<1>b. ASSUME UNCHANGED product,
             \A q \in Requests : req'[q] = req[q] \/ (req[q].post = None /\ req'[q].post = None),
             \A q \in Requests : req'[q].post = None => req'[q].ver = 0
      PROVE  RowInv'
  <2>1. \A q \in Requests : Ingests(q)' => req'[q] = req[q] /\ Ingests(q)
    BY <1>b DEF Ingests
  <2> QED
    BY <1>b, <2>1 DEF RowInv, SnapshotOK, RowOK
<1>c. ASSUME NEW r \in Requests, NEW rec \in RequestRecords, Starts(r, rec), UNCHANGED product,
             rec.step = "load" \/ rec.ver = 0, rec.m \in Merchants, rec.post \in Posts,
             rec.old = SeenBy(rec.m, rec.post),
             rec.ver # 0 /\ rec.kind = "forward" => rec.old = NoProduct
      PROVE  RowInv'
  <2>1. rec.ver # 0 => SnapshotOK(rec)
    BY <1>c, FreshSnapshot DEF RowInv
  <2> QED
    BY <1>a, <1>c, <2>1 DEF Starts
<1>1. CASE Aside
  <2>1. ReqOK'
    BY ReqStep
  <2>2. \A q \in Requests : req'[q].post = None => req'[q].ver = 0
    BY <2>1, CatalogAssumption DEF ReqOK, Proper
  <2> QED
    BY <1>1, <1>b, <2>2 DEF Aside, catalogVars, stored
<1>2. CASE UpdateStep
  <2>0. UNCHANGED product
    BY <1>2, UpdatesStoreNothing DEF stored
  <2>1. CASE UNCHANGED req
    BY <2>0, <2>1 DEF RowInv, RowOK, SnapshotOK, Ingests
  <2>2. ASSUME NEW r \in Requests, NEW m \in Merchants, NEW p \in Posts, NEW v \in Versions,
               ReceivePost(r, m, p, v)
        PROVE  RowInv'
    <3>1. PICK rec \in RequestRecords :
            Starts(r, rec) /\ rec.kind = "post" /\ rec.step = "load" /\ rec.m = m /\ rec.post = p
            /\ rec.old = SeenBy(m, p)
      BY <2>2, PostStarts DEF IsBegun
    <3> QED
      BY <1>c, <2>0, <3>1
  <2>3. ASSUME NEW r \in Requests, NEW a \in Admins, NEW p \in Posts, NEW v \in Versions,
               ReceiveBackfill(r, a, p, v)
        PROVE  RowInv'
    <3>1. PICK rec \in RequestRecords :
            Starts(r, rec) /\ rec.kind = "backfill" /\ rec.step = "load" /\ rec.m = AdminOf[a]
            /\ rec.post = p /\ rec.old = SeenBy(AdminOf[a], p)
      BY <2>3, BackfillStarts DEF IsBegun
    <3>2. AdminOf[a] \in Merchants
      BY CatalogAssumption
    <3> QED
      BY <1>c, <2>0, <3>1, <3>2
  <2>4. ASSUME NEW r \in Requests, Flush(r) PROVE RowInv'
    <3>1. PICK rec \in RequestRecords :
            Moved(r, rec) /\ SameUpdate(rec, req[r]) /\ rec.step = "notify"
      BY <2>4, FlushRecord
    <3>2. /\ req[r].step = "load" /\ ~Locked(r)
          /\ req[r].old = NoProduct => product[req[r].post] = NoProduct
      BY <2>4 DEF Flush
    <3>3. Ingests(r) /\ SnapshotOK(req[r])
      BY <1>0, <3>2 DEF Proper, Ingests, RowInv
    <3>4. SnapshotOK(rec)
      BY <3>1, <3>2, <3>3 DEF SnapshotOK, SameUpdate
    <3>5. \A q \in Requests \ {r} :
            ~(req[q].step = "notify" /\ Ingests(q) /\ req[q].post = rec.post)
      BY <3>1, <3>2 DEF Locked, SameUpdate
    <3> QED
      BY <1>a, <2>0, <3>1, <3>4, <3>5
  <2>5. ASSUME NEW r \in Requests, NEW a \in Admins, NEW row \in {"none", "told", "silent"},
               NEW how \in Hows, Notify(r, a, row, how)
        PROVE  RowInv'
    <3>1. PICK rec \in RequestRecords :
            Moved(r, rec) /\ SameUpdate(rec, req[r]) /\ rec.step = "notify"
      BY <2>5, NotifyRecord
    <3>2. req[r].step = "notify"
      BY <2>5 DEF Notify
    <3>3. rec.ver # 0 => Ingests(r) /\ SnapshotOK(req[r])
      BY <3>1 DEF Ingests, RowInv, SameUpdate
    <3>4. rec.ver # 0 => SnapshotOK(rec)
      BY <3>1, <3>2, <3>3 DEF SnapshotOK, SameUpdate
    <3>5. rec.ver # 0 => \A q \in Requests \ {r} :
            ~(req[q].step = "notify" /\ Ingests(q) /\ req[q].post = rec.post)
      BY <3>1, <3>2, <3>3 DEF SameUpdate, RowInv
    <3> QED
      BY <1>a, <2>0, <3>1, <3>4, <3>5
  <2> QED
    BY <1>2, <2>1, <2>2, <2>3, <2>4, <2>5 DEF UpdateStep, Post, IgnorePost
<1>3. ASSUME NEW r \in Requests, NEW c \in Customers, NEW p \in Posts, Pointer(r, c, p)
      PROVE  RowInv'
  <2>1. PICK rec \in RequestRecords :
          /\ Starts(r, rec) /\ rec.m = ShopOf[c] /\ rec.post = p /\ rec.old = SeenBy(ShopOf[c], p)
          /\ \/ rec.ver = 0
             \/ rec.step = "load" /\ SeenBy(ShopOf[c], p) = NoProduct
    BY <1>3, PointerStarts DEF Pointer
  <2>2. UNCHANGED product /\ ShopOf[c] \in Merchants
    BY <1>3, PointerStarts, CatalogAssumption DEF Pointer, catalogVars, stored
  <2> QED
    BY <1>c, <2>1, <2>2
<1>4. ASSUME NEW r \in Requests, StoreCatalog(r) PROVE RowInv'
  <2>1. req' = [req EXCEPT ![r] = Idle] /\ \A q \in Requests : req'[q] = IF q = r THEN Idle ELSE req[q]
    BY <1>4, ReqTyped DEF StoreCatalog
  <2>2. \A p \in Posts : RowOK(product'[p])
    <3>1. CASE Ingests(r)
      <4>1. PICK o : o = req[r].post
        OBVIOUS
      <4>2. RowOK(product'[o]) /\ \A q \in Posts \ {o} : product'[q] = product[q]
        BY <1>4, <3>1, <4>1, StoredRow
      <4> QED
        BY <4>2 DEF RowInv
    <3>2. CASE ~Ingests(r)
      BY <1>4, <3>2 DEF StoreCatalog, RowInv
    <3> QED
      BY <3>1, <3>2
  <2>3. ASSUME NEW q \in Requests, Ingests(q)' PROVE SnapshotOK(req[q])'
    <3>1. q # r /\ Ingests(q)
      BY <1>i, <2>1, <2>3 DEF Ingests
    <3> QED
      BY <1>4, <3>1, SnapshotKept
  <2>4. ASSUME NEW s \in Requests, NEW q \in Requests,
               req'[s].step = "notify", Ingests(s)', req'[q].step = "notify", Ingests(q)',
               req'[s].post = req'[q].post
        PROVE  s = q
    BY <1>i, <2>1, <2>4 DEF RowInv, Ingests
  <2> QED
    BY <2>2, <2>3, <2>4 DEF RowInv, RowOK
<1>5. ASSUME NEW r \in Requests, LoseCatalog(r) PROVE RowInv'
  BY <1>5, <1>a, <1>i, IdleRecord DEF LoseCatalog, stored, Moved
<1> QED
  BY <1>1, <1>2, <1>3, <1>4, <1>5, CatalogCases

\* No row is held at first.
LEMMA RowInit == Init => RowInv
<1> SUFFICES ASSUME Init PROVE RowInv
  OBVIOUS
<1>1. ASSUME NEW p \in Posts PROVE RowOK(product[p])
  BY CatalogAssumption DEF Init, CatalogInit, RowOK, NoProduct
<1> QED
  BY <1>1 DEF Init, CatalogInit, RowInv, Ingests, Idle

\* So a row has one writer always.
LEMMA RowAlways == Spec => []RowInv
<1>1. Typed /\ RowInv /\ [Next]_vars => RowInv'
  BY RowStep
<1> QED
  BY <1>1, RowInit, TypedAlways, PTL DEF Spec

\* An edit that does not repeat the price never takes it away, whatever the requests'
\* interleaving: an ingestion writes only what differs from what it loaded, and what
\* it loaded was the merchant's row or, under the row's lock, still no row
\* (ingest_post's condition on price_status, the flush before the notifications).
THEOREM PriceStays == Spec => SetPriceStays
<1> DEFINE Kept == \A p \in Posts : product[p].status = "set" =>
                     product'[p].status = "set" /\ product'[p].price # 0
<1>1. Typed /\ RowInv /\ [Next]_vars => [Kept]_product
  <2> SUFFICES ASSUME Typed, RowInv, [Next]_vars, product' # product PROVE Kept
    OBVIOUS
  <2>1. PICK r \in Requests : StoreCatalog(r) /\ Ingests(r)
    BY ProductStays
  <2>2. PICK o : o = req[r].post
    OBVIOUS
  <2>3. /\ RowOK(product'[o]) /\ \A q \in Posts \ {o} : product'[q] = product[q]
        /\ product[o].status = "set" => product'[o].status = "set"
    BY <2>1, <2>2, StoredRow
  <2> QED
    BY <2>3 DEF RowInv, RowOK
<1> QED
  BY <1>1, TypedAlways, RowAlways, PTL DEF Spec, SetPriceStays

-----------------------------------------------------------------------------
(* Where products come from.                                                *)

\* A request to ingest a post that is not an admin's backfill is about a channel the
\* merchant has registered, or will register with it.
Sourced(rec) ==
  /\ rec.kind = "post" /\ rec.chan # None => ChannelOf[rec.post] \in heard[rec.m]
  /\ rec.kind = "forward" /\ rec.ver # 0 => ChannelOf[rec.post] \in heard[rec.m]

ChannelInv ==
  /\ ProductsFromOwnChannel
  /\ \A m \in Merchants : channel[m] # None => channel[m] \in heard[m]
  /\ \A r \in Requests : Sourced(req[r])

\* Channels are registered by commits alone.
LEMMA SourcedKept ==
  ASSUME Typed, ChannelInv, UNCHANGED stored,
         \A q \in Requests :
           \/ req'[q].ver = 0 /\ req'[q].kind # "post"
           \/ Sourced(req'[q])
           \/ /\ req'[q].kind = req[q].kind /\ req'[q].chan = req[q].chan
              /\ req'[q].m = req[q].m /\ req'[q].ver = req[q].ver /\ req'[q].post = req[q].post
  PROVE  ChannelInv'
<1>1. UNCHANGED <<channel, product, heard, backfilled>>
  BY DEF stored
<1>2. ASSUME NEW q \in Requests PROVE Sourced(req[q])'
  <2>1. Sourced(req[q])
    BY DEF ChannelInv
  <2> QED
    BY <1>1, <2>1 DEF Sourced
<1> QED
  BY <1>1, <1>2 DEF ChannelInv, ProductsFromOwnChannel

\* No step stores a foreign post, but for a backfill.
LEMMA ChannelStep ==
  ASSUME Typed, RowInv, ChannelInv, [Next]_vars
  PROVE  ChannelInv'
<1>0. /\ \A r \in Requests : req[r] \in RequestRecords /\ Proper(req[r])
      /\ ReqOK'
  BY ReqTyped, ReqStep
<1>h. \A p \in Posts : ChannelOf[p] # None
  BY CatalogAssumption
<1>i. Idle.ver = 0 /\ Idle.kind = "idle"
  BY DEF Idle
<1>a. ASSUME NEW r \in Requests, NEW rec \in RequestRecords, Moved(r, rec), UNCHANGED stored,
             \/ rec.ver = 0 /\ rec.kind # "post"
             \/ Sourced(rec)
             \/ SameUpdate(rec, req[r])
      PROVE  ChannelInv'
  <2>1. \A q \in Requests : req'[q] = IF q = r THEN rec ELSE req[q]
    BY <1>a, ReqTyped DEF Moved
  <2> QED
    BY <1>a, <2>1, SourcedKept DEF SameUpdate
<1>1. CASE Aside
  <2>1. \A q \in Requests : req'[q] = req[q] \/ (req'[q].ver = 0 /\ req'[q].kind # "post")
    <3>1. \A q \in Requests : req'[q].post = None => req'[q].ver = 0 /\ req'[q].kind # "post"
      BY <1>0, CatalogAssumption DEF ReqOK, Proper
    <3> QED
      BY <1>1, <3>1 DEF Aside
  <2>2. UNCHANGED stored
    BY <1>1 DEF Aside, catalogVars
  <2> QED
    BY <2>1, <2>2, SourcedKept
<1>2. CASE UpdateStep
  <2>0. UNCHANGED stored
    BY <1>2, UpdatesStoreNothing
  <2>1. CASE UNCHANGED req
    BY <2>0, <2>1, SourcedKept
  <2>2. ASSUME NEW r \in Requests, NEW m \in Merchants, NEW p \in Posts, NEW v \in Versions,
               ReceivePost(r, m, p, v)
        PROVE  ChannelInv'
    <3>1. PICK rec \in RequestRecords :
            /\ Starts(r, rec) /\ rec.kind = "post" /\ rec.m = m /\ rec.post = p
            /\ rec.chan = channel[m]
      BY <2>2, PostStarts DEF IsBegun
    <3>2. channel[m] # None => channel[m] = ChannelOf[p] /\ channel[m] \in heard[m]
      BY <2>2 DEF ReceivePost, ChannelPasses, ChannelInv
    <3>3. Sourced(rec)
      BY <3>1, <3>2 DEF Sourced
    <3> QED
      BY <1>a, <2>0, <3>1, <3>3 DEF Starts
  <2>3. ASSUME NEW r \in Requests, NEW a \in Admins, NEW p \in Posts, NEW v \in Versions,
               ReceiveBackfill(r, a, p, v)
        PROVE  ChannelInv'
    <3>1. PICK rec \in RequestRecords : Starts(r, rec) /\ rec.kind = "backfill"
      BY <2>3, BackfillStarts DEF IsBegun
    <3>2. Sourced(rec)
      BY <3>1 DEF Sourced
    <3> QED
      BY <1>a, <2>0, <3>1, <3>2 DEF Starts
  <2>4. ASSUME NEW r \in Requests, Flush(r) PROVE ChannelInv'
    BY <1>a, <2>0, <2>4, FlushRecord
  <2>5. ASSUME NEW r \in Requests, NEW a \in Admins, NEW row \in {"none", "told", "silent"},
               NEW how \in Hows, Notify(r, a, row, how)
        PROVE  ChannelInv'
    BY <1>a, <2>0, <2>5, NotifyRecord
  <2> QED
    BY <1>2, <2>1, <2>2, <2>3, <2>4, <2>5 DEF UpdateStep, Post, IgnorePost
<1>3. ASSUME NEW r \in Requests, NEW c \in Customers, NEW p \in Posts, Pointer(r, c, p)
      PROVE  ChannelInv'
  <2>1. PICK rec \in RequestRecords :
          /\ Starts(r, rec) /\ rec.m = ShopOf[c] /\ rec.post = p /\ rec.kind \in {"forward", "link"}
          /\ rec.ver = 0 \/ channel[ShopOf[c]] = ChannelOf[p]
    BY <1>3, PointerStarts DEF Pointer
  <2>2. UNCHANGED stored /\ ShopOf[c] \in Merchants
    BY <1>3, PointerStarts, CatalogAssumption DEF Pointer, catalogVars
  <2>3. Sourced(rec)
    BY <1>h, <2>1, <2>2 DEF Sourced, ChannelInv
  <2> QED
    BY <1>a, <2>1, <2>2, <2>3 DEF Starts
<1>4. ASSUME NEW r \in Requests, StoreCatalog(r) PROVE ChannelInv'
  <2>1. PICK rec \in RequestRecords : rec = req[r]
    BY <1>0
  <2>2. PICK p \in Posts, m \in Merchants : p = rec.post /\ m = rec.m
    BY <1>0, <1>4, <2>1 DEF StoreCatalog, Proper
  <2>3. /\ heard \in [Merchants -> SUBSET Channels] /\ channel \in [Merchants -> Channels \cup {None}]
        /\ Proper(rec) /\ Sourced(rec)
    BY <1>0, <2>1 DEF Typed, ShelfOK, ChannelInv
  <2>4. /\ heard' = IF Registers(r) THEN [heard EXCEPT ![m] = @ \cup {ChannelOf[p]}] ELSE heard
        /\ channel' = IF Registers(r) THEN [channel EXCEPT ![m] = ChannelOf[p]] ELSE channel
        /\ backfilled' = IF rec.kind = "backfill" THEN backfilled \cup {p} ELSE backfilled
        /\ \A q \in Requests : req'[q] = IF q = r THEN Idle ELSE req[q]
    BY <1>4, <2>1, <2>2, ReqTyped DEF StoreCatalog
  <2>5. \A n \in Merchants : heard[n] \subseteq heard'[n]
    BY <2>3, <2>4
  <2>6. Registers(r) => ChannelOf[p] \in heard'[m]
    BY <2>3, <2>4
  <2>7. \A n \in Merchants : channel'[n] # None => channel'[n] \in heard'[n]
    BY <2>3, <2>4, <2>5, <2>6 DEF ChannelInv
  <2>8. ASSUME NEW o \in Posts, product'[o].owner # None
        PROVE  ChannelOf[o] \in heard'[product'[o].owner] \/ o \in backfilled'
    <3>1. CASE product'[o] = product[o]
      <4>1. product[o].owner \in Merchants
        BY <2>8, <3>1 DEF Typed, ShelfOK, Products
      <4> QED
        BY <2>4, <2>5, <2>8, <3>1, <4>1 DEF ChannelInv, ProductsFromOwnChannel
    <3>2. CASE product'[o] # product[o]
      <4>1. Ingests(r)
        BY <1>4, <3>2 DEF StoreCatalog
      <4>2. o = p /\ product'[o].owner = m
        BY <1>4, <2>1, <2>2, <3>2, <4>1, StoredRow
      <4>3. rec.kind \in {"post", "backfill", "forward"} /\ rec.ver # 0
        BY <2>1, <2>3, <4>1 DEF Proper, Ingests
      <4>4. CASE rec.kind = "backfill"
        BY <2>4, <4>2, <4>4
      <4>5. CASE rec.kind = "forward"
        BY <2>2, <2>3, <2>5, <4>2, <4>3, <4>5 DEF Sourced
      <4>6. CASE rec.kind = "post"
        BY <2>1, <2>2, <2>3, <2>5, <2>6, <4>2, <4>6 DEF Sourced, Registers
      <4> QED
        BY <4>3, <4>4, <4>5, <4>6
    <3> QED
      BY <3>1, <3>2
  <2>9. ASSUME NEW q \in Requests PROVE Sourced(req[q])'
    <3>1. CASE q = r
      BY <1>i, <2>4, <3>1 DEF Sourced
    <3>2. CASE q # r
      <4>1. PICK x \in RequestRecords : x = req[q] /\ x = req'[q] /\ Proper(x) /\ Sourced(x)
        BY <1>0, <2>4, <3>2 DEF ChannelInv
      <4>2. x.kind = "post" \/ x.ver # 0 => x.m \in Merchants
        BY <4>1 DEF Proper
      <4> QED
        BY <2>5, <4>1, <4>2 DEF Sourced
    <3> QED
      BY <3>1, <3>2
  <2> QED
    BY <2>7, <2>8, <2>9 DEF ChannelInv, ProductsFromOwnChannel
<1>5. ASSUME NEW r \in Requests, LoseCatalog(r) PROVE ChannelInv'
  BY <1>5, <1>a, <1>i, IdleRecord DEF LoseCatalog, Moved
<1> QED
  BY <1>1, <1>2, <1>3, <1>4, <1>5, CatalogCases

\* The catalogue is the stock at first.
LEMMA ChannelInit == Init => ChannelInv
<1> SUFFICES ASSUME Init PROVE ChannelInv
  OBVIOUS
<1>0. /\ CatalogInit /\ agenda \in Agendas /\ agenda.stock \in [Posts -> Merchants \cup {None}]
      /\ ChannelOf \in [Posts -> Channels] /\ None \notin Merchants \cup Channels
      /\ \A p, q \in Posts : agenda.stock[p] # None /\ agenda.stock[q] # None =>
           (agenda.stock[p] = agenda.stock[q] <=> ChannelOf[p] = ChannelOf[q])
  BY CatalogAssumption DEF Init, CatalogInit
<1>1. \A r \in Requests : Sourced(req[r])
  BY <1>0 DEF CatalogInit, Sourced, Idle
<1>2. \A m \in Merchants : channel[m] # None => channel[m] \in heard[m]
  BY <1>0 DEF CatalogInit
<1>3. ASSUME NEW p \in Posts, product[p].owner # None
      PROVE  ChannelOf[p] \in heard[product[p].owner]
  <2>1. agenda.stock[p] # None /\ product[p].owner = agenda.stock[p]
    BY <1>0, <1>3 DEF CatalogInit, NoProduct
  <2>2. PICK m \in Merchants : m = agenda.stock[p]
    BY <1>0, <2>1
  <2>3. PICK q \in Posts : agenda.stock[q] = m /\ channel[m] = ChannelOf[q]
    <3>1. \E q \in Posts : agenda.stock[q] = m
      BY <2>2
    <3>2. PICK q : q = CHOOSE o \in Posts : agenda.stock[o] = m
      OBVIOUS
    <3>3. q \in Posts /\ agenda.stock[q] = m
      BY <3>1, <3>2
    <3>4. channel[m] = ChannelOf[q]
      BY <1>0, <3>1, <3>2 DEF CatalogInit
    <3> QED
      BY <3>3, <3>4
  <2>4. channel[m] = ChannelOf[p]
    BY <1>0, <2>1, <2>2, <2>3
  <2> QED
    BY <1>0, <1>2, <2>1, <2>2, <2>4
<1> QED
  BY <1>1, <1>2, <1>3 DEF ChannelInv, ProductsFromOwnChannel

\* A shop's products come from channels registered for it, or by a backfill: what a
\* customer forwards is ingested only out of a channel the merchant has registered,
\* whichever registration, backfill or other shop's post commits in between
\* (_verify_or_check_source_channel, _resolve_and_answer_product).
THEOREM ProductsOwn == Spec => []ProductsFromOwnChannel
<1>1. Typed /\ RowInv /\ ChannelInv /\ [Next]_vars => ChannelInv'
  BY ChannelStep
<1>2. ChannelInv => ProductsFromOwnChannel
  BY DEF ChannelInv
<1> QED
  BY <1>1, <1>2, ChannelInit, TypedAlways, RowAlways, PTL DEF Spec

-----------------------------------------------------------------------------
(* Price queries.                                                           *)

\* The requests about a post, and what they have for an admin.
At(p) == {r \in Requests : req[r].post = p}
MadeFor(rec, a) == {e \in rec.made : e[1] = a}

Told(a, p) ==
  \/ "told" \in open[a][p]
  \/ \E r \in At(p) : \E e \in MadeFor(req[r], a) : e[3] = "told"

\* A request notifies an admin once, and then knows all that is open for him.
Settled(rec, a, shown) ==
  /\ \A e \in MadeFor(rec, a) :
       a \notin rec.todo /\ e[2] # "told" /\ shown = IF e[2] = "none" THEN {} ELSE {e[2]}
  /\ \A e, f \in MadeFor(rec, a) : e = f

NoteOK(a, p) ==
  /\ \A x, y \in open[a][p] : x = y
  /\ \A r \in At(p) : Settled(req[r], a, open[a][p])
  /\ notes[a][p] <= 1
  /\ notes[a][p] = 1 => Told(a, p)

\* A post without overlaps has one request at a time, and an admin notified of it has
\* been told, in a row or in the request that is about to write it.
Alone(p) == \A r, q \in At(p) : r = q
NotesInv == \A p \in Posts \ rough : Alone(p) /\ \A a \in Admins : NoteOK(a, p)

\* A step that leaves alone what concerns a post.
LEMMA NotesKept ==
  ASSUME NEW p \in Posts, Alone(p), \A a \in Admins : NoteOK(a, p),
         At(p)' = At(p),
         \A r \in At(p) : req'[r].made = req[r].made /\ req'[r].todo \subseteq req[r].todo,
         \A a \in Admins : open'[a][p] = open[a][p] /\ notes'[a][p] = notes[a][p]
  PROVE  Alone(p)' /\ \A a \in Admins : NoteOK(a, p)'
<1>1. Alone(p)'
  BY DEF Alone
<1>2. ASSUME NEW a \in Admins PROVE NoteOK(a, p)'
  <2>1. NoteOK(a, p) /\ open'[a][p] = open[a][p] /\ notes'[a][p] = notes[a][p]
    OBVIOUS
  <2>2. \A r \in At(p) : MadeFor(req[r], a)' = MadeFor(req[r], a)
    BY DEF MadeFor
  <2>3. ASSUME NEW r \in At(p)' PROVE Settled(req[r], a, open[a][p])'
    <3>1. r \in At(p) /\ Settled(req[r], a, open[a][p])
      BY <2>1 DEF NoteOK
    <3> QED
      BY <2>1, <2>2, <3>1 DEF Settled
  <2>4. Told(a, p) => Told(a, p)'
    BY <2>1, <2>2 DEF Told
  <2> QED
    BY <2>1, <2>3, <2>4 DEF NoteOK
<1> QED
  BY <1>1, <1>2

\* The requests about a post, after one of them or another has moved.
LEMMA AtMoved ==
  ASSUME Typed, NEW r \in Requests, NEW rec \in RequestRecords, Moved(r, rec), NEW p \in Posts
  PROVE  /\ \A q \in Requests : req'[q] = IF q = r THEN rec ELSE req[q]
         /\ req[r].post = p <=> r \in At(p)
         /\ (rec.post = p <=> req[r].post = p) => At(p)' = At(p)
         /\ rec.post = p => At(p)' = At(p) \cup {r}
         /\ rec.post # p => At(p)' = At(p) \ {r}
<1>1. \A q \in Requests : req'[q] = IF q = r THEN rec ELSE req[q]
  BY ReqTyped DEF Moved
<1>2. At(p)' = {q \in Requests : req'[q].post = p} /\ At(p) = {q \in Requests : req[q].post = p}
  BY DEF At
<1> QED
  BY <1>1, <1>2

\* A request begins with nothing made.
LEMMA NotesAtStart ==
  ASSUME Typed, NotesInv, NEW r \in Requests, NEW rec \in RequestRecords, Starts(r, rec),
         UNCHANGED <<open, notes>>
  PROVE  NotesInv'
<1>1. /\ req[r] = Idle /\ Idle.post = None /\ Moved(r, rec) /\ rec.made = {}
      /\ None \notin Posts
  BY CatalogAssumption DEF Starts, Idle
<1>2. ASSUME NEW p \in Posts \ rough' PROVE Alone(p)' /\ \A a \in Admins : NoteOK(a, p)'
  <2>1. p \in Posts \ rough
    BY <1>2 DEF Starts
  <2>2. /\ \A q \in Requests : req'[q] = IF q = r THEN rec ELSE req[q]
        /\ r \notin At(p)
    BY <1>1, AtMoved DEF At
  <2>3. CASE rec.post # p
    <3>1. req[r].post # p
      BY <1>1
    <3>2. At(p)' = At(p)
      BY <1>1, <2>3, <3>1, AtMoved
    <3>3. \A q \in At(p) : req'[q] = req[q]
      BY <2>2 DEF At
    <3>4. Alone(p) /\ \A a \in Admins : NoteOK(a, p)
      BY <2>1 DEF NotesInv
    <3> QED
      BY <2>1, <3>2, <3>3, <3>4, NotesKept
  <2>4. CASE rec.post = p
    <3>1. At(p) = {}
      BY <1>1, <1>2, <2>4 DEF Starts, At
    <3>2. At(p)' = {r}
      BY <1>1, <2>4, <3>1, AtMoved
    <3>3. ASSUME NEW a \in Admins PROVE NoteOK(a, p)'
      <4>1. NoteOK(a, p)
        BY <2>1 DEF NotesInv
      <4>2. Settled(req[r], a, open[a][p])'
        BY <1>1, <2>2 DEF Settled, MadeFor
      <4>3. Told(a, p) => Told(a, p)'
        BY <3>1 DEF Told
      <4> QED
        BY <3>2, <4>1, <4>2, <4>3 DEF NoteOK
    <3> QED
      BY <3>2, <3>3 DEF Alone
  <2> QED
    BY <2>3, <2>4
<1> QED
  BY <1>2 DEF NotesInv

\* An admin is told, or left alone.
LEMMA NotesAtNotify ==
  ASSUME Typed, NotesInv, NEW r \in Requests, NEW a \in Admins,
         NEW row \in {"none", "told", "silent"}, NEW how \in Hows, Notify(r, a, row, how)
  PROVE  NotesInv'
<1>0. PICK s \in {"told", "silent"} : s = Mark(how)
  BY DEF Mark
<1>1. PICK rec \in RequestRecords :
        Moved(r, rec) /\ SameUpdate(rec, req[r]) /\ Notified(rec, req[r], a, row, how)
  BY NotifyRecord
<1>b. /\ rec.todo = req[r].todo \ {a}
      /\ rec.made = IF row = "told" THEN req[r].made ELSE req[r].made \cup {<<a, row, s>>}
  BY <1>0, <1>1 DEF Notified
<1>2. PICK p \in Posts : p = req[r].post /\ p = rec.post
  BY <1>1, ReqTyped DEF Notify, Proper, SameUpdate
<1>3. /\ a \in req[r].todo
      /\ IF open[a][p] = {} THEN row = "none" ELSE row \in open[a][p]
      /\ UNCHANGED <<open, rough>>
  BY <1>2 DEF Notify, stored
<1>4. /\ row = "told" => UNCHANGED notes
      /\ row # "told" => notes' = [notes EXCEPT ![a][p] = Noted(@, how)]
  BY <1>2 DEF Notify
<1>5. /\ \A q \in Requests : req'[q] = IF q = r THEN rec ELSE req[q]
      /\ \A o \in Posts : At(o)' = At(o) /\ (r \in At(o) <=> o = p)
  <2>1. ASSUME NEW o \in Posts PROVE At(o)' = At(o) /\ (r \in At(o) <=> o = p)
    <3>1. Moved(r, rec) /\ (rec.post = o <=> o = p) /\ (req[r].post = o <=> o = p)
      BY <1>1, <1>2
    <3> QED
      BY <3>1, AtMoved
  <2> QED
    BY <1>1, <1>2, <2>1, AtMoved
<1>6. \A b \in Admins, o \in Posts :
        notes'[b][o] = IF b = a /\ o = p /\ row # "told"
                       THEN Noted(notes[a][p], how) ELSE notes[b][o]
  <2>1. notes \in [Admins -> [Posts -> 0..2]]
    BY DEF Typed, ShelfOK
  <2> QED
    BY <1>4, <2>1
<1>7. ASSUME NEW o \in Posts \ rough', o # p \/ row = "told"
      PROVE  Alone(o)' /\ \A b \in Admins : NoteOK(b, o)'
  <2>1. o \in Posts \ rough /\ Alone(o) /\ \A b \in Admins : NoteOK(b, o)
    BY <1>3, <1>7 DEF NotesInv
  <2>2. \A q \in At(o) : req'[q].made = req[q].made /\ req'[q].todo \subseteq req[q].todo
    BY <1>1, <1>b, <1>5, <1>7 DEF At
  <2>3. \A b \in Admins : open'[b][o] = open[b][o] /\ notes'[b][o] = notes[b][o]
    BY <1>3, <1>6, <1>7
  <2> QED
    BY <1>5, <2>1, <2>2, <2>3, NotesKept
<1>8. ASSUME p \notin rough', row # "told"
      PROVE  Alone(p)' /\ \A b \in Admins : NoteOK(b, p)'
  <2>2. PICK e : e = <<a, row, s>>
    OBVIOUS
  <2>3. e[1] = a /\ e[2] = row /\ e[3] = s /\ rec.made = req[r].made \cup {e}
    BY <1>b, <1>8, <2>2
  <2>4. Alone(p) /\ r \in At(p) /\ \A b \in Admins : NoteOK(b, p)
    BY <1>3, <1>5, <1>8 DEF NotesInv
  <2>5. MadeFor(req[r], a) = {}
    BY <1>3, <2>4 DEF NoteOK, Settled
  <2>6. MadeFor(rec, a) = {e}
    BY <2>3, <2>5 DEF MadeFor
  <2>7. \A b \in Admins \ {a} : MadeFor(rec, b) = MadeFor(req[r], b)
    BY <2>3 DEF MadeFor
  <2>8. At(p) = {r} /\ At(p)' = {r} /\ req'[r] = rec
    BY <1>5, <2>4 DEF Alone
  <2>9. ASSUME NEW b \in Admins \ {a} PROVE NoteOK(b, p)'
    <3>1. NoteOK(b, p) /\ notes'[b][p] = notes[b][p]
      BY <1>6, <2>4
    <3>2. Settled(rec, b, open[b][p])
      <4>1. Settled(req[r], b, open[b][p])
        BY <2>4, <3>1 DEF NoteOK
      <4>2. MadeFor(rec, b) = MadeFor(req[r], b) /\ rec.todo \subseteq req[r].todo
        BY <1>b, <2>7
      <4> QED
        BY <4>1, <4>2 DEF Settled
    <3>3. Settled(req[r], b, open[b][p])'
      BY <1>3, <2>8, <3>2
    <3>4. Told(b, p) => Told(b, p)'
      BY <1>3, <2>7, <2>8 DEF Told
    <3> QED
      BY <1>3, <2>8, <3>1, <3>3, <3>4 DEF NoteOK
  <2>10. NoteOK(a, p)'
    <3>1. NoteOK(a, p)
      BY <2>4
    <3>2. open[a][p] = IF row = "none" THEN {} ELSE {row}
      <4>1. open[a][p] \subseteq {"told", "silent"}
        BY DEF Typed, ShelfOK
      <4> QED
        BY <1>3, <3>1, <4>1 DEF NoteOK
    <3>3. Settled(rec, a, open[a][p])
      BY <1>b, <1>8, <2>3, <2>6, <3>2 DEF Settled
    <3>4. Settled(req[r], a, open[a][p])'
      BY <1>3, <2>8, <3>3
    <3>5. ~Told(a, p)
      BY <1>8, <2>5, <2>8, <3>2 DEF Told
    <3>6. notes[a][p] = 0
      <4>1. notes[a][p] \in 0..2
        BY DEF Typed, ShelfOK
      <4> QED
        BY <3>1, <3>5, <4>1 DEF NoteOK
    <3>7. notes'[a][p] = IF how = "told" THEN 1 ELSE 0
      BY <1>6, <1>8, <3>6 DEF Noted
    <3>8. how = "told" => Told(a, p)'
      BY <1>0, <2>3, <2>6, <2>8 DEF Told, Mark
    <3> QED
      BY <1>3, <2>8, <3>1, <3>4, <3>7, <3>8 DEF NoteOK
  <2> QED
    BY <2>8, <2>9, <2>10 DEF Alone
<1> QED
  BY <1>3, <1>7, <1>8 DEF NotesInv

\* The rows a request made are committed.
LEMMA NotesAtStore ==
  ASSUME Typed, NotesInv, NEW r \in Requests, StoreCatalog(r)
  PROVE  NotesInv'
<1>1. PICK p \in Posts : p = req[r].post
  BY ReqTyped DEF StoreCatalog, Proper
<1>2. /\ Moved(r, Idle) /\ UNCHANGED <<notes, rough>>
      /\ open' = [a \in Admins |-> [open[a] EXCEPT ![p] =
           (@ \ {e[2] : e \in {x \in req[r].made : x[1] = a}})
              \cup {e[3] : e \in {x \in req[r].made : x[1] = a}}]]
  BY <1>1 DEF StoreCatalog, Moved
<1>3. /\ \A o \in Posts : At(o)' = At(o) \ {r} /\ (r \in At(o) <=> o = p)
      /\ \A q \in Requests : req'[q] = IF q = r THEN Idle ELSE req[q]
  <2>1. Idle \in RequestRecords /\ Idle.post \notin Posts
    BY IdleRecord, CatalogAssumption DEF Idle
  <2> QED
    BY <1>1, <1>2, <2>1, AtMoved DEF At
<1>4. \A a \in Admins : open[a] \in [Posts -> SUBSET {"told", "silent"}]
  BY DEF Typed, ShelfOK
<1>5. /\ \A a \in Admins, o \in Posts \ {p} : open'[a][o] = open[a][o]
      /\ \A a \in Admins :
           open'[a][p] = (open[a][p] \ {e[2] : e \in MadeFor(req[r], a)})
                            \cup {e[3] : e \in MadeFor(req[r], a)}
  BY <1>2, <1>4 DEF MadeFor
<1>6. ASSUME NEW o \in Posts \ rough', o # p
      PROVE  Alone(o)' /\ \A a \in Admins : NoteOK(a, o)'
  <2>1. Alone(o) /\ \A a \in Admins : NoteOK(a, o)
    BY <1>2, <1>6 DEF NotesInv
  <2>2. At(o)' = At(o) /\ \A q \in At(o) : req'[q] = req[q]
    BY <1>3, <1>6 DEF At
  <2>3. \A a \in Admins : open'[a][o] = open[a][o] /\ notes'[a][o] = notes[a][o]
    BY <1>2, <1>5, <1>6
  <2> QED
    BY <2>1, <2>2, <2>3, NotesKept
<1>7. ASSUME p \notin rough' PROVE Alone(p)' /\ \A a \in Admins : NoteOK(a, p)'
  <2>1. Alone(p) /\ (\A a \in Admins : NoteOK(a, p)) /\ At(p) = {r} /\ At(p)' = {}
    BY <1>2, <1>3, <1>7 DEF NotesInv, Alone
  <2>2. ASSUME NEW a \in Admins PROVE NoteOK(a, p)'
    <3>1. NoteOK(a, p) /\ Settled(req[r], a, open[a][p])
      BY <2>1 DEF NoteOK
    <3>2. CASE MadeFor(req[r], a) = {}
      <4>1. open'[a][p] = open[a][p]
        <5>1. {e[2] : e \in MadeFor(req[r], a)} = {} /\ {e[3] : e \in MadeFor(req[r], a)} = {}
          BY <3>2
        <5> QED
          BY <1>5, <5>1
      <4>2. Told(a, p) => Told(a, p)'
        BY <2>1, <3>2, <4>1 DEF Told
      <4> QED
        BY <1>2, <2>1, <3>1, <4>1, <4>2 DEF NoteOK
    <3>3. CASE MadeFor(req[r], a) # {}
      <4>1. PICK e : MadeFor(req[r], a) = {e}
        BY <3>1, <3>3 DEF Settled
      <4>2. e[2] # "told" /\ open[a][p] = IF e[2] = "none" THEN {} ELSE {e[2]}
        BY <3>1, <4>1 DEF Settled
      <4>3. open'[a][p] = {e[3]}
        BY <1>5, <4>1, <4>2
      <4>4. Told(a, p) => e[3] = "told"
        BY <2>1, <4>1, <4>2 DEF Told
      <4>5. Told(a, p) => Told(a, p)'
        BY <4>3, <4>4 DEF Told
      <4> QED
        BY <1>2, <2>1, <3>1, <4>3, <4>5 DEF NoteOK
    <3> QED
      BY <3>2, <3>3
  <2> QED
    BY <2>1, <2>2 DEF Alone
<1> QED
  BY <1>2, <1>6, <1>7 DEF NotesInv

\* No step asks an admin again about an undisturbed post.
LEMMA NotesStep ==
  ASSUME Typed, NotesInv, [Next]_vars
  PROVE  NotesInv'
<1>a. ASSUME UNCHANGED <<open, notes, rough>>,
             \A p \in Posts : /\ At(p)' = At(p)
                              /\ \A q \in At(p) : req'[q].made = req[q].made
                                                  /\ req'[q].todo \subseteq req[q].todo
      PROVE  NotesInv'
  BY <1>a, NotesKept DEF NotesInv
<1>1. CASE Aside
  <2>1. \A p \in Posts : At(p)' = At(p) /\ \A q \in At(p) : req'[q] = req[q]
    BY <1>1, CatalogAssumption DEF Aside, At
  <2> QED
    BY <1>1, <1>a, <2>1 DEF Aside, catalogVars, stored
<1>2. CASE UpdateStep
  <2>1. ASSUME UNCHANGED <<stored, req, notes, rough>> PROVE NotesInv'
    BY <1>a, <2>1 DEF At, stored
  <2>2. ASSUME NEW r \in Requests, NEW m \in Merchants, NEW p \in Posts, NEW v \in Versions,
               ReceivePost(r, m, p, v)
        PROVE  NotesInv'
    BY <2>2, PostStarts, NotesAtStart DEF ReceivePost, stored
  <2>3. ASSUME NEW r \in Requests, NEW a \in Admins, NEW p \in Posts, NEW v \in Versions,
               ReceiveBackfill(r, a, p, v)
        PROVE  NotesInv'
    BY <2>3, BackfillStarts, NotesAtStart DEF ReceiveBackfill, catalogVars, stored
  <2>4. ASSUME NEW r \in Requests, Flush(r) PROVE NotesInv'
    <3>1. PICK rec \in RequestRecords :
            Moved(r, rec) /\ SameUpdate(rec, req[r]) /\ rec.made = {}
      BY <2>4, FlushRecord
    <3>2. req[r].made = {}
      BY <2>4, ReqTyped DEF Flush, Proper
    <3>3. UNCHANGED <<open, notes, rough>>
      BY <2>4 DEF Flush, catalogVars, stored
    <3>4. ASSUME NEW p \in Posts \ rough' PROVE Alone(p)' /\ \A a \in Admins : NoteOK(a, p)'
      <4>1. /\ At(p)' = At(p) /\ \A q \in Requests : req'[q] = IF q = r THEN rec ELSE req[q]
        BY <3>1, AtMoved DEF SameUpdate
      <4>2. Alone(p) /\ \A a \in Admins : NoteOK(a, p)
        BY <3>3, <3>4 DEF NotesInv
      <4>3. ASSUME NEW a \in Admins PROVE NoteOK(a, p)'
        <5>1. \A q \in Requests : MadeFor(req'[q], a) = MadeFor(req[q], a)
          BY <3>1, <3>2, <4>1 DEF MadeFor
        <5>2. ASSUME NEW q \in At(p) PROVE Settled(req'[q], a, open[a][p])
          <6>1. Settled(req[q], a, open[a][p])
            BY <4>2 DEF NoteOK
          <6>2. CASE q = r
            <7>1. MadeFor(req'[q], a) = {}
              BY <3>1, <4>1, <6>2 DEF MadeFor
            <7> QED
              BY <7>1 DEF Settled
          <6>3. CASE q # r
            BY <4>1, <6>1, <6>3 DEF At
          <6> QED
            BY <6>2, <6>3
        <5>3. Told(a, p) => Told(a, p)'
          BY <3>3, <4>1, <5>1 DEF Told, At
        <5> QED
          BY <3>3, <4>1, <4>2, <5>2, <5>3 DEF NoteOK
      <4> QED
        BY <4>1, <4>2, <4>3 DEF Alone
    <3> QED
      BY <3>4 DEF NotesInv
  <2>5. ASSUME NEW r \in Requests, NEW a \in Admins, NEW row \in {"none", "told", "silent"},
               NEW how \in Hows, Notify(r, a, row, how)
        PROVE  NotesInv'
    BY <2>5, NotesAtNotify
  <2> QED
    BY <1>2, <2>1, <2>2, <2>3, <2>4, <2>5 DEF UpdateStep, Post, IgnorePost
<1>3. ASSUME NEW r \in Requests, NEW c \in Customers, NEW p \in Posts, Pointer(r, c, p)
      PROVE  NotesInv'
  <2>1. (\E rec \in RequestRecords : Starts(r, rec)) /\ UNCHANGED catalogVars
    BY <1>3, PointerStarts DEF Pointer
  <2> QED
    BY <2>1, NotesAtStart DEF catalogVars, stored
<1>4. ASSUME NEW r \in Requests, StoreCatalog(r) PROVE NotesInv'
  BY <1>4, NotesAtStore
<1>5. ASSUME NEW r \in Requests, LoseCatalog(r) PROVE NotesInv'
  <2>1. PICK rec \in RequestRecords : rec = Idle /\ Moved(r, rec)
    BY <1>5, IdleRecord DEF LoseCatalog, Moved
  <2>2. /\ UNCHANGED <<open, notes>>
        /\ rough' = rough \cup ({req[r].post} \ {None})
    BY <1>5 DEF LoseCatalog, stored
  <2>3. ASSUME NEW p \in Posts \ rough' PROVE Alone(p)' /\ \A a \in Admins : NoteOK(a, p)'
    <3>1. p \notin rough /\ p # req[r].post /\ p # rec.post
      BY <2>1, <2>2, <2>3, CatalogAssumption DEF Idle
    <3>2. /\ At(p)' = At(p) /\ r \notin At(p)
          /\ \A q \in Requests : req'[q] = IF q = r THEN rec ELSE req[q]
      BY <2>1, <3>1, AtMoved
    <3>3. \A q \in At(p) : req'[q] = req[q]
      BY <3>2 DEF At
    <3> QED
      BY <2>2, <3>1, <3>2, <3>3, NotesKept DEF NotesInv
  <2> QED
    BY <2>3 DEF NotesInv
<1> QED
  BY <1>1, <1>2, <1>3, <1>4, <1>5, CatalogCases

\* Once Telegram has answered a query with its message's id, the admin is not asked
\* again for that product's price: the id is in the row, or in the request about to
\* commit it, and only a post whose requests overlapped or failed loses sight of it
\* (queue_price_query's check of platform_message_ids).
THEOREM AdminsNotifiedOnce == Spec => []NotifiedOnce
<1>1. Init => NotesInv
  BY CatalogAssumption DEF Init, CatalogInit, NotesInv, Alone, NoteOK, At, Idle
<1>2. Typed /\ NotesInv /\ [Next]_vars => NotesInv'
  BY NotesStep
<1>3. Typed /\ NotesInv => NotifiedOnce
  BY DEF NotesInv, NoteOK, NotifiedOnce
<1> QED
  BY <1>1, <1>2, <1>3, TypedAlways, PTL DEF Spec

-----------------------------------------------------------------------------
(* The catalogue and the channel.                                           *)

\* The updates Telegram has, and those being served, are of versions the channel has
\* shown.
ShownInv ==
  /\ \A p \in Posts, m \in Merchants : \A v \in inbox[m][p] : v <= version[p]
  /\ \A r \in Requests : req[r].kind = "post" => req[r].ver <= version[req[r].post]

\* Of a post without overlaps: what is yet to come of the channel is newer than what
\* is being served, and what is being served has loaded the row as it is.
ServedOK(p) ==
  /\ Alone(p)
  /\ newest[p] <= version[p]
  /\ \A r \in At(p) :
       /\ req[r].kind = "post" => \A v \in inbox[req[r].m][p] : v > req[r].ver
       /\ Ingests(r) => req[r].old \in {NoProduct, product[p]}

\* And without a backfill: the product is at its newest version, and what its shop is
\* yet to get of it, or to store, is newer.
NewestOK(p) ==
  /\ product[p].text >= newest[p]
  /\ newest[p] # 0 =>
       /\ product[p].owner # None
       /\ \A v \in inbox[product[p].owner][p] : v > newest[p]
       /\ \A r \in At(p) : req[r].kind = "post" /\ req[r].m = product[p].owner =>
                             req[r].ver > newest[p]

FollowInv ==
  /\ ShownInv
  /\ \A p \in Posts \ rough : ServedOK(p)
  /\ \A p \in Posts \ (rough \cup backfilled) : NewestOK(p)

\* A step that leaves the requests about a post, its product and its channel alone.
Settles(p) ==
  /\ At(p)' = At(p) /\ \A r \in At(p) : SameUpdate(req'[r], req[r])
  /\ product'[p] = product[p] /\ newest'[p] = newest[p] /\ (p \in backfilled' <=> p \in backfilled)
  /\ version'[p] = version[p] /\ \A m \in Merchants : inbox'[m][p] \subseteq inbox[m][p]

\* A step that settles nothing new of a post keeps what is known of it.
LEMMA FollowKept ==
  ASSUME Typed, NEW p \in Posts, Settles(p)
  PROVE  /\ ServedOK(p) => ServedOK(p)'
         /\ NewestOK(p) => NewestOK(p)'
<1>0. /\ At(p)' = At(p) /\ \A r \in At(p) : SameUpdate(req'[r], req[r])
      /\ product'[p] = product[p] /\ newest'[p] = newest[p]
      /\ version'[p] = version[p] /\ \A m \in Merchants : inbox'[m][p] \subseteq inbox[m][p]
  BY DEF Settles
<1>1. \A r \in At(p) : req[r].m \in Merchants
  BY ReqTyped, CatalogAssumption DEF At, Proper
<1>2. ASSUME ServedOK(p) PROVE ServedOK(p)'
  <2>1. \A r \in At(p) : Ingests(r)' <=> Ingests(r)
    BY <1>0 DEF Ingests, SameUpdate
  <2> QED
    BY <1>0, <1>1, <1>2, <2>1 DEF ServedOK, Alone, SameUpdate
<1>3. ASSUME NewestOK(p) PROVE NewestOK(p)'
  <2>1. newest[p] # 0 => product[p].owner \in Merchants
    BY <1>3 DEF NewestOK, Typed, ShelfOK, Products
  <2> QED
    BY <1>0, <1>3, <2>1 DEF NewestOK, SameUpdate
<1> QED
  BY <1>2, <1>3

\* The posts that a step which stores nothing does not touch.
LEMMA SettlesElsewhere ==
  ASSUME Typed, NEW r \in Requests, NEW rec \in RequestRecords, Moved(r, rec), NEW p \in Posts,
         \/ req[r].post # p /\ rec.post # p
         \/ SameUpdate(rec, req[r]),
         UNCHANGED <<product, newest, backfilled, version>>,
         \A m \in Merchants : inbox'[m][p] \subseteq inbox[m][p]
  PROVE  Settles(p)
<1>1. \A q \in Requests : req'[q] = IF q = r THEN rec ELSE req[q]
  BY ReqTyped DEF Moved
<1>2. (rec.post = p) <=> (req[r].post = p)
  BY DEF SameUpdate
<1>3. At(p)' = At(p)
  BY <1>2, AtMoved
<1>4. \A q \in At(p) : SameUpdate(req'[q], req[q])
  BY <1>1 DEF At, SameUpdate
<1> QED
  BY <1>3, <1>4 DEF Settles

\* An update begins about post p.
LEMMA FollowAtStart ==
  ASSUME Typed, FollowInv, NEW r \in Requests, NEW rec \in RequestRecords, Starts(r, rec),
         NEW p \in Posts, rec.post = p, rec.m \in Merchants, rec.old = SeenBy(rec.m, p),
         UNCHANGED <<version, stored>>,
         \A m \in Merchants, o \in Posts : inbox'[m][o] \subseteq inbox[m][o],
         rec.kind = "post" =>
           /\ rec.ver \in inbox[rec.m][p]
           /\ \A v \in inbox'[rec.m][p] : v > rec.ver
  PROVE  FollowInv'
<1>0. /\ Moved(r, rec) /\ req[r] = Idle /\ Idle.post = None /\ rough \subseteq rough'
      /\ None \notin Posts /\ req[r].kind # "post"
      /\ rec.m # None
      /\ UNCHANGED <<product, newest, backfilled, version>>
  BY CatalogAssumption DEF Starts, Idle, stored
<1>1. \A q \in Requests : req'[q] = IF q = r THEN rec ELSE req[q]
  BY <1>0, AtMoved
<1>2. \A o \in Posts \ {p} : Settles(o)
  <2>1. ASSUME NEW o \in Posts \ {p} PROVE Settles(o)
    <3>1. req[r].post # o /\ rec.post # o
      BY <1>0
    <3> QED
      BY <1>0, <3>1, SettlesElsewhere
  <2> QED
    BY <2>1
<1>3. ShownInv'
  BY <1>0, <1>1 DEF ShownInv, FollowInv
<1>4. p \notin rough' => At(p) = {} /\ At(p)' = {r}
  <2>1. ASSUME p \notin rough' PROVE At(p) = {}
    BY <1>0, <2>1 DEF Starts, At
  <2>2. At(p)' = At(p) \cup {r}
    BY <1>0, AtMoved
  <2> QED
    BY <2>1, <2>2
<1>5. ASSUME p \notin rough' PROVE ServedOK(p)'
  <2>1. ServedOK(p)
    BY <1>0, <1>5 DEF FollowInv
  <2>2. rec.old \in {NoProduct, product[p]}
    BY DEF SeenBy
  <2> QED
    BY <1>0, <1>1, <1>4, <1>5, <2>1, <2>2 DEF ServedOK, Alone
<1>6. ASSUME p \notin rough' \cup backfilled' PROVE NewestOK(p)'
  <2>1. NewestOK(p) /\ At(p)' = {r}
    BY <1>0, <1>4, <1>6 DEF FollowInv
  <2>2. newest[p] # 0 => product[p].owner \in Merchants
    BY <2>1 DEF NewestOK, Typed, ShelfOK, Products
  <2> QED
    BY <1>0, <1>1, <2>1, <2>2 DEF NewestOK
<1>7. \A o \in Posts \ (rough' \cup {p}) : ServedOK(o)'
  BY <1>0, <1>2, FollowKept DEF FollowInv
<1>8. \A o \in Posts \ (rough' \cup backfilled' \cup {p}) : NewestOK(o)'
  BY <1>0, <1>2, FollowKept DEF FollowInv
<1> QED
  BY <1>3, <1>5, <1>6, <1>7, <1>8 DEF FollowInv

\* A step that settles every post but those it makes rough.
LEMMA FollowSettled ==
  ASSUME Typed, FollowInv, ShownInv', rough \subseteq rough',
         \A p \in Posts \ rough' : Settles(p)
  PROVE  FollowInv'
<1>1. \A p \in Posts \ rough' : ServedOK(p)'
  BY FollowKept DEF FollowInv
<1>2. \A p \in Posts \ (rough' \cup backfilled') : NewestOK(p)'
  BY FollowKept DEF FollowInv, Settles
<1> QED
  BY <1>1, <1>2 DEF FollowInv

\* The channel shows another version.
LEMMA FollowAtPost ==
  ASSUME Typed, FollowInv, NEW p \in Posts, Post(p)
  PROVE  FollowInv'
<1>0. /\ UNCHANGED <<req, rough, product, newest, backfilled>>
      /\ version \in [Posts -> Nat] /\ newest \in [Posts -> Nat]
      /\ inbox \in [Merchants -> [Posts -> SUBSET Nat]]
  BY CatalogAssumption DEF Post, stored, Typed, ShelfOK, Versions
<1>1. /\ \A o \in Posts : version'[o] = IF o = p THEN version[o] + 1 ELSE version[o]
      /\ \A m \in Merchants, o \in Posts \ {p} : inbox'[m][o] = inbox[m][o]
      /\ \A m \in Merchants : \A v \in inbox'[m][p] : v \in inbox[m][p] \/ v = version[p] + 1
  BY <1>0 DEF Post
<1>2. \A o \in Posts \ {p} : Settles(o)
  BY <1>0, <1>1 DEF Settles, At, SameUpdate
<1>3. ShownInv'
  <2>1. \A m \in Merchants, o \in Posts : \A v \in inbox'[m][o] : v <= version'[o]
    BY <1>0, <1>1 DEF ShownInv, FollowInv
  <2>2. ASSUME NEW r \in Requests, req[r].kind = "post"
        PROVE  req[r].ver <= version'[req[r].post]
    <3>1. req[r].post \in Posts /\ req[r].ver \in Nat /\ req[r].ver <= version[req[r].post]
      BY <2>2, ReqTyped, RecordOf, CatalogAssumption DEF Proper, ShownInv, FollowInv
    <3> QED
      BY <1>0, <1>1, <3>1
  <2> QED
    BY <1>0, <2>1, <2>2 DEF ShownInv
<1>4. ASSUME p \notin rough PROVE ServedOK(p)'
  <2>1. ServedOK(p)
    BY <1>4 DEF FollowInv
  <2>2. At(p)' = At(p) /\ newest'[p] <= version'[p]
    BY <1>0, <1>1, <2>1 DEF ServedOK, At
  <2>3. ASSUME NEW r \in At(p), req[r].kind = "post", NEW v \in inbox'[req[r].m][p]
        PROVE  v > req[r].ver
    <3>1. req[r].m \in Merchants /\ req[r].ver \in Nat /\ req[r].ver <= version[p]
      BY <2>3, ReqTyped, RecordOf, CatalogAssumption DEF At, Proper, ShownInv, FollowInv
    <3>2. v \in inbox[req[r].m][p] \/ v = version[p] + 1
      BY <1>1, <2>3, <3>1
    <3>3. v \in inbox[req[r].m][p] => v > req[r].ver
      BY <2>1, <2>3 DEF ServedOK
    <3> QED
      BY <1>0, <3>1, <3>2, <3>3
  <2> QED
    BY <1>0, <2>1, <2>2, <2>3 DEF ServedOK, Alone, Ingests
<1>5. ASSUME p \notin rough \cup backfilled PROVE NewestOK(p)'
  <2>1. NewestOK(p) /\ newest[p] <= version[p]
    BY <1>5 DEF FollowInv, ServedOK
  <2>2. newest[p] # 0 => product[p].owner \in Merchants
    BY <2>1 DEF NewestOK, Typed, ShelfOK, Products
  <2>3. newest[p] # 0 => \A v \in inbox'[product[p].owner][p] : v > newest[p]
    BY <1>0, <1>1, <2>1, <2>2 DEF NewestOK
  <2> QED
    BY <1>0, <2>1, <2>3 DEF NewestOK, At
<1>6. \A o \in Posts \ (rough \cup {p}) : ServedOK(o)'
  BY <1>2, FollowKept DEF FollowInv
<1>7. \A o \in Posts \ (rough \cup backfilled \cup {p}) : NewestOK(o)'
  BY <1>2, FollowKept DEF FollowInv
<1> QED
  BY <1>0, <1>3, <1>4, <1>5, <1>6, <1>7 DEF FollowInv

\* An ingestion is committed.
LEMMA FollowAtStore ==
  ASSUME Typed, RowInv, FollowInv, NEW r \in Requests, StoreCatalog(r)
  PROVE  FollowInv'
<1>1. PICK p \in Posts : p = req[r].post
  BY ReqTyped DEF StoreCatalog, Proper
<1>2. PICK rec \in RequestRecords : rec = req[r] /\ Proper(rec)
  BY ReqTyped
<1>3. /\ Moved(r, Idle) /\ UNCHANGED <<version, inbox, rough>>
      /\ product' = IF Ingests(r)
           THEN [product EXCEPT ![p] = Merged(rec.old, Outcome(rec), @)] ELSE product
      /\ newest' = IF rec.kind = "post" /\ rec.ver > newest[p]
           THEN [newest EXCEPT ![p] = rec.ver] ELSE newest
      /\ backfilled' = IF rec.kind = "backfill" THEN backfilled \cup {p} ELSE backfilled
      /\ rec.step = "notify"
  BY <1>1, <1>2 DEF StoreCatalog, Moved
<1>4. /\ \A o \in Posts : At(o)' = At(o) \ {r} /\ (r \in At(o) <=> o = p)
      /\ \A q \in Requests : req'[q] = IF q = r THEN Idle ELSE req[q]
  <2>1. Idle \in RequestRecords /\ Idle.post \notin Posts
    BY IdleRecord, CatalogAssumption DEF Idle
  <2> QED
    BY <1>1, <1>3, <2>1, AtMoved DEF At
<1>5. /\ version \in [Posts -> Nat] /\ newest \in [Posts -> Nat] /\ rec.ver \in Nat
      /\ product \in [Posts -> Products] /\ rec.post = p
  BY <1>1, <1>2, RecordOf, CatalogAssumption DEF Typed, ShelfOK
<1>6. \A o \in Posts \ {p} : Settles(o)
  <2>1. \A o \in Posts \ {p} : At(o)' = At(o) /\ \A q \in At(o) : req'[q] = req[q]
    BY <1>4 DEF At
  <2>2. \A o \in Posts \ {p} :
          /\ product'[o] = product[o] /\ newest'[o] = newest[o]
          /\ (o \in backfilled' <=> o \in backfilled)
    BY <1>3, <1>5
  <2> QED
    BY <1>3, <2>1, <2>2 DEF Settles, SameUpdate
<1>7. ShownInv'
  BY <1>3, <1>4 DEF ShownInv, FollowInv, Idle
<1>8. ASSUME p \notin rough PROVE ServedOK(p)' /\ At(p)' = {} /\ At(p) = {r}
  <2>1. ServedOK(p)
    BY <1>8 DEF FollowInv
  <2>2. At(p) = {r} /\ At(p)' = {}
    BY <1>4, <2>1 DEF ServedOK, Alone
  <2>3. rec.kind = "post" => rec.ver <= version[p]
    BY <1>1, <1>2 DEF FollowInv, ShownInv
  <2>4. newest'[p] <= version'[p]
    BY <1>3, <1>5, <2>1, <2>3 DEF ServedOK
  <2> QED
    BY <2>2, <2>4 DEF ServedOK, Alone
<1>9. ASSUME p \notin rough \cup backfilled' PROVE NewestOK(p)'
  <2>1. ServedOK(p) /\ NewestOK(p) /\ At(p)' = {} /\ At(p) = {r} /\ rec.kind # "backfill"
    BY <1>3, <1>8, <1>9 DEF FollowInv
  <2>2. CASE ~Ingests(r)
    <3>1. rec.kind # "post"
      BY <1>2, <2>2 DEF Ingests, Proper
    <3>2. UNCHANGED <<product, newest>>
      BY <1>3, <2>2, <3>1
    <3> QED
      BY <1>3, <2>1, <3>2 DEF NewestOK
  <2>3. CASE Ingests(r)
    <3>1. rec.ver # 0 /\ rec.kind \in {"post", "forward"} /\ rec.m \in Merchants
      BY <1>2, <1>3, <2>1, <2>3 DEF Ingests, Proper
    <3>2. /\ rec.old \in {NoProduct, product[p]}
          /\ rec.old = NoProduct => product[p] = NoProduct
          /\ rec.kind = "forward" => rec.old = NoProduct
      BY <1>1, <1>2, <1>3, <2>1, <2>3 DEF ServedOK, RowInv, SnapshotOK
    <3>3. /\ product'[p].owner = rec.m
          /\ product[p] = NoProduct \/ product[p].owner = rec.m
          /\ product'[p].text = IF rec.ver # rec.old.text THEN rec.ver ELSE product[p].text
      BY <1>1, <1>2, <2>3, StoredRow
    <3>4. product'[p].text = rec.ver
      BY <3>2, <3>3
    <3>5. product[p] = NoProduct => newest[p] = 0
      BY <2>1 DEF NewestOK, NoProduct
    <3>6. CASE rec.kind = "forward"
      <4>1. newest'[p] = 0
        BY <1>3, <3>2, <3>5, <3>6
      <4> QED
        BY <1>5, <3>4, <4>1 DEF NewestOK
    <3>7. CASE rec.kind = "post"
      <4>1. newest[p] # 0 => rec.ver > newest[p]
        BY <1>2, <2>1, <3>3, <3>5, <3>7 DEF NewestOK
      <4>2. newest'[p] = rec.ver
        BY <1>3, <1>5, <3>1, <3>7, <4>1
      <4>3. \A v \in inbox[rec.m][p] : v > rec.ver
        BY <1>2, <2>1, <3>7 DEF ServedOK
      <4>4. rec.m # None
        BY <3>1, CatalogAssumption
      <4> QED
        BY <1>3, <1>5, <2>1, <3>3, <3>4, <4>2, <4>3, <4>4 DEF NewestOK
    <3> QED
      BY <3>1, <3>6, <3>7
  <2> QED
    BY <2>2, <2>3
<1>10. \A o \in Posts \ (rough \cup {p}) : ServedOK(o)'
  BY <1>6, FollowKept DEF FollowInv
<1>11. \A o \in Posts \ (rough \cup backfilled' \cup {p}) : NewestOK(o)'
  BY <1>6, FollowKept DEF FollowInv, Settles
<1> QED
  BY <1>3, <1>7, <1>8, <1>9, <1>10, <1>11 DEF FollowInv

\* A request fails: its post is rough from then on, and its update comes again.
LEMMA FollowAtLose ==
  ASSUME Typed, FollowInv, NEW r \in Requests, LoseCatalog(r), req[r].post # None
  PROVE  FollowInv'
<1>1. PICK p \in Posts : p = req[r].post
  BY ReqTyped, RecordOf
<1>2. /\ Moved(r, Idle) /\ UNCHANGED <<version, product, newest, backfilled>>
      /\ rough \subseteq rough' /\ p \in rough'
  BY <1>1, CatalogAssumption DEF LoseCatalog, Moved, stored
<1>3. \A m \in Merchants, o \in Posts : \A v \in inbox'[m][o] :
        v \in inbox[m][o] \/ (o = p /\ v = req[r].ver /\ req[r].kind = "post")
  <2>1. inbox \in [Merchants -> [Posts -> SUBSET Versions]]
    BY DEF Typed, ShelfOK
  <2> QED
    BY <1>1, <2>1 DEF LoseCatalog
<1>4. Idle \in RequestRecords /\ Idle.post = None /\ None \notin Posts /\ Idle.kind # "post"
  BY IdleRecord, CatalogAssumption DEF Idle
<1>5. ASSUME NEW o \in Posts \ rough' PROVE Settles(o)
  <2>1. req[r].post # o /\ Idle.post # o
    BY <1>1, <1>2, <1>4
  <2>2. \A m \in Merchants : inbox'[m][o] \subseteq inbox[m][o]
    BY <1>1, <1>3, <2>1
  <2> QED
    BY <1>2, <1>4, <2>1, <2>2, SettlesElsewhere
<1>6. \A q \in Requests : req'[q] = IF q = r THEN Idle ELSE req[q]
  BY <1>2, ReqTyped DEF Moved
<1>7. ShownInv'
  BY <1>1, <1>2, <1>3, <1>4, <1>6 DEF ShownInv, FollowInv
<1> QED
  BY <1>2, <1>5, <1>7, FollowSettled

\* The catalogue's updates.
LEMMA FollowAtUpdate ==
  ASSUME Typed, FollowInv, UpdateStep
  PROVE  FollowInv'
<1>0. inbox \in [Merchants -> [Posts -> SUBSET Versions]] /\ Versions \subseteq Nat
  BY CatalogAssumption DEF Typed, ShelfOK, Versions
<1>1. ASSUME NEW p \in Posts, Post(p) PROVE FollowInv'
  BY <1>1, FollowAtPost
<1>2. ASSUME NEW r \in Requests, NEW m \in Merchants, NEW p \in Posts, NEW v \in Versions,
             ReceivePost(r, m, p, v)
      PROVE  FollowInv'
  <2>1. PICK rec \in RequestRecords :
          /\ Starts(r, rec) /\ rec.kind = "post" /\ rec.m = m /\ rec.post = p /\ rec.ver = v
          /\ rec.old = SeenBy(m, p)
    BY <1>2, PostStarts DEF IsBegun
  <2>2. /\ v \in inbox[m][p] /\ \A w \in inbox[m][p] : v <= w
        /\ inbox' = [inbox EXCEPT ![m][p] = @ \ {v}] /\ UNCHANGED <<version, stored>>
    BY <1>2 DEF ReceivePost, Delivered
  <2>3. /\ \A n \in Merchants, o \in Posts : inbox'[n][o] \subseteq inbox[n][o]
        /\ inbox'[m][p] = inbox[m][p] \ {v}
    BY <1>0, <2>2
  <2>4. \A w \in inbox'[m][p] : w > v
    BY <1>0, <2>2, <2>3
  <2> QED
    BY <2>1, <2>2, <2>3, <2>4, FollowAtStart
<1>3. ASSUME NEW r \in Requests, NEW m \in Merchants, NEW p \in Posts, NEW v \in Versions,
             IgnorePost(r, m, p, v)
      PROVE  FollowInv'
  <2>1. /\ inbox' = [inbox EXCEPT ![m][p] = @ \ {v}]
        /\ UNCHANGED <<version, product, newest, backfilled, req, rough>>
    BY <1>3 DEF IgnorePost, Delivered, stored
  <2>2. \A n \in Merchants, o \in Posts : inbox'[n][o] \subseteq inbox[n][o]
    BY <1>0, <2>1
  <2>3. ShownInv'
    BY <2>1, <2>2 DEF ShownInv, FollowInv
  <2>4. \A o \in Posts : Settles(o)
    BY <2>1, <2>2 DEF Settles, SameUpdate, At
  <2> QED
    BY <2>1, <2>3, <2>4, FollowSettled
<1>4. ASSUME NEW r \in Requests, NEW a \in Admins, NEW p \in Posts, NEW v \in Versions,
             ReceiveBackfill(r, a, p, v)
      PROVE  FollowInv'
  <2>1. PICK rec \in RequestRecords :
          /\ Starts(r, rec) /\ rec.kind = "backfill" /\ rec.m = AdminOf[a] /\ rec.post = p
          /\ rec.old = SeenBy(AdminOf[a], p)
    BY <1>4, BackfillStarts DEF IsBegun
  <2>2. UNCHANGED <<version, inbox, stored>> /\ AdminOf[a] \in Merchants
    BY <1>4, CatalogAssumption DEF ReceiveBackfill, catalogVars
  <2> QED
    BY <2>1, <2>2, FollowAtStart
<1>5. ASSUME NEW r \in Requests, NEW rec \in RequestRecords, Moved(r, rec),
             SameUpdate(rec, req[r]),
             UNCHANGED <<version, inbox, product, newest, backfilled, rough>>
      PROVE  FollowInv'
  <2>1. \A p \in Posts : Settles(p)
    BY <1>5, SettlesElsewhere
  <2>2. \A q \in Requests : req'[q] = IF q = r THEN rec ELSE req[q]
    BY <1>5, ReqTyped DEF Moved
  <2>3. ShownInv'
    BY <1>5, <2>2 DEF ShownInv, FollowInv, SameUpdate
  <2> QED
    BY <1>5, <2>1, <2>3, FollowSettled
<1>6. ASSUME NEW r \in Requests, Flush(r) PROVE FollowInv'
  <2>1. UNCHANGED <<version, inbox, product, newest, backfilled, rough>>
    BY <1>6 DEF Flush, catalogVars, stored
  <2> QED
    BY <1>5, <1>6, <2>1, FlushRecord
<1>7. ASSUME NEW r \in Requests, NEW a \in Admins, NEW row \in {"none", "told", "silent"},
             NEW how \in Hows, Notify(r, a, row, how)
      PROVE  FollowInv'
  <2>1. UNCHANGED <<version, inbox, product, newest, backfilled, rough>>
    BY <1>7 DEF Notify, stored
  <2> QED
    BY <1>5, <1>7, <2>1, NotifyRecord
<1> QED
  BY <1>1, <1>2, <1>3, <1>4, <1>6, <1>7 DEF UpdateStep

\* No step makes an undisturbed product older than its post.
LEMMA FollowStep ==
  ASSUME Typed, RowInv, FollowInv, [Next]_vars
  PROVE  FollowInv'
<1>1. CASE Aside
  <2>1. UNCHANGED <<version, inbox, product, newest, backfilled, rough>>
    BY <1>1 DEF Aside, catalogVars, stored
  <2>2. \A p \in Posts : At(p)' = At(p) /\ \A q \in At(p) : req'[q] = req[q]
    BY <1>1, CatalogAssumption DEF Aside, At
  <2>3. \A p \in Posts : Settles(p)
    BY <2>1, <2>2 DEF Settles, SameUpdate
  <2>4. \A q \in Requests : req'[q].kind = "post" => req'[q] = req[q]
    <3>1. \A q \in Requests : req'[q].post = None => req'[q].kind # "post"
      BY ReqStep, CatalogAssumption DEF ReqOK, Proper
    <3> QED
      BY <1>1, <3>1 DEF Aside
  <2>5. ShownInv'
    BY <2>1, <2>4 DEF ShownInv, FollowInv
  <2> QED
    BY <2>1, <2>3, <2>5, FollowSettled
<1>2. CASE UpdateStep
  BY <1>2, FollowAtUpdate
<1>3. ASSUME NEW r \in Requests, NEW c \in Customers, NEW p \in Posts, Pointer(r, c, p)
      PROVE  FollowInv'
  <2>1. PICK rec \in RequestRecords :
          /\ Starts(r, rec) /\ rec.m = ShopOf[c] /\ rec.post = p /\ rec.kind \in {"forward", "link"}
          /\ rec.old = SeenBy(ShopOf[c], p)
    BY <1>3, PointerStarts DEF Pointer
  <2>2. UNCHANGED <<version, inbox, stored>> /\ ShopOf[c] \in Merchants
    BY <1>3, PointerStarts, CatalogAssumption DEF Pointer, catalogVars
  <2> QED
    BY <2>1, <2>2, FollowAtStart
<1>4. ASSUME NEW r \in Requests, StoreCatalog(r) PROVE FollowInv'
  BY <1>4, FollowAtStore
<1>5. ASSUME NEW r \in Requests, LoseCatalog(r), req[r].post # None PROVE FollowInv'
  BY <1>5, FollowAtLose
<1> QED
  BY <1>1, <1>2, <1>3, <1>4, <1>5, CatalogCases

\* The product shows the newest version its channel's posts were ingested with: while
\* requests do not overlap, Telegram delivers a post's versions in order, an ingestion
\* writes its version's text over any other, and a customer's forward stores a post
\* only where there is no product (ingest_post, _resolve_and_answer_product).
THEOREM CatalogFollows == Spec => []CatalogFollowsChannel
<1>1. Init => FollowInv
  <2> SUFFICES ASSUME Init PROVE FollowInv
    OBVIOUS
  <2>1. /\ \A r \in Requests : req[r] = Idle
        /\ \A p \in Posts : newest[p] = 0 /\ version[p] \in {0, 1} /\ product[p].text \in {0, 1}
        /\ \A m \in Merchants, p \in Posts : inbox[m][p] = {}
    BY DEF Init, CatalogInit, NoProduct
  <2>2. \A p \in Posts : At(p) = {}
    BY <2>1, CatalogAssumption DEF At, Idle
  <2> QED
    BY <2>1, <2>2 DEF FollowInv, ShownInv, ServedOK, NewestOK, Alone, Idle
<1>2. Typed /\ RowInv /\ FollowInv /\ [Next]_vars => FollowInv'
  BY FollowStep
<1>3. FollowInv => CatalogFollowsChannel
  BY DEF FollowInv, NewestOK, CatalogFollowsChannel
<1> QED
  BY <1>1, <1>2, <1>3, TypedAlways, RowAlways, PTL DEF Spec

-----------------------------------------------------------------------------
(* What conversations point to.                                             *)

\* In the catalogue rows, what is pointed to is merchant m's.
Owns(rows, m, p) == p # None => rows[p].owner = m
OwnsShown(rows, m, shown) == \A i \in DOMAIN shown : Owns(rows, m, shown[i])

\* Or, for the conversation's last product, the provider named it.
Leads(rows, names, m, p) == p \in names \/ Owns(rows, m, p)
OwnsBoth(rows, names, m, k) == Leads(rows, names, m, k.last) /\ OwnsShown(rows, m, k.shown)

\* A log's carousel is of the shop its customer writes to.
LogInShop(rows, row) == row.c # None => OwnsShown(rows, ShopOf[row.c], row.shown)

\* So is what a request loaded of the conversation and will store, but for the post it
\* is about to ingest.
InShop(rows, names, rec) == rec.c # None =>
  /\ OwnsBoth(rows, names[rec.c], rec.m, rec.ctx)
  /\ OwnsShown(rows, rec.m, rec.new.shown)
  /\ IF rec.ver # 0 THEN rec.new.last = rec.post
     ELSE Leads(rows, names[rec.c], rec.m, rec.new.last)

ShopInv ==
  /\ \A c \in Customers : OwnsBoth(product, named[c], ShopOf[c], ctx[c])
  /\ \A l \in Logs : LogInShop(product, logs[l])
  /\ \A r \in Requests : InShop(product, named, req[r])

\* What the provider has named, it has named.
LEMMA NamedGrows ==
  ASSUME Typed, [Next]_vars, NEW c \in Customers
  PROVE  named[c] \subseteq named'[c]
<1>1. CASE UNCHANGED named
  BY <1>1
<1>2. ASSUME NEW r \in Requests, NEW ref \in Posts \cup {None},
             Generate(r, ref) \/ GenerateNothing(r, ref)
      PROVE  named[c] \subseteq named'[c]
  BY <1>2, GenerateMoves, NothingMoves, NotingMoves
<1>3. ASSUME NEW r \in Requests,
             CustomerStarts(r) \/ Passing(r) \/ Ends(r) \/ OrdinalReply(r) \/ CacheHit(r)
               \/ \E l \in Logs, s \in Carousels : SendCarousel(r, l, s)
      PROVE  UNCHANGED named
  BY <1>3, MessageStarts, TapStarts, PointerStarts, PassingMoves
     DEF CustomerStarts, Ends, Commit, CommitCatalog, Fail, answerVars, OrdinalReply, CacheHit,
         SendCarousel
<1> QED
  BY <1>1, <1>2, <1>3, StepCases DEF vars, answerVars, AnswersIt, Tick

\* What is a shop's stays the shop's.
LEMMA OwnsKept ==
  ASSUME Typed, RowInv, [Next]_vars, NEW m \in Merchants
  PROVE  /\ \A c \in Customers, p \in Posts \cup {None} :
              Leads(product, named[c], m, p) => Leads(product', named'[c], m, p)
         /\ \A s \in Carousels \cup {<<>>} :
              OwnsShown(product, m, s) => OwnsShown(product', m, s)
         /\ \A c \in Customers, k \in Contexts :
              OwnsBoth(product, named[c], m, k) => OwnsBoth(product', named'[c], m, k)
<1>1. \A p \in Posts \cup {None} : Owns(product, m, p) => Owns(product', m, p)
  BY OwnersStay, CatalogAssumption DEF Owns
<1>2. ASSUME NEW s \in Carousels \cup {<<>>}, NEW i \in DOMAIN s PROVE s[i] \in Posts
  BY <1>2 DEF Carousels
<1>3. \A s \in Carousels \cup {<<>>} : OwnsShown(product, m, s) => OwnsShown(product', m, s)
  BY <1>1, <1>2 DEF OwnsShown
<1>4. \A c \in Customers, p \in Posts \cup {None} :
        Leads(product, named[c], m, p) => Leads(product', named'[c], m, p)
  BY <1>1, NamedGrows DEF Leads
<1> QED
  BY <1>3, <1>4 DEF OwnsBoth, Contexts

\* A step that keeps, or brings in from the shop, all that points to its products.
LEMMA ShopKept ==
  ASSUME Typed, RowInv, ShopInv, [Next]_vars,
         \A c \in Customers :
           ctx'[c] = ctx[c] \/ OwnsBoth(product', named'[c], ShopOf[c], ctx'[c]),
         \A l \in Logs : \/ logs'[l].c = logs[l].c /\ logs'[l].shown = logs[l].shown
                         \/ LogInShop(product', logs'[l]),
         \A q \in Requests :
           \/ InShop(product', named', req'[q])
           \/ SameUpdate(req'[q], req[q]) /\ req'[q].new = req[q].new
  PROVE  ShopInv'
<1>0. \A c \in Customers : ShopOf[c] \in Merchants
  BY CatalogAssumption
<1>1. \A c \in Customers : OwnsBoth(product', named'[c], ShopOf[c], ctx'[c])
  <2>1. ASSUME NEW c \in Customers, ctx'[c] = ctx[c]
        PROVE  OwnsBoth(product', named'[c], ShopOf[c], ctx'[c])
    BY <1>0, <2>1, OwnsKept DEF ShopInv, Typed, TalkOK
  <2> QED
    BY <2>1
<1>2. \A l \in Logs : LogInShop(product', logs'[l])
  <2>1. ASSUME NEW l \in Logs, logs'[l].c = logs[l].c, logs'[l].shown = logs[l].shown
        PROVE  LogInShop(product', logs'[l])
    <3>1. /\ logs[l].c \in Customers \cup {None} /\ logs[l].shown \in Carousels \cup {<<>>}
          /\ LogInShop(product, logs[l])
      BY DEF Typed, TalkOK, LogRows, ShopInv
    <3> QED
      BY <1>0, <2>1, <3>1, OwnsKept DEF LogInShop
  <2> QED
    BY <2>1
<1>3. \A q \in Requests : InShop(product', named', req'[q])
  <2>1. ASSUME NEW q \in Requests, SameUpdate(req'[q], req[q]), req'[q].new = req[q].new,
               req[q].c # None
        PROVE  InShop(product', named', req'[q])
    <3>1. PICK x, y : x \in RequestRecords /\ x = req[q] /\ y = req'[q] /\ Proper(x)
      BY ReqTyped
    <3>2. /\ x.c \in Customers \cup {None} /\ x.ctx \in Contexts /\ x.new \in Contexts
          /\ x.m \in Merchants
      BY <1>0, <2>1, <3>1, RecordOf DEF Proper
    <3>3. x.new.shown \in Carousels \cup {<<>>} /\ x.new.last \in Posts \cup {None}
      BY <3>2 DEF Contexts
    <3>4. /\ OwnsBoth(product', named'[x.c], x.m, x.ctx)
          /\ OwnsShown(product', x.m, x.new.shown)
          /\ IF x.ver # 0 THEN x.new.last = x.post
             ELSE Leads(product', named'[x.c], x.m, x.new.last)
      BY <2>1, <3>1, <3>2, <3>3, OwnsKept DEF ShopInv, InShop
    <3> QED
      BY <2>1, <3>1, <3>4 DEF InShop, SameUpdate
  <2>2. ASSUME NEW q \in Requests, SameUpdate(req'[q], req[q]), req[q].c = None
        PROVE  InShop(product', named', req'[q])
    BY <2>2 DEF InShop, SameUpdate
  <2> QED
    BY <2>1, <2>2
<1> QED
  BY <1>1, <1>2, <1>3 DEF ShopInv

\* The same for a step of one request that stores no conversation.
LEMMA ShopAtMove ==
  ASSUME Typed, RowInv, ShopInv, [Next]_vars,
         NEW r \in Requests, NEW rec \in RequestRecords, Moved(r, rec),
         \/ InShop(product', named', rec)
         \/ SameUpdate(rec, req[r]) /\ rec.new = req[r].new,
         UNCHANGED ctx,
         \A l \in Logs : logs'[l] = logs[l] \/ LogInShop(product', logs'[l])
  PROVE  ShopInv'
<1>1. \A q \in Requests : req'[q] = IF q = r THEN rec ELSE req[q]
  BY ReqTyped DEF Moved
<1>2. \A q \in Requests :
        \/ InShop(product', named', req'[q])
        \/ SameUpdate(req'[q], req[q]) /\ req'[q].new = req[q].new
  BY <1>1 DEF SameUpdate
<1> QED
  BY <1>2, ShopKept

\* What a customer's update finds is in the shop.
LEMMA ShopAtStart ==
  ASSUME Typed, RowInv, ShopInv, [Next]_vars, NEW r \in Requests, CustomerStarts(r)
  PROVE  ShopInv'
<1>0. \A c \in Customers :
        /\ ShopOf[c] \in Merchants /\ ctx[c] \in Contexts
        /\ OwnsBoth(product, named[c], ShopOf[c], ctx[c])
  BY CatalogAssumption DEF Typed, TalkOK, ShopInv
<1>1. ASSUME NEW c \in Customers,
             (\E q \in Questions : ReceiveText(r, c, q)) \/ ReceivePhoto(r, c)
      PROVE  ShopInv'
  <2>1. PICK rec \in RequestRecords :
          /\ Starts(r, rec) /\ rec.m = ShopOf[c] /\ rec.c = c /\ rec.ver = 0
          /\ rec.ctx = ctx[c] /\ rec.new = ctx[c]
    BY <1>1, MessageStarts
  <2>2. UNCHANGED <<product, ctx, logs, named>>
    BY <1>1, MessageStarts DEF catalogVars, stored
  <2>3. InShop(product', named', rec)
    BY <1>0, <2>1, <2>2 DEF InShop, OwnsBoth
  <2> QED
    BY <2>1, <2>2, <2>3, ShopAtMove DEF Starts
<1>2. ASSUME NEW l \in Logs, NEW p \in Posts, p \in Buttons(l), ReceiveTap(r, l, p)
      PROVE  ShopInv'
  <2>1. PICK c \in Customers : c = logs[l].c
    BY <1>2, TapStarts
  <2>2. PICK i \in DOMAIN logs[l].shown : logs[l].shown[i] = p
    BY <1>2 DEF Buttons
  <2>3. PICK rec \in RequestRecords :
          /\ Starts(r, rec) /\ rec.m = ShopOf[logs[l].c] /\ rec.c = logs[l].c /\ rec.ver = 0
          /\ rec.ctx = ctx[logs[l].c] /\ rec.new = About(ctx[logs[l].c], p)
    BY <1>2, TapStarts
  <2>4. UNCHANGED <<product, ctx, logs, named>>
    BY <1>2, TapStarts DEF catalogVars, stored
  <2>5. Owns(product, ShopOf[c], p)
    BY <2>1, <2>2, CatalogAssumption DEF ShopInv, LogInShop, OwnsShown
  <2>6. PICK k \in Contexts : k = ctx[c] /\ OwnsBoth(product, named[c], ShopOf[c], k)
    BY <1>0
  <2>7. About(k, p).last = p /\ About(k, p).shown = k.shown
    BY ContextWith
  <2>8. InShop(product', named', rec)
    BY <2>1, <2>3, <2>4, <2>5, <2>6, <2>7 DEF InShop, OwnsBoth, Leads
  <2> QED
    BY <2>3, <2>4, <2>8, ShopAtMove DEF Starts
<1>3. ASSUME NEW c \in Customers, NEW p \in Posts,
             Link(r, c, p) \/ \E v \in Versions : Forward(r, c, p, v)
      PROVE  ShopInv'
  <2>1. PICK rec \in RequestRecords :
          /\ Starts(r, rec) /\ rec.m = ShopOf[c] /\ rec.c = c /\ rec.post = p
          /\ rec.ctx = ctx[c] /\ rec.new = About(ctx[c], p)
          /\ rec.ver = 0 => SeenBy(ShopOf[c], p) # NoProduct
    BY <1>3, PointerStarts
  <2>2. UNCHANGED <<product, ctx, logs, named>>
    BY <1>3, PointerStarts DEF catalogVars, stored
  <2>3. rec.ver = 0 => Owns(product, ShopOf[c], p)
    BY <2>1 DEF SeenBy, Owns
  <2>4. PICK k \in Contexts : k = ctx[c] /\ OwnsBoth(product, named[c], ShopOf[c], k)
    BY <1>0
  <2>5. About(k, p).last = p /\ About(k, p).shown = k.shown
    BY ContextWith
  <2>6. InShop(product', named', rec)
    BY <2>1, <2>2, <2>3, <2>4, <2>5 DEF InShop, OwnsBoth, Leads
  <2> QED
    BY <2>1, <2>2, <2>6, ShopAtMove DEF Starts
<1> QED
  BY <1>1, <1>2, <1>3 DEF CustomerStarts

\* What an answer is about, and a carousel shows, was found in the shop.
LEMMA ShopAtAnswer ==
  ASSUME Typed, RowInv, ShopInv, [Next]_vars, NEW r \in Requests, AnswersIt(r)
  PROVE  ShopInv'
<1>0. PICK x \in RequestRecords :
        /\ x = req[r] /\ Proper(x) /\ InShop(product, named, x)
        /\ x.ctx \in Contexts /\ x.new \in Contexts /\ x.c \in Customers
        /\ x.ver = 0 /\ x.m \in Merchants
  <2>1. req[r].step \in {"text", "generate", "photo"}
    BY LookupMoves, GenerateMoves, NothingMoves, CarouselMoves DEF AnswersIt
  <2>2. req[r] \in RequestRecords /\ Proper(req[r]) /\ InShop(product, named, req[r])
        /\ req[r].ctx \in Contexts /\ req[r].new \in Contexts
    BY ReqTyped, RecordOf DEF ShopInv
  <2>3. req[r].c \in Customers /\ req[r].ver = 0 /\ req[r].m \in Merchants
    BY <2>1, <2>2, CatalogAssumption DEF Proper
  <2> QED
    BY <2>2, <2>3
<1>1. ASSUME NEW rec \in RequestRecords, Moved(r, rec), SameMessage(rec, x),
             x.c # None => /\ Leads(product', named'[x.c], x.m, rec.new.last)
                           /\ OwnsShown(product, x.m, rec.new.shown),
             UNCHANGED <<product, ctx>>,
             \A l \in Logs : logs'[l] = logs[l] \/ LogInShop(product', logs'[l])
      PROVE  ShopInv'
  <2>0. x.c # None => OwnsBoth(product', named'[x.c], x.m, x.ctx)
    BY <1>0, OwnsKept DEF InShop
  <2>1. InShop(product', named', rec)
    BY <1>0, <1>1, <2>0 DEF InShop, SameMessage, SameUpdate
  <2> QED
    BY <1>1, <2>1, ShopAtMove
<1>2. CASE OrdinalReply(r) \/ CacheHit(r)
  <2>1. PICK rec \in RequestRecords :
          Moved(r, rec) /\ SameMessage(rec, req[r]) /\ rec.new = req[r].ctx
    BY <1>2, LookupMoves
  <2>2. UNCHANGED <<product, ctx, logs, named>>
    BY <1>2, LookupMoves DEF catalogVars, stored
  <2>3. x.c # None => /\ Leads(product', named'[x.c], x.m, x.ctx.last)
                      /\ OwnsShown(product, x.m, x.ctx.shown)
    BY <1>0, <2>2 DEF InShop, OwnsBoth
  <2> QED
    BY <1>0, <1>1, <2>1, <2>2, <2>3
<1>3. ASSUME NEW ref \in Posts \cup {None}, Generate(r, ref) \/ GenerateNothing(r, ref)
      PROVE  ShopInv'
  <2>1. /\ \E rec \in RequestRecords :
             /\ Moved(r, rec) /\ SameMessage(rec, req[r])
             /\ rec.new = Noting(req[r].ctx, ref)
        /\ Names(req[r], ref)
        /\ UNCHANGED <<product, ctx, logs>>
    BY <1>3, GenerateMoves, NothingMoves DEF catalogVars, stored
  <2>2. PICK rec \in RequestRecords :
          /\ Moved(r, rec) /\ SameMessage(rec, x)
          /\ rec.new = Noting(x.ctx, ref)
    BY <1>0, <2>1
  <2>3. /\ rec.new.shown = x.ctx.shown
        /\ rec.new.last = IF ref = None THEN x.ctx.last ELSE ref
        /\ ref # None => ref \in named'[x.c]
    BY <1>0, <2>1, <2>2, NotingMoves
  <2>4. OwnsBoth(product', named'[x.c], x.m, x.ctx)
    BY <1>0, CatalogAssumption, OwnsKept DEF InShop
  <2>5. Leads(product', named'[x.c], x.m, rec.new.last) /\ OwnsShown(product, x.m, rec.new.shown)
    BY <2>1, <2>3, <2>4 DEF OwnsBoth, Leads
  <2> QED
    BY <1>1, <2>1, <2>2, <2>5
<1>4. ASSUME NEW l \in Logs, NEW s \in Carousels, SendCarousel(r, l, s) PROVE ShopInv'
  <2>1. PICK rec \in RequestRecords :
          Moved(r, rec) /\ SameMessage(rec, req[r]) /\ rec.new = Seeing(req[r].new, s)
    BY <1>4, CarouselMoves
  <2>2. /\ UNCHANGED <<product, ctx, named>>
        /\ \A i \in DOMAIN s : s[i] \in Posts /\ SeenBy(req[r].m, s[i]) # NoProduct
    BY <1>4, CarouselMoves DEF catalogVars, stored
  <2>3. logs' = [logs EXCEPT ![l] = [c |-> req[r].c, shown |-> s, state |-> "sent"]]
    BY <1>4 DEF SendCarousel
  <2>4. OwnsShown(product, x.m, s)
    BY <1>0, <2>2 DEF OwnsShown, Owns, SeenBy
  <2>5. x.m = ShopOf[x.c]
    BY <1>0, CatalogAssumption DEF Proper
  <2>7. \A k \in Logs : logs'[k] = logs[k] \/ LogInShop(product', logs'[k])
    <3>1. LogInShop(product, [c |-> x.c, shown |-> s, state |-> "sent"])
      BY <2>4, <2>5 DEF LogInShop
    <3>2. logs \in [Logs -> LogRows]
      BY DEF Typed, TalkOK
    <3> QED
      BY <1>0, <2>2, <2>3, <3>1, <3>2
  <2>8. Seeing(x.new, s).shown = s /\ Seeing(x.new, s).last = x.new.last
    BY <1>0, ContextWith
  <2>9. x.c # None => /\ Leads(product', named'[x.c], x.m, rec.new.last)
                      /\ OwnsShown(product, x.m, rec.new.shown)
    BY <1>0, <2>1, <2>2, <2>4, <2>8 DEF InShop
  <2> QED
    BY <1>0, <1>1, <2>1, <2>2, <2>7, <2>9
<1> QED
  BY <1>2, <1>3, <1>4 DEF AnswersIt

\* What a request stores: the product it ingested is its shop's now.
LEMMA ShopAtEnd ==
  ASSUME Typed, RowInv, ShopInv, [Next]_vars, NEW r \in Requests, Ends(r)
  PROVE  ShopInv'
<1>0. PICK x \in RequestRecords :
        /\ x = req[r] /\ Proper(x) /\ InShop(product, named, x)
        /\ x.ctx \in Contexts /\ x.new \in Contexts /\ x.c \in Customers \cup {None}
  BY ReqTyped, RecordOf DEF ShopInv
<1>1. \A q \in Requests :
        \/ InShop(product', named', req'[q])
        \/ SameUpdate(req'[q], req[q]) /\ req'[q].new = req[q].new
  <2>1. \A q \in Requests : req'[q] = IF q = r THEN Idle ELSE req[q]
    BY EndMoves, ReqTyped DEF Moved
  <2>2. InShop(product', named', Idle)
    BY DEF InShop, Idle
  <2> QED
    BY <2>1, <2>2 DEF SameUpdate
<1>2. ASSUME x.c \in Customers, StoreContext(x), OwnsBoth(product', named'[x.c], x.m, x.new)
      PROVE  \A c \in Customers :
               ctx'[c] = ctx[c] \/ OwnsBoth(product', named'[c], ShopOf[c], ctx'[c])
  <2>1. x.m = ShopOf[x.c] /\ ctx \in [Customers -> Contexts]
    BY <1>0, <1>2, CatalogAssumption DEF Proper, Typed, TalkOK
  <2>2. ctx' = IF x.new # x.ctx \/ x.log # None
               THEN [ctx EXCEPT ![x.c] = x.new] ELSE ctx
    BY <1>2 DEF StoreContext
  <2> QED
    BY <1>2, <2>1, <2>2
<1>3. CASE Commit(r)
  <2>1. x.c \in Customers /\ StoreContext(x) /\ x.ver = 0 /\ x.c # None
    BY <1>0, <1>3, CatalogAssumption DEF Commit, Proper
  <2>2. UNCHANGED <<product, named>>
    BY <1>3 DEF Commit, RestOfCatalog, catalogVars, stored
  <2>3. OwnsBoth(product', named'[x.c], x.m, x.new)
    BY <1>0, <2>1, <2>2 DEF InShop, OwnsBoth
  <2>4. \A l \in Logs : logs'[l].c = logs[l].c /\ logs'[l].shown = logs[l].shown
    <3>1. logs \in [Logs -> LogRows]
      BY DEF Typed, TalkOK
    <3>2. logs' = IF x.log = None THEN logs ELSE [logs EXCEPT ![x.log].state = "kept"]
      BY <1>0, <1>3 DEF Commit
    <3> QED
      BY <3>1, <3>2 DEF LogRows
  <2> QED
    BY <1>1, <1>2, <2>1, <2>3, <2>4, ShopKept
<1>4. CASE CommitCatalog(r)
  <2>1. CASE x.c = None
    <3>1. UNCHANGED <<ctx, logs>>
      BY <1>0, <1>4, <2>1 DEF CommitCatalog, answerVars
    <3> QED
      BY <1>1, <3>1, ShopKept
  <2>2. CASE x.c # None
    <3>1. x.c \in Customers /\ StoreContext(x) /\ UNCHANGED logs /\ StoreCatalog(r)
      BY <1>0, <1>4, <2>2 DEF CommitCatalog
    <3>2. x.m \in Merchants /\ x.new.shown \in Carousels \cup {<<>>}
          /\ x.new.last \in Posts \cup {None}
      BY <1>0, <2>2, <3>1, CatalogAssumption DEF Proper, Contexts
    <3>3. OwnsShown(product', x.m, x.new.shown)
      BY <1>0, <2>2, <3>2, OwnsKept DEF InShop
    <3>4. CASE ~Ingests(r)
      <4>1. Leads(product', named'[x.c], x.m, x.new.last)
        BY <1>0, <2>2, <3>1, <3>2, <3>4, OwnsKept DEF InShop, Ingests
      <4> QED
        BY <1>1, <1>2, <3>1, <3>3, <4>1, ShopKept DEF OwnsBoth
    <3>5. CASE Ingests(r)
      <4>1. PICK p : p = req[r].post
        OBVIOUS
      <4>2. product'[p].owner = req[r].m
        BY <3>1, <3>5, <4>1, StoredRow
      <4>3. x.new.last = x.post
        BY <1>0, <2>2, <3>5 DEF InShop, Ingests
      <4>4. Leads(product', named'[x.c], x.m, x.new.last)
        BY <1>0, <4>1, <4>2, <4>3 DEF Leads, Owns
      <4> QED
        BY <1>1, <1>2, <3>1, <3>3, <4>4, ShopKept DEF OwnsBoth
    <3> QED
      BY <3>4, <3>5
  <2> QED
    BY <2>1, <2>2
<1>5. CASE Fail(r)
  <2>1. UNCHANGED ctx
    BY <1>5 DEF Fail
  <2>2. \A l \in Logs : logs'[l] = logs[l] \/ LogInShop(product', logs'[l])
    <3>1. logs \in [Logs -> LogRows]
      BY DEF Typed, TalkOK
    <3>2. logs' = IF x.log = None THEN logs ELSE [logs EXCEPT ![x.log] = NoLog]
      BY <1>0, <1>5 DEF Fail
    <3>3. LogInShop(product', NoLog)
      BY DEF LogInShop, NoLog
    <3> QED
      BY <3>1, <3>2, <3>3
  <2> QED
    BY <1>1, <2>1, <2>2, ShopKept
<1> QED
  BY <1>3, <1>4, <1>5 DEF Ends

\* No step lets a context point into another shop.
LEMMA ShopStep ==
  ASSUME Typed, RowInv, ShopInv, [Next]_vars
  PROVE  ShopInv'
<1>a. ASSUME UNCHANGED <<ctx, logs>>,
             \A q \in Requests : SameUpdate(req'[q], req[q]) /\ req'[q].new = req[q].new
      PROVE  ShopInv'
  BY <1>a, ShopKept
<1>1. CASE UNCHANGED vars
  BY <1>1, <1>a DEF vars, answerVars, SameUpdate
<1>2. CASE UpdateStep /\ UNCHANGED answerVars
  <2>0. UNCHANGED <<ctx, logs>>
    BY <1>2 DEF answerVars
  <2>1. CASE UNCHANGED req
    BY <1>a, <2>0, <2>1 DEF SameUpdate
  <2>2. ASSUME NEW r \in Requests, NEW rec \in RequestRecords,
               Starts(r, rec), rec.c = None
        PROVE  ShopInv'
    <3>1. InShop(product', named', rec) /\ Moved(r, rec)
      BY <2>2 DEF InShop, Starts
    <3> QED
      BY <2>0, <3>1, ShopAtMove
  <2>3. ASSUME NEW r \in Requests, NEW rec \in RequestRecords,
               Moved(r, rec), SameUpdate(rec, req[r]), rec.new = req[r].new
        PROVE  ShopInv'
    BY <2>0, <2>3, ShopAtMove
  <2> QED
    BY <1>2, <2>1, <2>2, <2>3, UpdateMoves
<1>3. CASE Tick
  <2>1. UNCHANGED <<ctx, logs>>
    BY <1>3 DEF Tick
  <2>2. \A q \in Requests : SameUpdate(req'[q], req[q]) /\ req'[q].new = req[q].new
    BY <1>3, TickRecord DEF SameMessage
  <2> QED
    BY <1>a, <2>1, <2>2
<1>4. ASSUME NEW r \in Requests, CustomerStarts(r) PROVE ShopInv'
  BY <1>4, ShopAtStart
<1>5. ASSUME NEW r \in Requests, Passing(r) PROVE ShopInv'
  <2>1. PICK rec \in RequestRecords :
          Moved(r, rec) /\ SameMessage(rec, req[r]) /\ rec.new = req[r].new
    BY <1>5, PassingMoves
  <2>2. UNCHANGED <<ctx, logs>>
    BY <1>5, PassingMoves
  <2> QED
    BY <2>1, <2>2, ShopAtMove DEF SameMessage
<1>6. ASSUME NEW r \in Requests, AnswersIt(r) PROVE ShopInv'
  BY <1>6, ShopAtAnswer
<1>7. ASSUME NEW r \in Requests, Ends(r) PROVE ShopInv'
  BY <1>7, ShopAtEnd
<1> QED
  BY <1>1, <1>2, <1>3, <1>4, <1>5, <1>6, <1>7, StepCases

\* A conversation's context only ever points into the catalogue of its own shop, but
\* for a product the provider named: every other product a request takes up was found
\* by a query of that shop, is a button the shop's bot sent, or has just been ingested
\* for it, and no product changes hands (_resolve_and_answer_product, _handle_confirm,
\* find_candidates, find_text_candidates).
THEOREM ContextsInShop == Spec => []ContextInShop
<1>1. Init => ShopInv
  BY DEF Init, CatalogInit, ShopInv, OwnsBoth, OwnsShown, Leads, Owns, LogInShop, InShop,
         NoContext, NoLog, Idle
<1>2. Typed /\ RowInv /\ ShopInv /\ [Next]_vars => ShopInv'
  BY ShopStep
<1>3. Typed /\ ShopInv => ContextInShop
  <2> SUFFICES ASSUME Typed, ShopInv, NEW c \in Customers
               PROVE  /\ ctx[c].last \notin named[c] \cup {None} =>
                           product[ctx[c].last].owner = ShopOf[c]
                      /\ \A i \in DOMAIN ctx[c].shown :
                           product[ctx[c].shown[i]].owner = ShopOf[c]
    BY DEF ContextInShop
  <2>1. OwnsBoth(product, named[c], ShopOf[c], ctx[c])
    BY DEF ShopInv
  <2>2. ASSUME NEW i \in DOMAIN ctx[c].shown PROVE ctx[c].shown[i] # None
    <3>1. ctx[c].shown \in Carousels \cup {<<>>}
      BY DEF Typed, TalkOK, Contexts
    <3> QED
      BY <2>2, <3>1, CatalogAssumption DEF Carousels
  <2> QED
    BY <2>1, <2>2 DEF OwnsBoth, OwnsShown, Leads, Owns
<1> QED
  BY <1>1, <1>2, <1>3, TypedAlways, RowAlways, PTL DEF Spec

-----------------------------------------------------------------------------
(* Ordinals and carousels.                                                  *)

\* The requests of a customer that have sent a carousel and not stored it.
Carrying(c) == {r \in Requests : req[r].c = c /\ req[r].log # None}

\* The carousel a request leaves in the conversation is the one it loaded, or the one
\* it has sent, the customer's last; an ordinal means what the loaded one has there.
Keeps(rec, s) ==
  /\ IF rec.log = None THEN rec.new.shown = rec.ctx.shown ELSE rec.new.shown = s
  /\ rec.q \in Ordinals =>
       rec.aim = IF rec.q <= Len(rec.ctx.shown) THEN rec.ctx.shown[rec.q] ELSE None
  /\ rec.said.how = "ordinal" => rec.said.apt

\* The stored carousel is the one the customer has seen, unless one request is about to
\* store it.
Clear(c) ==
  /\ \A r, q \in Carrying(c) : r = q
  /\ \A r \in Requests : req[r].c = c => Keeps(req[r], seen[c])
  /\ Carrying(c) = {} => ctx[c].shown = seen[c]

SeenInv == \A c \in Customers \ blurred : Clear(c)

\* A request moves on and leaves alone the carousels of customer c.
LEMMA ClearMoved ==
  ASSUME Typed, NEW r \in Requests, NEW rec \in RequestRecords, Moved(r, rec),
         NEW c \in Customers, Clear(c),
         ctx'[c].shown = ctx[c].shown, seen'[c] = seen[c],
         rec.c = c => Keeps(rec, seen[c]),
         (rec.c = c /\ rec.log # None) <=> (req[r].c = c /\ req[r].log # None)
  PROVE  Clear(c)'
<1>1. \A q \in Requests : req'[q] = IF q = r THEN rec ELSE req[q]
  BY ReqTyped DEF Moved
<1>2. Carrying(c)' = Carrying(c)
  <2>1. \A q \in Requests :
          req'[q].c = c /\ req'[q].log # None <=> req[q].c = c /\ req[q].log # None
    BY <1>1
  <2> QED
    BY <2>1 DEF Carrying
<1>3. \A q \in Requests : req'[q].c = c => Keeps(req'[q], seen[c])
  BY <1>1 DEF Clear
<1>4. \A q \in Requests : req'[q].c = c => Keeps(req[q], seen[c])'
  BY <1>3 DEF Keeps
<1> QED
  BY <1>2, <1>4 DEF Clear

\* The same for every customer who is still clear.
LEMMA SeenMoved ==
  ASSUME Typed, SeenInv, NEW r \in Requests, NEW rec \in RequestRecords, Moved(r, rec),
         UNCHANGED <<ctx, seen>>, blurred \subseteq blurred',
         rec.c \in Customers \ blurred' => Keeps(rec, seen[rec.c]),
         \A c \in Customers :
           (rec.c = c /\ rec.log # None) <=> (req[r].c = c /\ req[r].log # None)
  PROVE  SeenInv'
<1>1. ASSUME NEW c \in Customers \ blurred' PROVE Clear(c)'
  <2>1. Clear(c)
    BY DEF SeenInv
  <2>2. rec.c = c => Keeps(rec, seen[c])
    OBVIOUS
  <2> QED
    BY <2>1, <2>2, ClearMoved
<1> QED
  BY <1>1 DEF SeenInv

\* An update of a customer begins with the conversation as it is.
LEMMA SeenAtStart ==
  ASSUME Typed, SeenInv, NEW r \in Requests, CustomerStarts(r)
  PROVE  SeenInv'
<1>0. None \notin Customers /\ None \notin Ordinals
  BY CatalogAssumption, AnsweringAssumption
<1>a. ASSUME NEW c \in Customers, NEW rec \in RequestRecords, Starts(r, rec), rec.c = c,
             rec.ctx = ctx[c], rec.new.shown = ctx[c].shown,
             rec.q = None \/ rec.aim = Meant(c, rec.q),
             blurred' = IF Sending(c) THEN blurred \cup {c} ELSE blurred,
             UNCHANGED <<ctx, seen>>
      PROVE  SeenInv'
  <2>1. req[r].c = None /\ Moved(r, rec) /\ rec.log = None /\ rec.said.how # "ordinal"
    BY <1>a, AnsweringAssumption DEF Starts, Idle, NoAnswer
  <2>2. ASSUME c \notin blurred' PROVE Keeps(rec, seen[c])
    <3>1. c \notin blurred /\ ~Sending(c)
      BY <1>a, <2>2
    <3>2. Clear(c) /\ Carrying(c) = {}
      BY <3>1 DEF SeenInv, Sending, Carrying
    <3>3. ctx[c].shown = seen[c]
      BY <3>2 DEF Clear
    <3>4. ASSUME rec.q \in Ordinals
          PROVE  rec.aim = IF rec.q <= Len(seen[c]) THEN seen[c][rec.q] ELSE None
      <4>1. rec.aim = Meant(c, rec.q) /\ rec.q \notin Posts /\ rec.q # It
        BY <1>0, <1>a, <3>4, AnsweringAssumption
      <4> QED
        BY <4>1 DEF Meant
    <3> QED
      BY <1>a, <2>1, <3>3, <3>4 DEF Keeps
  <2> QED
    BY <1>0, <1>a, <2>1, <2>2, SeenMoved
<1>1. ASSUME NEW c \in Customers,
             (\E q \in Questions : ReceiveText(r, c, q)) \/ ReceivePhoto(r, c)
      PROVE  SeenInv'
  <2>1. PICK rec \in RequestRecords :
          /\ Starts(r, rec) /\ rec.c = c /\ rec.ctx = ctx[c] /\ rec.new = ctx[c]
          /\ rec.q = None \/ rec.aim = Meant(c, rec.q)
    BY <1>1, MessageStarts
  <2>2. /\ blurred' = IF Sending(c) THEN blurred \cup {c} ELSE blurred
        /\ UNCHANGED <<ctx, seen>>
    BY <1>1, MessageStarts
  <2> QED
    BY <1>a, <2>1, <2>2
<1>2. ASSUME NEW l \in Logs, NEW p \in Posts, ReceiveTap(r, l, p) PROVE SeenInv'
  <2>1. PICK c \in Customers : c = logs[l].c
    BY <1>2, TapStarts
  <2>2. PICK rec \in RequestRecords :
          Starts(r, rec) /\ rec.c = c /\ rec.ctx = ctx[c] /\ rec.new = About(ctx[c], p)
            /\ rec.q = None
    BY <1>2, <2>1, TapStarts
  <2>3. /\ blurred' = IF Sending(c) THEN blurred \cup {c} ELSE blurred
        /\ UNCHANGED <<ctx, seen>>
    BY <1>2, <2>1, TapStarts
  <2>4. rec.new.shown = ctx[c].shown
    BY <2>2, ContextWith DEF Typed, TalkOK
  <2> QED
    BY <1>a, <2>2, <2>3, <2>4
<1>3. ASSUME NEW c \in Customers, NEW p \in Posts,
             Link(r, c, p) \/ \E v \in Versions : Forward(r, c, p, v)
      PROVE  SeenInv'
  <2>1. PICK rec \in RequestRecords :
          Starts(r, rec) /\ rec.c = c /\ rec.ctx = ctx[c] /\ rec.new = About(ctx[c], p)
            /\ rec.q = None
    BY <1>3, PointerStarts
  <2>2. /\ blurred' = IF Sending(c) THEN blurred \cup {c} ELSE blurred
        /\ UNCHANGED <<ctx, seen>>
    BY <1>3, PointerStarts
  <2>3. rec.new.shown = ctx[c].shown
    BY <2>1, ContextWith DEF Typed, TalkOK
  <2> QED
    BY <1>a, <2>1, <2>2, <2>3
<1> QED
  BY <1>1, <1>2, <1>3 DEF CustomerStarts

\* An answer keeps the carousel; a carousel becomes the customer's last.
LEMMA SeenAtAnswer ==
  ASSUME Typed, SeenInv, NEW r \in Requests, AnswersIt(r)
  PROVE  SeenInv'
<1>0. PICK x \in RequestRecords :
        x = req[r] /\ x.c \in Customers /\ x.log = None /\ x.new \in Contexts
  <2>1. req[r].step \in {"text", "generate", "photo"}
    BY LookupMoves, GenerateMoves, NothingMoves, CarouselMoves DEF AnswersIt
  <2> QED
    BY <2>1, ReqTyped, RecordOf DEF Proper
<1>1. x.c \notin blurred => Keeps(x, seen[x.c])
  BY <1>0 DEF SeenInv, Clear
<1>a. ASSUME NEW rec \in RequestRecords, Moved(r, rec), SameMessage(rec, x),
             rec.new.shown = x.ctx.shown, rec.log = None,
             Keeps(x, seen[x.c]) => (rec.said.how = "ordinal" => rec.said.apt),
             UNCHANGED <<ctx, seen, blurred>>
      PROVE  SeenInv'
  <2>1. rec.c = x.c /\ rec.q = x.q /\ rec.ctx = x.ctx /\ rec.aim = x.aim
    BY <1>a DEF SameMessage, SameUpdate
  <2>2. x.c \notin blurred => Keeps(rec, seen[x.c])
    BY <1>1, <1>a, <2>1 DEF Keeps
  <2>3. Moved(r, rec) /\ UNCHANGED <<ctx, seen>> /\ blurred' = blurred
    BY <1>a
  <2>4. \A c \in Customers :
          (rec.c = c /\ rec.log # None) <=> (req[r].c = c /\ req[r].log # None)
    BY <1>0, <1>a
  <2> QED
    BY <2>1, <2>2, <2>3, <2>4, SeenMoved
<1>2. CASE OrdinalReply(r) \/ CacheHit(r)
  <2>1. PICK rec \in RequestRecords :
          /\ Moved(r, rec) /\ SameMessage(rec, x) /\ rec.new = x.ctx /\ rec.log = x.log
          /\ \/ /\ ByOrdinal(x) /\ (rec.said.apt <=> x.ctx.shown[x.q] = x.aim)
             \/ rec.said.how = "cache"
    BY <1>0, <1>2, LookupMoves
  <2>2. Keeps(x, seen[x.c]) => (rec.said.how = "ordinal" => rec.said.apt)
    BY <2>1 DEF Keeps, ByOrdinal
  <2>3. UNCHANGED <<ctx, seen, blurred>>
    BY <1>2, LookupMoves
  <2> QED
    BY <1>0, <1>a, <2>1, <2>2, <2>3
<1>3. ASSUME NEW ref \in Posts \cup {None}, Generate(r, ref) \/ GenerateNothing(r, ref)
      PROVE  SeenInv'
  <2>1. /\ \E rec \in RequestRecords :
             /\ Moved(r, rec) /\ SameMessage(rec, req[r])
             /\ rec.new = Noting(req[r].ctx, ref) /\ rec.log = req[r].log
             /\ rec.said.how = "llm" \/ rec.said = req[r].said
        /\ Names(req[r], ref) /\ req[r].c \in Customers
        /\ UNCHANGED <<ctx, seen, blurred>>
    BY <1>3, GenerateMoves, NothingMoves
  <2>2. PICK rec \in RequestRecords :
          /\ Moved(r, rec) /\ SameMessage(rec, x)
          /\ rec.new = Noting(x.ctx, ref) /\ rec.log = None
          /\ rec.said.how = "llm" \/ rec.said = x.said
    BY <1>0, <2>1
  <2>3. rec.new.shown = x.ctx.shown
    BY <1>0, <2>1, <2>2, NotingMoves
  <2>4. Keeps(x, seen[x.c]) => (rec.said.how = "ordinal" => rec.said.apt)
    BY <2>2 DEF Keeps
  <2> QED
    BY <1>a, <2>1, <2>2, <2>3, <2>4
<1>4. ASSUME NEW l \in Logs, NEW s \in Carousels, SendCarousel(r, l, s) PROVE SeenInv'
  <2>1. PICK rec \in RequestRecords :
          /\ Moved(r, rec) /\ SameMessage(rec, x) /\ rec.new = Seeing(x.new, s)
          /\ rec.said = x.said /\ rec.log = l
    BY <1>0, <1>4, CarouselMoves
  <2>2. /\ seen' = [seen EXCEPT ![x.c] = s]
        /\ blurred' = IF Sending(x.c) THEN blurred \cup {x.c} ELSE blurred
        /\ UNCHANGED ctx
    BY <1>0, <1>4, CarouselMoves
  <2>3. /\ rec.c = x.c /\ rec.q = x.q /\ rec.ctx = x.ctx /\ rec.aim = x.aim
        /\ rec.log # None /\ rec.new.shown = s
    BY <1>0, <2>1, ContextWith, AnsweringAssumption DEF SameMessage, SameUpdate
  <2>4. \A q \in Requests : req'[q] = IF q = r THEN rec ELSE req[q]
    BY <2>1, ReqTyped DEF Moved
  <2>5. seen'[x.c] = s /\ \A c \in Customers \ {x.c} : seen'[c] = seen[c]
    BY <1>0, <2>2 DEF Typed, TalkOK
  <2>6. ASSUME NEW c \in Customers \ blurred', c # x.c PROVE Clear(c)'
    <3>1. Clear(c) /\ ctx'[c].shown = ctx[c].shown /\ seen'[c] = seen[c]
      BY <2>2, <2>5, <2>6 DEF SeenInv
    <3>2. rec.c # c /\ req[r].c # c
      BY <1>0, <2>3, <2>6
    <3> QED
      BY <2>1, <3>1, <3>2, ClearMoved
  <2>7. ASSUME x.c \notin blurred' PROVE Clear(x.c)'
    <3>1. x.c \notin blurred /\ ~Sending(x.c)
      BY <2>2, <2>7
    <3>2. \A q \in Requests : req[q].c = x.c => req[q].log = None /\ Keeps(req[q], seen[x.c])
      BY <1>0, <3>1 DEF SeenInv, Clear, Sending
    <3>3. Carrying(x.c)' = {r}
      <4>1. \A q \in Requests : req'[q].c = x.c /\ req'[q].log # None <=> q = r
        BY <2>3, <2>4, <3>2
      <4> QED
        BY <4>1 DEF Carrying
    <3>4. Keeps(rec, s)
      BY <1>0, <2>1, <2>3, <3>2 DEF Keeps
    <3>5. \A q \in Requests : req'[q].c = x.c => Keeps(req'[q], s)
      BY <2>4, <3>2, <3>4 DEF Keeps
    <3>6. \A q \in Requests : req'[q].c = x.c => Keeps(req[q], seen[x.c])'
      BY <2>5, <3>5 DEF Keeps
    <3> QED
      BY <3>3, <3>6 DEF Clear
  <2> QED
    BY <2>6, <2>7 DEF SeenInv
<1> QED
  BY <1>2, <1>3, <1>4 DEF AnswersIt

\* A request stores its carousel, or takes it down with it.
LEMMA SeenAtEnd ==
  ASSUME Typed, SeenInv, NEW r \in Requests, Ends(r)
  PROVE  SeenInv'
<1>0. PICK x \in RequestRecords :
        /\ x = req[r] /\ Proper(x)
        /\ x.ctx \in Contexts /\ x.new \in Contexts /\ x.c \in Customers \cup {None}
  BY ReqTyped, RecordOf
<1>1. /\ Moved(r, Idle) /\ Idle \in RequestRecords /\ Idle.c \notin Customers /\ Idle.log = None
      /\ \A q \in Requests : req'[q] = IF q = r THEN Idle ELSE req[q]
  BY EndMoves, IdleRecord, ReqTyped, CatalogAssumption DEF Moved, Idle
<1>2. ASSUME NEW c \in Customers, c \notin blurred, ctx'[c].shown = ctx[c].shown,
             seen'[c] = seen[c], x.c = c => x.log = None
      PROVE  Clear(c)'
  <2>1. Clear(c)
    BY <1>2 DEF SeenInv
  <2> QED
    BY <1>0, <1>1, <1>2, <2>1, ClearMoved
<1>3. ASSUME x.c \in Customers, StoreContext(x), UNCHANGED seen PROVE SeenInv'
  <2>1. /\ ctx' = [ctx EXCEPT ![x.c] = ctx'[x.c]]
        /\ ctx'[x.c] = IF x.new # x.ctx \/ x.log # None THEN x.new ELSE ctx[x.c]
    BY <1>0, <1>3, StoredContext
  <2>2. blurred \subseteq blurred' /\
        (x.c \notin blurred' => (x.new # x.ctx \/ x.log # None => ctx[x.c] = x.ctx))
    BY <1>3 DEF StoreContext, Blur
  <2>3. ctx \in [Customers -> Contexts]
    BY DEF Typed, TalkOK
  <2>4. ASSUME NEW c \in Customers \ blurred', c # x.c PROVE Clear(c)'
    <3>1. ctx'[c] = ctx[c]
      BY <2>1, <2>3, <2>4
    <3> QED
      BY <1>2, <1>3, <2>2, <2>4, <3>1
  <2>5. ASSUME x.c \notin blurred' PROVE Clear(x.c)'
    <3>1. Clear(x.c) /\ Keeps(x, seen[x.c])
      BY <1>0, <1>3, <2>2, <2>5 DEF SeenInv, Clear
    <3>2. CASE x.log = None
      <4>1. ctx'[x.c].shown = ctx[x.c].shown
        BY <2>1, <2>2, <2>5, <3>1, <3>2 DEF Keeps
      <4> QED
        BY <1>2, <1>3, <2>2, <2>5, <3>2, <4>1
    <3>3. CASE x.log # None
      <4>1. ctx'[x.c].shown = seen[x.c]
        BY <2>1, <3>1, <3>3 DEF Keeps
      <4>2. r \in Carrying(x.c)
        BY <1>0, <3>3 DEF Carrying
      <4>3. Carrying(x.c) = {r}
        BY <3>1, <4>2 DEF Clear
      <4>4. Carrying(x.c)' = {}
        <5>1. \A q \in Requests : ~(req'[q].c = x.c /\ req'[q].log # None)
          BY <1>1, <4>3 DEF Carrying
        <5> QED
          BY <5>1 DEF Carrying
      <4>5. \A q \in Requests : req'[q].c = x.c => Keeps(req'[q], seen[x.c])
        BY <1>1, <1>3, <3>1 DEF Clear
      <4>6. \A q \in Requests : req'[q].c = x.c => Keeps(req[q], seen[x.c])'
        BY <1>3, <4>5 DEF Keeps
      <4> QED
        BY <1>3, <4>1, <4>4, <4>6 DEF Clear
    <3> QED
      BY <3>2, <3>3
  <2> QED
    BY <2>4, <2>5 DEF SeenInv
<1>4. CASE Commit(r)
  <2>1. x.c \in Customers /\ StoreContext(x) /\ UNCHANGED seen
    BY <1>0, <1>4 DEF Commit, Proper
  <2> QED
    BY <1>3, <2>1
<1>5. CASE CommitCatalog(r)
  <2>1. CASE x.c = None
    <3>1. UNCHANGED <<ctx, seen, blurred>>
      BY <1>0, <1>5, <2>1 DEF CommitCatalog, answerVars
    <3> QED
      BY <1>2, <2>1, <3>1, CatalogAssumption DEF SeenInv
  <2>2. CASE x.c # None
    <3>1. x.c \in Customers /\ StoreContext(x) /\ UNCHANGED seen
      BY <1>0, <1>5, <2>2 DEF CommitCatalog
    <3> QED
      BY <1>3, <3>1
  <2> QED
    BY <2>1, <2>2
<1>6. CASE Fail(r)
  <2>1. /\ UNCHANGED <<ctx, seen>>
        /\ blurred' = IF x.log # None THEN blurred \cup {x.c} ELSE blurred
    BY <1>0, <1>6 DEF Fail, Blur
  <2> QED
    BY <1>2, <2>1 DEF SeenInv
<1> QED
  BY <1>4, <1>5, <1>6 DEF Ends

\* No step takes the stored carousel away from the one the customer has seen.
LEMMA SeenStep ==
  ASSUME Typed, SeenInv, [Next]_vars
  PROVE  SeenInv'
<1>0. None \notin Customers
  BY CatalogAssumption
<1>a. ASSUME UNCHANGED <<ctx, seen, blurred>>,
             \A q \in Requests : /\ SameUpdate(req'[q], req[q]) /\ req'[q].new = req[q].new
                                 /\ req'[q].said = req[q].said /\ req'[q].log = req[q].log
      PROVE  SeenInv'
  <2>1. ASSUME NEW c \in Customers \ blurred PROVE Clear(c)'
    <3>1. Clear(c)
      BY DEF SeenInv
    <3>2. Carrying(c)' = Carrying(c)
      BY <1>a DEF Carrying, SameUpdate
    <3>3. \A q \in Requests : req'[q].c = c => Keeps(req'[q], seen[c])
      BY <1>a, <3>1 DEF Clear, Keeps, SameUpdate
    <3>4. \A q \in Requests : req'[q].c = c => Keeps(req[q], seen[c])'
      BY <1>a, <3>3 DEF Keeps
    <3> QED
      BY <1>a, <3>1, <3>2, <3>4 DEF Clear
  <2> QED
    BY <1>a, <2>1 DEF SeenInv
<1>b. ASSUME NEW r \in Requests, NEW rec \in RequestRecords,
             Moved(r, rec), SameUpdate(rec, req[r]), rec.new = req[r].new,
             rec.said = req[r].said, rec.log = req[r].log, UNCHANGED <<ctx, seen, blurred>>
      PROVE  SeenInv'
  <2>1. \A q \in Requests : req'[q] = IF q = r THEN rec ELSE req[q]
    BY <1>b, ReqTyped DEF Moved
  <2>2. \A q \in Requests : /\ SameUpdate(req'[q], req[q]) /\ req'[q].new = req[q].new
                            /\ req'[q].said = req[q].said /\ req'[q].log = req[q].log
    BY <1>b, <2>1 DEF SameUpdate
  <2> QED
    BY <1>a, <1>b, <2>2
<1>1. CASE UNCHANGED vars
  BY <1>1, <1>a DEF vars, answerVars, SameUpdate
<1>2. CASE UpdateStep /\ UNCHANGED answerVars
  <2>0. UNCHANGED <<ctx, seen, blurred>>
    BY <1>2 DEF answerVars
  <2>1. CASE UNCHANGED req
    BY <1>a, <2>0, <2>1 DEF SameUpdate
  <2>2. ASSUME NEW r \in Requests, NEW rec \in RequestRecords,
               Starts(r, rec), rec.c = None
        PROVE  SeenInv'
    <3>1. Moved(r, rec) /\ req[r].c = None
      BY <2>2 DEF Starts, Idle
    <3> QED
      BY <1>0, <2>0, <2>2, <3>1, SeenMoved
  <2>3. ASSUME NEW r \in Requests, NEW rec \in RequestRecords,
               Moved(r, rec), SameUpdate(rec, req[r]), rec.new = req[r].new,
               rec.said = req[r].said, rec.log = req[r].log
        PROVE  SeenInv'
    BY <1>b, <2>0, <2>3
  <2> QED
    BY <1>2, <2>1, <2>2, <2>3, UpdateMoves
<1>3. CASE Tick
  <2>1. UNCHANGED <<ctx, seen, blurred>>
    BY <1>3 DEF Tick
  <2> QED
    BY <1>3, <1>a, <2>1, TickRecord DEF SameMessage
<1>4. ASSUME NEW r \in Requests, CustomerStarts(r) PROVE SeenInv'
  BY <1>4, SeenAtStart
<1>5. ASSUME NEW r \in Requests, Passing(r) PROVE SeenInv'
  <2>1. PICK rec \in RequestRecords :
          /\ Moved(r, rec) /\ SameMessage(rec, req[r])
          /\ rec.new = req[r].new /\ rec.said = req[r].said /\ rec.log = req[r].log
    BY <1>5, PassingMoves
  <2>2. UNCHANGED <<ctx, seen, blurred>>
    BY <1>5, PassingMoves
  <2> QED
    BY <1>b, <2>1, <2>2 DEF SameMessage
<1>6. ASSUME NEW r \in Requests, AnswersIt(r) PROVE SeenInv'
  BY <1>6, SeenAtAnswer
<1>7. ASSUME NEW r \in Requests, Ends(r) PROVE SeenInv'
  BY <1>7, SeenAtEnd
<1> QED
  BY <1>1, <1>2, <1>3, <1>4, <1>5, <1>6, <1>7, StepCases

\* "The second one" is answered about the second product of the carousel the customer
\* had seen when asking: unless a carousel was overtaken or lost, the stored one is the
\* customer's last, or one request is about to store it, and every request keeps the one
\* it loaded (ordinal.resolve, handle_photo_message, _handle_confirm, _log).
THEOREM OrdinalsMeetCarousels == Spec => []OrdinalMeetsCarousel
<1>1. Init => SeenInv
  <2> SUFFICES ASSUME Init PROVE SeenInv
    OBVIOUS
  <2>1. ASSUME NEW c \in Customers PROVE Clear(c)
    <3>1. \A r \in Requests : req[r].c # c /\ req[r].log = None
      BY CatalogAssumption DEF Init, CatalogInit, Idle
    <3>2. ctx[c].shown = seen[c]
      BY DEF Init, NoContext
    <3> QED
      BY <3>1, <3>2 DEF Clear, Carrying
  <2> QED
    BY <2>1 DEF SeenInv
<1>2. Typed /\ SeenInv /\ [Next]_vars => SeenInv'
  BY SeenStep
<1>3. SeenInv => OrdinalMeetsCarousel
  BY DEF OrdinalMeetsCarousel, SeenInv, Clear, Keeps
<1> QED
  BY <1>1, <1>2, <1>3, TypedAlways, PTL DEF Spec
=============================================================================
