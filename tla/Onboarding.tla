------------------------------ MODULE Onboarding ------------------------------
(***************************************************************************)
(* Self-serve onboarding (app/onboarding/service.py) behind the platform   *)
(* bot's webhook (app/onboarding/router.py): a Telegram user connects a    *)
(* bot, either to the shop a website account already has (a deep link) or  *)
(* to a new one, answers the steps, and may later re-enter single steps    *)
(* through /sozlamalar.                                                    *)
(*                                                                         *)
(* A webhook request runs in its own thread with its own session: it loads *)
(* the onboarding session and the merchant (Receive; for a pasted token    *)
(* the merchant only after getMe, CheckBot; a /start reads the admin, the  *)
(* link and the session one after the other), and at its one commit writes *)
(* the columns it changed.  In between, other requests commit.             *)
(* Languages, wording, shop names and tokens are left out.                 *)
(***************************************************************************)
EXTENDS Integers, Sequences, FiniteSets

CONSTANTS
  Users,       \* Telegram users of the platform bot
  Requests,    \* threads serving the webhook
  Links,       \* merchants created on the website, known by their webhook_slug
  Bots,        \* bots behind the tokens users paste, by getMe's id; also stands
               \* for the merchant created for such a bot
  Verticals,   \* _VERTICALS
  Other,       \* the vertical "other", whose topics are the default
  TopicsOf,    \* _TOPICS_BY_VERTICAL
  Methods,     \* _PAYMENT_METHODS
  Targets,     \* the settings of the /sozlamalar menu that are tapped
  Casts,       \* bound: who takes part in a behaviour, the links they hold, and
               \* whether they go on once their bot is connected
  MaxTaps,     \* bound: settings a user taps
  MaxLate,     \* bound: commits of a user's other requests while one is served
  None

Payment == "payment"
Merchants == Links \cup Bots
Topics == UNION {TopicsOf[v] : v \in Verticals}
Sources == {"channel", "photos", "course"}

\* _REENTRY_STATES
ReentryState ==
  [shop_name |-> "awaiting_shop_name", vertical |-> "choosing_vertical",
   source |-> "choosing_source", faq_topics |-> "choosing_faq_topics",
   hours |-> "awaiting_hours", tone |-> "choosing_tone"]

ASSUME OnboardingAssumption ==
  /\ Casts \subseteq [users : SUBSET Users, links : SUBSET Links, goOn : BOOLEAN]
  /\ None \notin Users \cup Merchants \cup Verticals \cup Topics
  /\ Links \cap Bots = {}
  /\ Other \in Verticals
  /\ Payment \in Topics
  /\ Targets \subseteq DOMAIN ReentryState
  /\ MaxTaps \in Nat /\ MaxLate \in Nat

\* What the handler dispatch accepts in each state of a session: _TEXT_HANDLERS
\* and the branches of handle_platform_callback; anything else is ignored.
Accepts ==
  [none |-> {}, start |-> {"lang"}, awaiting_token |-> {"token"},
   awaiting_shop_name |-> {"shop_name", "confirm"},
   choosing_vertical |-> {"vertical"}, choosing_source |-> {"source"},
   awaiting_course_description |-> {"description"},
   choosing_faq_topics |-> {"topic", "topics_done"},
   awaiting_topic_answer |-> {"answer"},
   choosing_payment_methods |-> {"method", "payment_done"},
   awaiting_hours |-> {"hours", "skip"}, choosing_tone |-> {"tone"}, done |-> {}]

States == DOMAIN Accepts
Keys == {"telegram_bot_username", "intake_source", "course_raw_description",
         "faq_topics", "hours", "tone"}

\* What comes with an update of each kind.
Choices(kind) ==
  CASE kind = "start" -> Links \cup {None}
    [] kind = "token" -> Bots
    [] kind = "vertical" -> Verticals
    [] kind = "source" -> Sources
    [] kind = "topic" -> Topics
    [] kind = "method" -> Methods
    [] kind = "settings" -> Targets
    [] OTHER -> {None}

VARIABLES
  cast,       \* the member of Casts that plays
  session,    \* platform_onboarding_sessions, per user
  merchants,  \* merchants: telegram_bot_id, vertical, the keys set in profile
  admins,     \* merchant_admins: per user, the merchant administered
  faqs,       \* rows of faqs per merchant and topic, counted up to two
  taps,       \* settings tapped, per user
  req,        \* per request: the update served and the rows it loaded
  chosen,     \* history: per user, the topics picked when the topic loop began
  past        \* history: per user, "jumped" when a setting was tapped before the
              \* session was done, "reentered" when the topics were, "stale" when a
              \* request committed over rows that changed since it loaded, and
              \* "rebound" when one left an admin's session with another merchant

vars == <<cast, session, merchants, admins, faqs, taps, req, chosen, past>>

NoData == [reentry |-> FALSE, selected |-> <<>>, pending |-> <<>>, current |-> None,
           collected |-> {}, methods |-> {}]
NoRow == [bot |-> None, vertical |-> None, profile |-> {}]
NoSession == [state |-> "none", merchant |-> None, data |-> NoData]
Idle == [kind |-> "idle", user |-> None, arg |-> None, sess |-> NoSession,
         merchant |-> None, row |-> NoRow, late |-> 0]

Init ==
  /\ cast \in Casts
  /\ session = [u \in Users |-> NoSession]
  /\ merchants = [m \in Merchants |-> NoRow]
  /\ admins = [u \in Users |-> None]
  /\ faqs = [m \in Merchants |-> [t \in Topics |-> 0]]
  /\ taps = [u \in Users |-> 0]
  /\ req = [r \in Requests |-> Idle]
  /\ chosen = [u \in Users |-> {}]
  /\ past = [u \in Users |-> {}]

Row(m) == IF m = None THEN NoRow ELSE merchants[m]

-----------------------------------------------------------------------------
(* The steps of a request: load, check the bot, commit.                     *)

Load(r, u, kind, arg, m) ==
  /\ req[r] = Idle
  /\ req' = [req EXCEPT ![r] = [kind |-> kind, user |-> u, arg |-> arg,
               sess |-> session[u], merchant |-> m, row |-> Row(m),
               late |-> 0]]
  /\ taps' = IF kind = "settings" THEN [taps EXCEPT ![u] = @ + 1] ELSE taps
  /\ UNCHANGED <<cast, session, merchants, admins, faqs, chosen, past>>

\* /start, with or without a merchant's deep link: an admin is refused.
ReceiveStart(r, u, link) ==
  /\ req[r] = Idle
  /\ admins[u] = None
  /\ req' = [req EXCEPT ![r] = [Idle EXCEPT !.kind = "greet", !.user = u, !.arg = link]]
  /\ UNCHANGED <<cast, session, merchants, admins, faqs, taps, chosen, past>>

\* The link of a merchant whose bot is connected is refused.
FindLink(r) ==
  LET link == req[r].arg IN
    /\ req[r].kind = "greet" /\ link # None
    /\ Row(link).bot = None
    /\ req' = [req EXCEPT ![r].kind = "found", ![r].merchant = link, ![r].row = Row(link)]
    /\ UNCHANGED <<cast, session, merchants, admins, faqs, taps, chosen, past>>

\* _get_or_create_session.
LoadStart(r) ==
  /\ req[r].kind = IF req[r].arg = None THEN "greet" ELSE "found"
  /\ req' = [req EXCEPT ![r].kind = "start", ![r].sess = session[req[r].user]]
  /\ UNCHANGED <<cast, session, merchants, admins, faqs, taps, chosen, past>>

\* A tap or a text the session's state accepts.
Receive(r, u, kind, arg) ==
  /\ kind \in Accepts[session[u].state]
  /\ cast.goOn \/ kind \in {"lang", "token"}
  /\ arg \in Choices(kind)
  /\ Load(r, u, kind, arg, session[u].merchant)

\* A tap on the menu that /sozlamalar sends to an admin; it stays in the chat.
ReceiveSetting(r, u, target) ==
  /\ admins[u] # None
  /\ cast.goOn
  /\ taps[u] < MaxTaps
  /\ session[u].merchant # None
  /\ Load(r, u, "settings", target, session[u].merchant)

\* The merchant may already have a bot.
MutantCheckBot(r) ==
  LET m == req[r].sess.merchant IN
    /\ req[r].kind = "token"
    /\ \A n \in Merchants : merchants[n].bot # req[r].arg
    /\ req' = [req EXCEPT ![r].kind = "attach",
                          ![r].merchant = IF m = None THEN req[r].arg ELSE m,
                          ![r].row = Row(m)]
    /\ UNCHANGED <<cast, session, merchants, admins, faqs, taps, chosen, past>>

\* After getMe: the bot backs no merchant yet, and the merchant has no bot.
CheckBot(r) ==
  LET m == req[r].sess.merchant IN
    /\ req[r].kind = "token"
    /\ \A n \in Merchants : merchants[n].bot # req[r].arg
    /\ Row(m).bot = None
    /\ req' = [req EXCEPT ![r].kind = "attach",
                          ![r].merchant = IF m = None THEN req[r].arg ELSE m,
                          ![r].row = Row(m)]
    /\ UNCHANGED <<cast, session, merchants, admins, faqs, taps, chosen, past>>

\* The request returns early, raises, or is lost with its process: nothing is
\* written.  (Telegram delivers an update again when the webhook failed.)
EndWithoutEffect(r) ==
  /\ req[r] # Idle
  /\ req' = [req EXCEPT ![r] = Idle]
  /\ UNCHANGED <<cast, session, merchants, admins, faqs, taps, chosen, past>>

Serving(r, kind) == req[r].kind = kind

\* An UPDATE writes the columns whose value differs from the one loaded.
Merge(db, old, new) == [c \in DOMAIN db |-> IF new[c] = old[c] THEN db[c] ELSE new[c]]
Stale(r) ==
  \/ session[req[r].user] # req[r].sess
  \/ req[r].merchant # None /\ merchants[req[r].merchant] # req[r].row

\* Requests of the same user in progress.
Others(r) == {q \in Requests \ {r} : req[q].user = req[r].user}

\* The commit: session s, merchant row, and one Faq row for each of topics.
Save(r, s, row, topics, marks) ==
  LET u == req[r].user
      m == req[r].merchant
  IN /\ UNCHANGED cast
     /\ session' = [session EXCEPT ![u] = Merge(@, req[r].sess, s)]
     /\ IF m = None THEN UNCHANGED <<merchants, faqs>>
        ELSE /\ merchants' = [merchants EXCEPT ![m] = Merge(@, req[r].row, row)]
             /\ faqs' = [faqs EXCEPT ![m] =
                  [t \in Topics |-> IF t \in topics /\ @[t] < 2 THEN @[t] + 1 ELSE @[t]]]
     /\ past' = [past EXCEPT ![u] =
          @ \cup marks \cup (IF Stale(r) THEN {"stale"} ELSE {})
            \cup (IF admins'[u] \in {None, session'[u].merchant} THEN {} ELSE {"rebound"})]
     /\ \A q \in Others(r) : req[q].late < MaxLate
     /\ req' = [q \in Requests |-> IF q = r THEN Idle
                                  ELSE IF q \in Others(r) THEN [req[q] EXCEPT !.late = @ + 1]
                                  ELSE req[q]]

\* A step that is not the last clears the re-entry flag and ends in "done".
MutantAdvance(s, next) ==
  [s EXCEPT !.state = IF s.data.reentry \/ next = "choosing_tone" THEN "done" ELSE next,
            !.data = NoData]

\* _advance_from: a re-entered step goes back to done, any other to the next.
Advance(s, next) ==
  [s EXCEPT !.state = IF s.data.reentry THEN "done" ELSE next, !.data = NoData]

\* What is left of a step that only moves the session and sets a profile key.
SaveStep(r, s, row) ==
  UNCHANGED <<admins, taps, chosen>> /\ Save(r, s, row, {}, {})

WithKey(row, key) == [row EXCEPT !.profile = @ \cup {key}]

-----------------------------------------------------------------------------
(* Start, language, token, shop name.                                       *)

\* handle_start: the session starts over, bound to the link's merchant or none.
\* Two first /starts insert the same primary key: the later one fails.
Start(r) ==
  /\ Serving(r, "start")
  /\ req[r].sess.state = "none" => session[req[r].user].state = "none"
  /\ SaveStep(r, [state |-> "start", merchant |-> req[r].arg, data |-> NoData],
              req[r].row)

\* The next state is spelled wrong.
MutantLanguagePick(r) ==
  /\ Serving(r, "lang")
  /\ SaveStep(r, [req[r].sess EXCEPT !.state = "awaiting_bot_token"], req[r].row)

LanguagePick(r) ==
  /\ Serving(r, "lang")
  /\ SaveStep(r, [req[r].sess EXCEPT !.state = "awaiting_token"], req[r].row)

\* The session is not bound to the merchant just created.
MutantAttachBot(r) ==
  LET u == req[r].user
      bot == req[r].arg
  IN /\ Serving(r, "attach")
     /\ \A n \in Merchants : merchants[n].bot # bot
     /\ admins[u] = None
     /\ admins' = [admins EXCEPT ![u] = req[r].merchant]
     /\ Save(r, [req[r].sess EXCEPT !.state = "awaiting_shop_name"],
             [WithKey(req[r].row, "telegram_bot_username") EXCEPT !.bot = bot],
             {}, {})
     /\ UNCHANGED <<taps, chosen>>

\* _handle_token_text: the bot goes to the link's merchant or to a new row, and
\* the user becomes its admin.  telegram_bot_id and telegram_user_id are unique.
AttachBot(r) ==
  LET u == req[r].user
      bot == req[r].arg
  IN /\ Serving(r, "attach")
     /\ \A n \in Merchants : merchants[n].bot # bot
     /\ admins[u] = None
     /\ admins' = [admins EXCEPT ![u] = req[r].merchant]
     /\ Save(r, [req[r].sess EXCEPT !.state = "awaiting_shop_name",
                                    !.merchant = req[r].merchant],
             [WithKey(req[r].row, "telegram_bot_username") EXCEPT !.bot = bot],
             {}, {})
     /\ UNCHANGED <<taps, chosen>>

ShopNameText(r) ==
  /\ Serving(r, "shop_name")
  /\ req[r].merchant # None
  /\ SaveStep(r, Advance(req[r].sess, "choosing_vertical"), req[r].row)

ShopNameConfirm(r) ==
  /\ Serving(r, "confirm")
  /\ SaveStep(r, Advance(req[r].sess, "choosing_vertical"), req[r].row)

-----------------------------------------------------------------------------
(* Vertical and source.                                                     *)

VerticalPick(r) ==
  /\ Serving(r, "vertical")
  /\ req[r].merchant # None
  /\ SaveStep(r, Advance(req[r].sess, "choosing_source"),
              [req[r].row EXCEPT !.vertical = req[r].arg])

\* "course" waits for its description before the step is done.
SourcePick(r) ==
  /\ Serving(r, "source")
  /\ req[r].merchant # None
  /\ SaveStep(r,
       IF req[r].arg = "course"
       THEN [req[r].sess EXCEPT !.state = "awaiting_course_description"]
       ELSE Advance(req[r].sess, "choosing_faq_topics"),
       WithKey(req[r].row, "intake_source"))

CourseDescription(r) ==
  /\ Serving(r, "description")
  /\ req[r].merchant # None
  /\ SaveStep(r, Advance(req[r].sess, "choosing_faq_topics"),
              WithKey(req[r].row, "course_raw_description"))

-----------------------------------------------------------------------------
(* The topics and the loop over them.                                       *)

TopicsFor(vertical) == TopicsOf[IF vertical = None THEN Other ELSE vertical]

\* list.remove: without the entry found, the rest in its order.
Without(seq, i) == SubSeq(seq, 1, i - 1) \o SubSeq(seq, i + 1, Len(seq))
Places(seq, e) == {i \in 1..Len(seq) : seq[i] = e}
Toggle(seq, e) ==
  IF Places(seq, e) = {} THEN Append(seq, e)
  ELSE Without(seq, CHOOSE i \in Places(seq, e) : \A j \in Places(seq, e) : i <= j)

TopicToggle(r) ==
  /\ Serving(r, "topic")
  /\ req[r].arg \in TopicsFor(req[r].row.vertical)
  /\ SaveStep(r, [req[r].sess EXCEPT !.data.selected = Toggle(@, req[r].arg)],
              req[r].row)

\* The rows are written on the way, with every answer.
MutantAdvanceLoop(r, s, picked) ==
  LET data == s.data IN
    /\ chosen' = [chosen EXCEPT ![req[r].user] = picked]
    /\ UNCHANGED <<admins, taps>>
    /\ IF data.pending = <<>>
       THEN IF req[r].merchant = None
            THEN Save(r, s, req[r].row, {}, {})
            ELSE Save(r, Advance(s, "awaiting_hours"),
                      WithKey(req[r].row, "faq_topics"), data.collected, {})
       ELSE LET topic == Head(data.pending) IN
            Save(r, [s EXCEPT
                   !.state = IF topic = Payment THEN "choosing_payment_methods"
                             ELSE "awaiting_topic_answer",
                   !.data.pending = Tail(@), !.data.current = topic,
                   !.data.methods = {}],
                 req[r].row, data.collected, {})

\* _advance_topic_loop and _finalize_faq_topics: ask for the next topic; after
\* the last one every collected answer becomes a Faq row and the step is done.
AdvanceLoop(r, s, picked) ==
  LET data == s.data IN
    /\ chosen' = [chosen EXCEPT ![req[r].user] = picked]
    /\ UNCHANGED <<admins, taps>>
    /\ IF data.pending = <<>>
       THEN IF req[r].merchant = None
            THEN Save(r, s, req[r].row, {}, {})
            ELSE Save(r, Advance(s, "awaiting_hours"),
                      WithKey(req[r].row, "faq_topics"), data.collected, {})
       ELSE LET topic == Head(data.pending) IN
            Save(r, [s EXCEPT
                   !.state = IF topic = Payment THEN "choosing_payment_methods"
                             ELSE "awaiting_topic_answer",
                   !.data.pending = Tail(@), !.data.current = topic,
                   !.data.methods = {}],
                 req[r].row, {}, {})

TopicsDone(r) ==
  LET data == req[r].sess.data IN
    /\ Serving(r, "topics_done")
    /\ AdvanceLoop(r,
         [req[r].sess EXCEPT !.data = [NoData EXCEPT !.reentry = data.reentry,
                                                     !.pending = data.selected]],
         {data.selected[i] : i \in DOMAIN data.selected})

\* The answer of the topic before is replaced instead of joined.
MutantTopicAnswer(r) ==
  LET s == req[r].sess IN
    /\ Serving(r, "answer")
    /\ s.data.current # None
    /\ AdvanceLoop(r, [s EXCEPT !.data.collected = {s.data.current}],
                   chosen[req[r].user])

TopicAnswer(r) ==
  LET s == req[r].sess IN
    /\ Serving(r, "answer")
    /\ s.data.current # None
    /\ AdvanceLoop(r, [s EXCEPT !.data.collected = @ \cup {s.data.current}],
                   chosen[req[r].user])

PaymentToggle(r) ==
  LET m == req[r].arg IN
    /\ Serving(r, "method")
    /\ SaveStep(r,
         [req[r].sess EXCEPT !.data.methods = IF m \in @ THEN @ \ {m} ELSE @ \cup {m}],
         req[r].row)

PaymentDone(r) ==
  /\ Serving(r, "payment_done")
  /\ AdvanceLoop(r, [req[r].sess EXCEPT !.data.collected = @ \cup {Payment},
                                        !.data.current = None, !.data.methods = {}],
                 chosen[req[r].user])

-----------------------------------------------------------------------------
(* Hours, tone, and the settings menu.                                      *)

HoursText(r) ==
  /\ Serving(r, "hours")
  /\ req[r].merchant # None
  /\ SaveStep(r, Advance(req[r].sess, "choosing_tone"), WithKey(req[r].row, "hours"))

HoursSkip(r) ==
  /\ Serving(r, "skip")
  /\ req[r].merchant # None
  /\ SaveStep(r, Advance(req[r].sess, "choosing_tone"), req[r].row)

\* The last step: done, whether or not the step was re-entered.
TonePick(r) ==
  /\ Serving(r, "tone")
  /\ req[r].merchant # None
  /\ SaveStep(r, [req[r].sess EXCEPT !.state = "done", !.data = NoData],
              WithKey(req[r].row, "tone"))

\* A setting is re-entered from whatever state the session is in.
SettingPick(r) ==
  LET target == req[r].arg IN
    /\ Serving(r, "settings")
    /\ UNCHANGED <<admins, taps, chosen>>
    /\ Save(r, [req[r].sess EXCEPT !.state = ReentryState[target],
                                   !.data = [NoData EXCEPT !.reentry = TRUE]],
            req[r].row, {},
            (IF req[r].sess.state = "done" THEN {} ELSE {"jumped"}) \cup
            (IF target = "faq_topics" THEN {"reentered"} ELSE {}))

-----------------------------------------------------------------------------
Serve(r) ==
  \/ CheckBot(r) \/ FindLink(r) \/ LoadStart(r) \/ EndWithoutEffect(r)
  \/ Start(r) \/ LanguagePick(r) \/ AttachBot(r)
  \/ ShopNameText(r) \/ ShopNameConfirm(r)
  \/ VerticalPick(r) \/ SourcePick(r) \/ CourseDescription(r)
  \/ TopicToggle(r) \/ TopicsDone(r) \/ TopicAnswer(r)
  \/ PaymentToggle(r) \/ PaymentDone(r)
  \/ HoursText(r) \/ HoursSkip(r) \/ TonePick(r) \/ SettingPick(r)

Next ==
  \E r \in Requests :
    \/ Serve(r)
    \/ \E u \in cast.users :
         \/ \E link \in cast.links \cup {None} : ReceiveStart(r, u, link)
         \/ \E kind \in Accepts[session[u].state] :
              \E arg \in Choices(kind) : Receive(r, u, kind, arg)
         \/ \E target \in Targets : ReceiveSetting(r, u, target)

Spec == Init /\ [][Next]_vars

-----------------------------------------------------------------------------
(* Properties.                                                              *)

Data == [reentry : BOOLEAN, selected : Seq(Topics), pending : Seq(Topics),
         current : Topics \cup {None}, collected : SUBSET Topics,
         methods : SUBSET Methods]
Sessions == [state : States, merchant : Merchants \cup {None}, data : Data]
Rows == [bot : Bots \cup {None}, vertical : Verticals \cup {None}, profile : SUBSET Keys]

\* Every variable keeps its type.
TypeOK ==
  /\ cast \in Casts
  /\ session \in [Users -> Sessions]
  /\ merchants \in [Merchants -> Rows]
  /\ admins \in [Users -> Merchants \cup {None}]
  /\ faqs \in [Merchants -> [Topics -> 0..2]]
  /\ taps \in [Users -> 0..MaxTaps]
  /\ \A r \in Requests :
       /\ req[r].user \in Users \cup {None}
       /\ req[r].sess \in Sessions /\ req[r].row \in Rows
       /\ req[r].merchant \in Merchants \cup {None}
       /\ req[r].late \in 0..MaxLate
  /\ chosen \in [Users -> SUBSET Topics]
  /\ past \in [Users -> SUBSET {"jumped", "reentered", "stale", "rebound"}]

Smooth(u) == "jumped" \notin past[u] /\ "stale" \notin past[u]

\* No other user's requests write the merchant that u administers.
Alone(u) ==
  \A v \in Users \ {u} : admins[v] # admins[u] /\ "rebound" \notin past[v]

\* A user whose session says "done" has given the shop its vertical and its
\* source, however that user's updates overlapped, and its topics and its tone
\* unless an overlapping update wrote an older profile back.  (Not so when a
\* setting was tapped before the end: that step ends in "done", those in between
\* are skipped.  Nor when the session or another user's was led to another's
\* merchant, or two users connected one: each writes the whole profile.)
DoneIsComplete ==
  \A u \in Users :
    session[u].state = "done" /\ past[u] \cap {"jumped", "rebound"} = {} /\ Alone(u) =>
      /\ admins[u] # None
      /\ merchants[admins[u]].vertical # None
      /\ "intake_source" \in merchants[admins[u]].profile
      /\ Smooth(u) => {"faq_topics", "tone"} \subseteq merchants[admins[u]].profile

\* A user's session is at the merchant that user administers, past the token step.
Bound(u) ==
  /\ session[u].merchant = admins[u]
  /\ session[u].state \notin {"none", "start", "awaiting_token"}

\* A /start or a language begun before the token step that made the user an admin
\* commits after it, or the token step commits over a session led to another merchant
\* since it was loaded.
Crosses(r) ==
  LET u == req[r].user IN
    \/ req[r].kind \in {"start", "lang"} /\ admins[u] # None
    \/ req[r].kind = "attach" /\ session[u].merchant # req[r].sess.merchant

\* An admin's session is bound to the admin's merchant and stays so: otherwise /start
\* refuses the user and /sozlamalar does nothing.  No step loosens it, whatever overlaps
\* and whatever is written back stale, but a request that crosses the token step itself
\* (handle_start, _handle_language_pick, _handle_token_text).
AdminSessionBound ==
  [][\A u \in Users : admins'[u] # None /\ ~Bound(u)' =>
       \/ admins[u] # None /\ ~Bound(u)
       \/ \E r \in Requests : req[r].user = u /\ Crosses(r) /\ req'[r] = Idle]_vars

\* One user per merchant connects its bot, whoever else holds the link, as long
\* as no two requests connect at once.
OneConnector ==
  \A u, v \in Users :
    admins[u] = admins[v] /\ admins[u] # None /\ u # v =>
      "stale" \in past[u] \cup past[v]

\* Once the topic loop is over, every topic picked has its Faq row.
PickedTopicsAnswered ==
  \A u \in Users :
    Smooth(u) /\ session[u].state \in {"awaiting_hours", "choosing_tone", "done"} =>
      \A t \in chosen[u] : faqs[session[u].merchant][t] > 0

\* A topic has a second Faq row only after the shop's admin went through the
\* topics again, unless requests committed over rows that had changed or an
\* admin's session was led to another's merchant.
FaqRowsNotDoubled ==
  \A u \in Users : \A t \in Topics :
    admins[u] # None /\ faqs[admins[u]][t] = 2 =>
      "reentered" \in past[u] \/ \E v \in Users : past[v] \cap {"stale", "rebound"} # {}
=============================================================================
