--------------------------- MODULE OnboardingProofs ---------------------------
(***************************************************************************)
(* Machine-checked proofs about Onboarding, for any number of users,       *)
(* requests, merchants and bots, any verticals and topics, and updates     *)
(* that overlap in any way.                                                *)
(***************************************************************************)
EXTENDS Onboarding, SequenceTheorems, WellFoundedInduction, TLAPS

Early == {"none", "start", "awaiting_token"}

\* What an update brings to a session whose bot is connected.
LaterKinds ==
  {"shop_name", "confirm", "vertical", "source", "description", "topic", "topics_done",
   "answer", "method", "payment_done", "hours", "skip", "tone", "settings"}
Opening == {"greet", "found", "start"}
Kinds == LaterKinds \cup Opening \cup {"idle", "lang", "token", "attach"}
Args == Merchants \cup Verticals \cup Sources \cup Topics \cup Methods \cup Targets \cup {None}

Records ==
  [kind : Kinds, user : Users \cup {None}, arg : Args, sess : Sessions,
   merchant : Merchants \cup {None}, row : Rows, late : 0..MaxLate]

\* The state in which an update of the kind is accepted.
Asked(kind, state) ==
  \/ kind = "lang" /\ state = "start"
  \/ kind \in {"token", "attach"} /\ state = "awaiting_token"
  \/ kind \in {"shop_name", "confirm"} /\ state = "awaiting_shop_name"
  \/ kind = "vertical" /\ state = "choosing_vertical"
  \/ kind = "source" /\ state = "choosing_source"
  \/ kind = "description" /\ state = "awaiting_course_description"
  \/ kind \in {"topic", "topics_done"} /\ state = "choosing_faq_topics"
  \/ kind = "answer" /\ state = "awaiting_topic_answer"
  \/ kind \in {"method", "payment_done"} /\ state = "choosing_payment_methods"
  \/ kind \in {"hours", "skip"} /\ state = "awaiting_hours"
  \/ kind = "tone" /\ state = "choosing_tone"

\* A request has what its handler reads: the state that led to the handler, the
\* argument of its kind, and the merchant the session was bound to; a pasted
\* token found the merchant without a bot.
Proper(rec) ==
  /\ rec.kind = "idle" => rec = Idle
  /\ rec.kind # "idle" => rec.user \in Users
  /\ rec.kind \notin Opening \cup {"idle", "settings"} => Asked(rec.kind, rec.sess.state)
  /\ rec.kind \in Opening => rec.arg \in Links \cup {None}
  /\ rec.kind \in {"token", "attach"} => rec.arg \in Bots
  /\ rec.kind = "attach" => /\ rec.merchant \in Merchants /\ rec.row.bot = None
                            /\ rec.sess.merchant \in {None, rec.merchant}
  /\ rec.kind = "vertical" => rec.arg \in Verticals
  /\ rec.kind = "source" => rec.arg \in Sources
  /\ rec.kind = "topic" => rec.arg \in Topics
  /\ rec.kind = "method" => rec.arg \in Methods
  /\ rec.kind = "settings" => rec.arg \in Targets
  /\ rec.kind \in LaterKinds => rec.merchant = rec.sess.merchant

Typed ==
  /\ TypeOK
  /\ req \in [Requests -> Records]
  /\ \A r \in Requests : Proper(req[r])

-----------------------------------------------------------------------------
(* The operators of the model.                                              *)

\* The state in which an update is accepted, kind by kind.
LEMMA AcceptedAsked ==
  ASSUME NEW state \in States, NEW kind \in Accepts[state]
  PROVE  /\ kind \in Kinds \ (Opening \cup {"idle", "attach", "settings"})
         /\ Asked(kind, state)
BY DEF States, Accepts, Asked, Kinds, LaterKinds, Opening

\* The states by name.
LEMMA StateNames ==
  States = {"none", "start", "awaiting_token", "awaiting_shop_name", "choosing_vertical",
            "choosing_source", "awaiting_course_description", "choosing_faq_topics",
            "awaiting_topic_answer", "choosing_payment_methods", "awaiting_hours",
            "choosing_tone", "done"}
BY DEF States, Accepts

\* A set of places has a first one.
LEMMA FirstPlace ==
  ASSUME NEW T \in SUBSET Nat, T # {}
  PROVE  \E j \in T : \A k \in T : j <= k
<1>1. PICK j \in T : \A k \in T : <<k, j>> \notin OpToRel(<, Nat)
  BY NatLessThanWellFounded, WFMin
<1>2. \A k \in T : ~(k < j)
  BY <1>1 DEF OpToRel
<1> QED
  BY <1>2

\* Removing an entry of a list leaves a list.
LEMMA WithoutType ==
  ASSUME NEW S, NEW seq \in Seq(S), NEW i \in 1..Len(seq)
  PROVE  Without(seq, i) \in Seq(S)
<1>1. Len(seq) \in Nat /\ seq \in [1..Len(seq) -> S]
  BY LenProperties
<1>2. SubSeq(seq, 1, i - 1) \in Seq(S)
  <2>1. \A k \in 1..(i - 1) : seq[k] \in S
    BY <1>1
  <2> QED
    BY <1>1, <2>1, SubSeqProperties
<1>3. SubSeq(seq, i + 1, Len(seq)) \in Seq(S)
  <2>1. \A k \in (i + 1)..Len(seq) : seq[k] \in S
    BY <1>1
  <2> QED
    BY <1>1, <2>1, SubSeqProperties
<1> QED
  BY <1>2, <1>3, ConcatProperties DEF Without

\* Toggling a topic in a list of topics gives a list of topics.
LEMMA ToggleType ==
  ASSUME NEW S, NEW seq \in Seq(S), NEW e \in S
  PROVE  Toggle(seq, e) \in Seq(S)
<1> DEFINE P == Places(seq, e)
           First(i) == \A j \in P : i <= j
<1>1. P \subseteq 1..Len(seq) /\ Len(seq) \in Nat
  BY LenProperties DEF Places
<1>2. CASE P = {}
  BY <1>2 DEF Toggle
<1>3. CASE P # {}
  <2>1. P \in SUBSET Nat
    BY <1>1
  <2>2. \E i \in P : First(i)
    BY <1>3, <2>1, FirstPlace
  <2>3. (CHOOSE i \in P : First(i)) \in 1..Len(seq)
    BY <1>1, <2>2
  <2> QED
    BY <1>3, <2>3, WithoutType DEF Toggle
<1> QED
  BY <1>2, <1>3

\* What an UPDATE leaves in the columns of a session.
LEMMA MergeSession ==
  ASSUME NEW db \in Sessions, NEW old \in Sessions, NEW new \in Sessions
  PROVE  /\ Merge(db, old, new) \in Sessions
         /\ Merge(db, old, new).state = IF new.state = old.state THEN db.state ELSE new.state
         /\ Merge(db, old, new).merchant =
              IF new.merchant = old.merchant THEN db.merchant ELSE new.merchant
         /\ Merge(db, old, new).data = IF new.data = old.data THEN db.data ELSE new.data
BY DEF Merge, Sessions

\* The same for the columns of a merchant.
LEMMA MergeRow ==
  ASSUME NEW db \in Rows, NEW old \in Rows, NEW new \in Rows
  PROVE  /\ Merge(db, old, new) \in Rows
         /\ Merge(db, old, new).bot = IF new.bot = old.bot THEN db.bot ELSE new.bot
         /\ Merge(db, old, new).vertical =
              IF new.vertical = old.vertical THEN db.vertical ELSE new.vertical
         /\ Merge(db, old, new).profile =
              IF new.profile = old.profile THEN db.profile ELSE new.profile
BY DEF Merge, Rows

\* A new session, a new row and an idle request have their types.
LEMMA IdleType == /\ NoData \in Data /\ NoSession \in Sessions /\ NoRow \in Rows
                  /\ Idle \in Records /\ Proper(Idle)
<1>1. NoData \in Data
  BY DEF NoData, Data
<1>2. NoSession \in Sessions /\ NoRow \in Rows
  BY <1>1, StateNames DEF NoSession, Sessions, NoRow, Rows
<1>3. Idle \in Records
  BY <1>2, OnboardingAssumption DEF Idle, Records, Kinds, Args
<1>4. Proper(Idle)
  BY DEF Idle, Proper, LaterKinds, Opening
<1> QED
  BY <1>1, <1>2, <1>3, <1>4

-----------------------------------------------------------------------------
(* What the commit of a request does to each variable.                      *)

Marks == {"jumped", "reentered"}

\* The request that commits has a user; only that user's session is written.
LEMMA SaveSession ==
  ASSUME Typed, NEW r \in Requests, req[r].kind # "idle",
         NEW s \in Sessions, NEW row, NEW topics, NEW marks,
         Save(r, s, row, topics, marks)
  PROVE  /\ req[r].user \in Users
         /\ session' \in [Users -> Sessions]
         /\ \A v \in Users \ {req[r].user} : session'[v] = session[v]
         /\ session'[req[r].user] = Merge(session[req[r].user], req[r].sess, s)
         /\ session[req[r].user] = req[r].sess => session'[req[r].user] = s
<1>1. PICK u, old : u = req[r].user /\ old = req[r].sess /\ u \in Users /\ old \in Sessions
  BY DEF Typed, Proper, Records
<1>2. session \in [Users -> Sessions] /\ session' = [session EXCEPT ![u] = Merge(@, old, s)]
  BY <1>1 DEF Typed, TypeOK, Save
<1>3. Merge(session[u], old, s) \in Sessions
  BY <1>1, <1>2, MergeSession
<1>4. session[u] = old => Merge(session[u], old, s) = s
  BY <1>1 DEF Merge, Sessions
<1> QED
  BY <1>1, <1>2, <1>3, <1>4

\* Only the row of the request's merchant is written.
LEMMA SaveRow ==
  ASSUME Typed, NEW r \in Requests, NEW s, NEW row \in Rows, NEW topics, NEW marks,
         Save(r, s, row, topics, marks)
  PROVE  /\ merchants' \in [Merchants -> Rows]
         /\ \A n \in Merchants : n # req[r].merchant => merchants'[n] = merchants[n]
         /\ req[r].merchant # None =>
              merchants'[req[r].merchant] = Merge(merchants[req[r].merchant], req[r].row, row)
         /\ req[r].merchant # None /\ merchants[req[r].merchant] = req[r].row =>
              merchants'[req[r].merchant] = row
<1>1. PICK m, old : m = req[r].merchant /\ old = req[r].row /\ m \in Merchants \cup {None} /\ old \in Rows
  BY DEF Typed, Records
<1>2. merchants \in [Merchants -> Rows]
  BY DEF Typed, TypeOK
<1>3. CASE m = None
  BY <1>1, <1>2, <1>3, OnboardingAssumption DEF Save
<1>4. CASE m # None
  <2>1. merchants' = [merchants EXCEPT ![m] = Merge(@, old, row)] /\ m \in Merchants
    BY <1>1, <1>4 DEF Save
  <2>2. Merge(merchants[m], old, row) \in Rows
    BY <1>1, <1>2, <2>1, MergeRow
  <2>3. merchants[m] = old => Merge(merchants[m], old, row) = row
    BY <1>1 DEF Merge, Rows
  <2> QED
    BY <1>1, <1>2, <2>1, <2>2, <2>3
<1> QED
  BY <1>3, <1>4

\* Only that merchant gets Faq rows, one for each of the topics.
LEMMA SaveFaqs ==
  ASSUME Typed, NEW r \in Requests, NEW s, NEW row, NEW topics, NEW marks,
         Save(r, s, row, topics, marks)
  PROVE  /\ faqs' \in [Merchants -> [Topics -> 0..2]]
         /\ \A n \in Merchants : n # req[r].merchant => faqs'[n] = faqs[n]
         /\ req[r].merchant # None => \A t \in Topics :
              faqs'[req[r].merchant][t] =
                IF t \in topics /\ faqs[req[r].merchant][t] < 2
                THEN faqs[req[r].merchant][t] + 1 ELSE faqs[req[r].merchant][t]
<1>1. PICK m : m = req[r].merchant /\ m \in Merchants \cup {None}
  BY DEF Typed, Records
<1>2. faqs \in [Merchants -> [Topics -> 0..2]]
  BY DEF Typed, TypeOK
<1>3. CASE m = None
  BY <1>1, <1>2, <1>3, OnboardingAssumption DEF Save
<1>4. CASE m # None
  <2> DEFINE new == [t \in Topics |-> IF t \in topics /\ faqs[m][t] < 2 THEN faqs[m][t] + 1
                                      ELSE faqs[m][t]]
  <2>1. faqs' = [faqs EXCEPT ![m] = new] /\ m \in Merchants
    BY <1>1, <1>4 DEF Save
  <2>2. new \in [Topics -> 0..2]
    BY <1>2, <2>1
  <2>3. \A t \in Topics : new[t] = IF t \in topics /\ faqs[m][t] < 2 THEN faqs[m][t] + 1
                                   ELSE faqs[m][t]
    OBVIOUS
  <2> HIDE DEF new
  <2> QED
    BY <1>1, <1>2, <2>1, <2>2, <2>3
<1> QED
  BY <1>3, <1>4

\* The history of the user grows by the marks, by "stale" when the rows had changed,
\* and by "rebound" when the admin's session is left with another merchant.
LEMMA SavePast ==
  ASSUME Typed, NEW r \in Requests, req[r].kind # "idle",
         NEW s, NEW row, NEW topics, NEW marks \in SUBSET Marks,
         Save(r, s, row, topics, marks)
  PROVE  /\ past' \in [Users -> SUBSET {"jumped", "reentered", "stale", "rebound"}]
         /\ \A v \in Users : past[v] \subseteq past'[v]
         /\ \A v \in Users \ {req[r].user} : past'[v] = past[v]
         /\ marks \subseteq past'[req[r].user]
         /\ Stale(r) => "stale" \in past'[req[r].user]
         /\ "rebound" \in past'[req[r].user]
              \/ admins'[req[r].user] = None
              \/ session'[req[r].user].merchant = admins'[req[r].user]
<1>1. PICK u : u = req[r].user /\ u \in Users
  BY DEF Typed, Proper
<1>2. PICK more \in SUBSET {"stale", "rebound"} :
        /\ past' = [past EXCEPT ![u] = @ \cup marks \cup more]
        /\ Stale(r) => "stale" \in more
        /\ "rebound" \in more \/ admins'[u] \in {None, session'[u].merchant}
  <2> DEFINE m1 == IF Stale(r) THEN {"stale"} ELSE {}
             m2 == IF admins'[u] \in {None, session'[u].merchant} THEN {} ELSE {"rebound"}
  <2>1. past' = [past EXCEPT ![u] = @ \cup marks \cup m1 \cup m2]
    BY <1>1 DEF Save
  <2>2. past' = [past EXCEPT ![u] = @ \cup marks \cup (m1 \cup m2)]
    BY <2>1
  <2>3. /\ m1 \cup m2 \in SUBSET {"stale", "rebound"}
        /\ Stale(r) => "stale" \in m1
        /\ "rebound" \in m2 \/ admins'[u] \in {None, session'[u].merchant}
    OBVIOUS
  <2> HIDE DEF m1, m2
  <2> QED
    BY <2>2, <2>3
<1>3. past \in [Users -> SUBSET {"jumped", "reentered", "stale", "rebound"}]
  BY DEF Typed, TypeOK
<1> QED
  BY <1>1, <1>2, <1>3 DEF Marks

\* A request that goes on: the commits of others are counted, no more.
Same(new, old) ==
  /\ new.kind = old.kind /\ new.user = old.user /\ new.arg = old.arg
  /\ new.sess = old.sess /\ new.merchant = old.merchant /\ new.row = old.row

\* The request that commits ends, the others go on.
LEMMA SaveRequests ==
  ASSUME Typed, NEW r \in Requests, req[r].kind # "idle",
         NEW s, NEW row, NEW topics, NEW marks,
         Save(r, s, row, topics, marks)
  PROVE  /\ req' \in [Requests -> Records]
         /\ req'[r] = Idle
         /\ \A q \in Requests : Proper(req'[q])
         /\ \A q \in Requests \ {r} : Same(req'[q], req[q])
<1>1. req' = [q \in Requests |-> IF q = r THEN Idle
                                ELSE IF q \in Others(r) THEN [req[q] EXCEPT !.late = @ + 1]
                                ELSE req[q]]
  BY DEF Save
<1>2. Idle \in Records /\ Proper(Idle)
  BY IdleType
<1>3. ASSUME NEW q \in Requests \ {r}, q \in Others(r)
      PROVE  /\ [req[q] EXCEPT !.late = @ + 1] \in Records
             /\ Proper([req[q] EXCEPT !.late = @ + 1])
             /\ Same([req[q] EXCEPT !.late = @ + 1], req[q])
  <2>1. PICK x \in Records : x = req[q] /\ Proper(x)
    BY DEF Typed
  <2>2. x.late < MaxLate /\ x.user = req[r].user /\ req[r].user \in Users
    BY <1>3, <2>1 DEF Save, Typed, Proper, Others
  <2>3. x.kind # "idle"
    BY <2>1, <2>2, OnboardingAssumption DEF Proper, Idle
  <2>4. PICK y : y = [x EXCEPT !.late = @ + 1]
    OBVIOUS
  <2>5. y \in Records /\ Same(y, x)
    BY <2>2, <2>4, OnboardingAssumption DEF Records, Same
  <2>6. Proper(y)
    BY <2>1, <2>3, <2>5 DEF Proper, Same
  <2> QED
    BY <2>1, <2>4, <2>5, <2>6
<1>4. ASSUME NEW q \in Requests
      PROVE  Same(req[q], req[q]) /\ req[q] \in Records /\ Proper(req[q])
  BY DEF Same, Typed
<1> QED
  BY <1>1, <1>2, <1>3, <1>4

\* A commit of typed values keeps every variable in its type.
LEMMA SaveTyped ==
  ASSUME Typed, NEW r \in Requests, req[r].kind # "idle",
         NEW s \in Sessions, NEW row \in Rows, NEW topics, NEW marks \in SUBSET Marks,
         Save(r, s, row, topics, marks), taps' = taps,
         admins' \in [Users -> Merchants \cup {None}], chosen' \in [Users -> SUBSET Topics]
  PROVE  Typed'
<1>1. session' \in [Users -> Sessions]
  BY SaveSession
<1>2. merchants' \in [Merchants -> Rows]
  BY SaveRow
<1>3. faqs' \in [Merchants -> [Topics -> 0..2]]
  BY SaveFaqs
<1>4. past' \in [Users -> SUBSET {"jumped", "reentered", "stale", "rebound"}]
  BY SavePast
<1>5. req' \in [Requests -> Records] /\ \A q \in Requests : Proper(req'[q])
  BY SaveRequests
<1>6. cast' \in Casts /\ taps' \in [Users -> 0..MaxTaps]
  BY DEF Save, Typed, TypeOK
<1>7. \A q \in Requests :
        /\ req'[q].user \in Users \cup {None}
        /\ req'[q].sess \in Sessions /\ req'[q].row \in Rows
        /\ req'[q].merchant \in Merchants \cup {None}
        /\ req'[q].late \in 0..MaxLate
  BY <1>5 DEF Records
<1> QED
  BY <1>1, <1>2, <1>3, <1>4, <1>5, <1>6, <1>7 DEF Typed, TypeOK

-----------------------------------------------------------------------------
(* What a step of the dialogue writes.                                      *)

BeforeSource == {"awaiting_shop_name", "choosing_vertical", "choosing_source"}
Asking == {"awaiting_topic_answer", "choosing_payment_methods"}
TopicStates == {"choosing_faq_topics"} \cup Asking
AfterTopics == {"awaiting_hours", "choosing_tone", "done"}
AfterSource == {"awaiting_course_description"} \cup TopicStates \cup AfterTopics
AfterVertical == {"choosing_source"} \cup AfterSource

\* The row has what a session in this state went through, or its re-entry implies.
Given(sess, row) ==
  /\ sess.state \in AfterVertical \/ sess.data.reentry => row.vertical # None
  /\ sess.state \in AfterSource \/ sess.data.reentry => "intake_source" \in row.profile

GivenAll(sess, row) ==
  /\ sess.state \in AfterTopics \/ sess.data.reentry => "faq_topics" \in row.profile
  /\ sess.state = "done" \/ sess.data.reentry => "tone" \in row.profile

\* What the row had, it has.
Kept(old, new) ==
  /\ old.vertical # None => new.vertical # None
  /\ "intake_source" \in old.profile => "intake_source" \in new.profile

\* What is in a list.
Elems(seq) == {seq[i] : i \in 1..Len(seq)}

\* The topics picked are all answered, waiting, or asked now; outside of the loop
\* all are among answered, those with a Faq row.
Awaited(sess) ==
  sess.data.collected \cup {sess.data.current} \cup Elems(sess.data.pending)
Followed(sess, picked, answered) ==
  IF sess.state \in Asking
  THEN /\ picked \subseteq Awaited(sess)
       /\ sess.state = "choosing_payment_methods" => sess.data.current = Payment
  ELSE picked \subseteq answered

\* The topics have not been gone through yet.
FirstPass(sess) ==
  /\ ~sess.data.reentry
  /\ sess.state \in BeforeSource \cup {"awaiting_course_description"} \cup TopicStates

\* A request rec of the dialogue leaves session s and row, adds topics and marks, and
\* has picked instead of before as the topics picked.
Writes(rec, s, row, topics, marks, before, picked) ==
  /\ s.merchant = rec.sess.merchant /\ s.state \notin Early
  /\ row.bot = rec.row.bot /\ Kept(rec.row, row)
  /\ row.profile # rec.row.profile =>
       rec.sess.state \in AfterSource \/ "intake_source" \in row.profile
  /\ "jumped" \notin marks =>
       /\ rec.sess.state \notin Early
       /\ Given(rec.sess, rec.row) => Given(s, row)
       /\ GivenAll(rec.sess, rec.row) => GivenAll(s, row)
       /\ rec.merchant # None => \A answered \in SUBSET Topics :
            Followed(rec.sess, before, answered) => Followed(s, picked, answered \cup topics)
  /\ topics # {} => rec.sess.state \in TopicStates /\ s.state \in AfterTopics /\ ~s.data.reentry
  /\ FirstPass(s) => FirstPass(rec.sess) /\ topics = {}
  /\ s.data.reentry /\ s.state \in TopicStates =>
       \/ "reentered" \in marks
       \/ rec.sess.data.reentry /\ rec.sess.state \in TopicStates

\* Request r commits a step of the dialogue.
Commits(r) ==
  \E s \in Sessions, row \in Rows, topics \in SUBSET Topics, marks \in SUBSET Marks :
    /\ Save(r, s, row, topics, marks)
    /\ Writes(req[r], s, row, topics, marks, chosen[req[r].user], chosen'[req[r].user])
    /\ req[r].kind \in LaterKinds
    /\ UNCHANGED <<admins, taps>>
    /\ chosen' \in [Users -> SUBSET Topics]
    /\ \A v \in Users \ {req[r].user} : chosen'[v] = chosen[v]

\* A step that moves the session and sets a key is one of them.
LEMMA SaveStepCommits ==
  ASSUME Typed, NEW r \in Requests, req[r].kind \in LaterKinds,
         NEW s \in Sessions, NEW row \in Rows, SaveStep(r, s, row),
         Writes(req[r], s, row, {}, {}, chosen[req[r].user], chosen[req[r].user])
  PROVE  Commits(r)
<1>1. Save(r, s, row, {}, {}) /\ UNCHANGED <<admins, taps, chosen>>
  BY DEF SaveStep
<1>2. chosen' \in [Users -> SUBSET Topics]
  BY <1>1 DEF Typed, TypeOK
<1> QED
  BY <1>1, <1>2 DEF Commits

\* Advancing clears the data; a re-entered step goes to done.
LEMMA AdvanceFacts ==
  ASSUME NEW s \in Sessions, NEW next \in States
  PROVE  /\ Advance(s, next) \in Sessions
         /\ Advance(s, next).merchant = s.merchant
         /\ Advance(s, next).state = IF s.data.reentry THEN "done" ELSE next
         /\ ~Advance(s, next).data.reentry
<1>1. NoData \in Data /\ ~NoData.reentry /\ "done" \in States
  BY IdleType, StateNames DEF NoData
<1> QED
  BY <1>1 DEF Advance, Sessions

\* Setting a key keeps the others.
LEMMA KeyFacts ==
  ASSUME NEW row \in Rows, NEW key \in Keys
  PROVE  /\ WithKey(row, key) \in Rows
         /\ WithKey(row, key).bot = row.bot /\ WithKey(row, key).vertical = row.vertical
         /\ WithKey(row, key).profile = row.profile \cup {key}
BY DEF WithKey, Rows

\* The shop name, typed or confirmed, is a commit of one kind: Save + Writes.
LEMMA ShopNameCommits ==
  ASSUME Typed, NEW r \in Requests, ShopNameText(r) \/ ShopNameConfirm(r)
  PROVE  Commits(r)
<1>1. PICK rec \in Records : rec = req[r] /\ Proper(rec)
  BY DEF Typed
<1>2. PICK s : s = Advance(rec.sess, "choosing_vertical")
  OBVIOUS
<1>3. rec.sess \in Sessions /\ rec.row \in Rows
  BY <1>1 DEF Records
<1>4. rec.kind \in {"shop_name", "confirm"} /\ SaveStep(r, s, rec.row)
  BY <1>1, <1>2 DEF ShopNameText, ShopNameConfirm, Serving
<1>5. rec.sess.state = "awaiting_shop_name"
  BY <1>1, <1>4 DEF Proper, Asked, Opening
<1>6. /\ s \in Sessions /\ s.merchant = rec.sess.merchant /\ ~s.data.reentry
      /\ s.state = IF rec.sess.data.reentry THEN "done" ELSE "choosing_vertical"
  BY <1>2, <1>3, AdvanceFacts, StateNames
<1>7. Writes(rec, s, rec.row, {}, {}, chosen[rec.user], chosen[rec.user])
  BY <1>5, <1>6 DEF Writes, Early, Kept, Given, GivenAll, Followed, FirstPass,
     BeforeSource, Asking, TopicStates, AfterTopics, AfterSource, AfterVertical
<1> QED
  BY <1>1, <1>3, <1>4, <1>6, <1>7, SaveStepCommits DEF LaterKinds

\* So is the choice of what the shop sells,
LEMMA VerticalCommits ==
  ASSUME Typed, NEW r \in Requests, VerticalPick(r)
  PROVE  Commits(r)
<1>1. PICK rec \in Records : rec = req[r] /\ Proper(rec)
  BY DEF Typed
<1>2. PICK s, row : /\ s = Advance(rec.sess, "choosing_source")
                    /\ row = [rec.row EXCEPT !.vertical = rec.arg]
  OBVIOUS
<1>3. rec.sess \in Sessions /\ rec.row \in Rows
  BY <1>1 DEF Records
<1>4. rec.kind = "vertical" /\ SaveStep(r, s, row)
  BY <1>1, <1>2 DEF VerticalPick, Serving
<1>5. rec.sess.state = "choosing_vertical" /\ rec.arg \in Verticals
  BY <1>1, <1>4 DEF Proper, Asked, Opening
<1>6. /\ s \in Sessions /\ s.merchant = rec.sess.merchant /\ ~s.data.reentry
      /\ s.state = IF rec.sess.data.reentry THEN "done" ELSE "choosing_source"
  BY <1>2, <1>3, AdvanceFacts, StateNames
<1>7. /\ row \in Rows /\ row.vertical = rec.arg /\ row.vertical # None
      /\ row.bot = rec.row.bot /\ row.profile = rec.row.profile
  BY <1>2, <1>3, <1>5, OnboardingAssumption DEF Rows
<1>8. Writes(rec, s, row, {}, {}, chosen[rec.user], chosen[rec.user])
  BY <1>5, <1>6, <1>7 DEF Writes, Early, Kept, Given, GivenAll, Followed, FirstPass,
     BeforeSource, Asking, TopicStates, AfterTopics, AfterSource, AfterVertical
<1> QED
  BY <1>1, <1>4, <1>6, <1>7, <1>8, SaveStepCommits DEF LaterKinds

\* of where its catalogue comes from,
LEMMA SourceCommits ==
  ASSUME Typed, NEW r \in Requests, SourcePick(r)
  PROVE  Commits(r)
<1>1. PICK rec \in Records : rec = req[r] /\ Proper(rec)
  BY DEF Typed
<1>2. PICK s, row : /\ s = IF rec.arg = "course"
                           THEN [rec.sess EXCEPT !.state = "awaiting_course_description"]
                           ELSE Advance(rec.sess, "choosing_faq_topics")
                    /\ row = WithKey(rec.row, "intake_source")
  OBVIOUS
<1>3. rec.sess \in Sessions /\ rec.row \in Rows
  BY <1>1 DEF Records
<1>4. rec.kind = "source" /\ SaveStep(r, s, row)
  BY <1>1, <1>2 DEF SourcePick, Serving
<1>5. rec.sess.state = "choosing_source"
  BY <1>1, <1>4 DEF Proper, Asked, Opening
<1>6. \/ /\ s \in Sessions /\ s.merchant = rec.sess.merchant /\ s.data = rec.sess.data
         /\ s.state = "awaiting_course_description"
      \/ /\ s \in Sessions /\ s.merchant = rec.sess.merchant /\ ~s.data.reentry
         /\ s.state = IF rec.sess.data.reentry THEN "done" ELSE "choosing_faq_topics"
  <2>1. CASE rec.arg = "course"
    BY <1>2, <1>3, <2>1, StateNames DEF Sessions
  <2>2. CASE rec.arg # "course"
    BY <1>2, <1>3, <2>2, AdvanceFacts, StateNames
  <2> QED
    BY <2>1, <2>2
<1>7. /\ row \in Rows /\ row.vertical = rec.row.vertical /\ row.bot = rec.row.bot
      /\ row.profile = rec.row.profile \cup {"intake_source"}
  BY <1>2, <1>3, KeyFacts DEF Keys
<1>8. Writes(rec, s, row, {}, {}, chosen[rec.user], chosen[rec.user])
  BY <1>5, <1>6, <1>7 DEF Writes, Early, Kept, Given, GivenAll, Followed, FirstPass,
     BeforeSource, Asking, TopicStates, AfterTopics, AfterSource, AfterVertical
<1> QED
  BY <1>1, <1>4, <1>6, <1>7, <1>8, SaveStepCommits DEF LaterKinds

\* a typed course description,
LEMMA DescriptionCommits ==
  ASSUME Typed, NEW r \in Requests, CourseDescription(r)
  PROVE  Commits(r)
<1>1. PICK rec \in Records : rec = req[r] /\ Proper(rec)
  BY DEF Typed
<1>2. PICK s, row : /\ s = Advance(rec.sess, "choosing_faq_topics")
                    /\ row = WithKey(rec.row, "course_raw_description")
  OBVIOUS
<1>3. rec.sess \in Sessions /\ rec.row \in Rows
  BY <1>1 DEF Records
<1>4. rec.kind = "description" /\ SaveStep(r, s, row)
  BY <1>1, <1>2 DEF CourseDescription, Serving
<1>5. rec.sess.state = "awaiting_course_description"
  BY <1>1, <1>4 DEF Proper, Asked, Opening
<1>6. /\ s \in Sessions /\ s.merchant = rec.sess.merchant /\ ~s.data.reentry
      /\ s.state = IF rec.sess.data.reentry THEN "done" ELSE "choosing_faq_topics"
  BY <1>2, <1>3, AdvanceFacts, StateNames
<1>7. /\ row \in Rows /\ row.vertical = rec.row.vertical /\ row.bot = rec.row.bot
      /\ row.profile = rec.row.profile \cup {"course_raw_description"}
  BY <1>2, <1>3, KeyFacts DEF Keys
<1>8. Writes(rec, s, row, {}, {}, chosen[rec.user], chosen[rec.user])
  BY <1>5, <1>6, <1>7 DEF Writes, Early, Kept, Given, GivenAll, Followed, FirstPass,
     BeforeSource, Asking, TopicStates, AfterTopics, AfterSource, AfterVertical
<1> QED
  BY <1>1, <1>4, <1>6, <1>7, <1>8, SaveStepCommits DEF LaterKinds

\* the opening hours, typed or skipped,
LEMMA HoursCommits ==
  ASSUME Typed, NEW r \in Requests, HoursText(r) \/ HoursSkip(r)
  PROVE  Commits(r)
<1>1. PICK rec \in Records : rec = req[r] /\ Proper(rec)
  BY DEF Typed
<1>2. rec.sess \in Sessions /\ rec.row \in Rows
  BY <1>1 DEF Records
<1>3. PICK s, row : /\ s = Advance(rec.sess, "choosing_tone")
                    /\ row \in {rec.row, WithKey(rec.row, "hours")}
                    /\ rec.kind \in {"hours", "skip"} /\ SaveStep(r, s, row)
  BY <1>1 DEF HoursText, HoursSkip, Serving
<1>4. rec.sess.state = "awaiting_hours"
  BY <1>1, <1>3 DEF Proper, Asked, Opening
<1>5. /\ s \in Sessions /\ s.merchant = rec.sess.merchant /\ ~s.data.reentry
      /\ s.state = IF rec.sess.data.reentry THEN "done" ELSE "choosing_tone"
  BY <1>2, <1>3, AdvanceFacts, StateNames
<1>6. /\ row \in Rows /\ row.vertical = rec.row.vertical /\ row.bot = rec.row.bot
      /\ rec.row.profile \subseteq row.profile
  BY <1>2, <1>3, KeyFacts DEF Keys
<1>7. Writes(rec, s, row, {}, {}, chosen[rec.user], chosen[rec.user])
  BY <1>4, <1>5, <1>6 DEF Writes, Early, Kept, Given, GivenAll, Followed, FirstPass,
     BeforeSource, Asking, TopicStates, AfterTopics, AfterSource, AfterVertical
<1> QED
  BY <1>1, <1>3, <1>5, <1>6, <1>7, SaveStepCommits DEF LaterKinds

\* the tone,
LEMMA ToneCommits ==
  ASSUME Typed, NEW r \in Requests, TonePick(r)
  PROVE  Commits(r)
<1>1. PICK rec \in Records : rec = req[r] /\ Proper(rec)
  BY DEF Typed
<1>2. rec.sess \in Sessions /\ rec.row \in Rows
  BY <1>1 DEF Records
<1>3. PICK s, row : /\ s = [rec.sess EXCEPT !.state = "done", !.data = NoData]
                    /\ row = WithKey(rec.row, "tone")
  OBVIOUS
<1>4. rec.kind = "tone" /\ SaveStep(r, s, row)
  BY <1>1, <1>3 DEF TonePick, Serving
<1>5. rec.sess.state = "choosing_tone"
  BY <1>1, <1>4 DEF Proper, Asked, Opening
<1>6. /\ s \in Sessions /\ s.merchant = rec.sess.merchant /\ ~s.data.reentry
      /\ s.state = "done"
  <2>1. NoData \in Data /\ ~NoData.reentry /\ "done" \in States
    BY IdleType, StateNames DEF NoData
  <2> QED
    BY <1>2, <1>3, <2>1 DEF Sessions
<1>7. /\ row \in Rows /\ row.vertical = rec.row.vertical /\ row.bot = rec.row.bot
      /\ row.profile = rec.row.profile \cup {"tone"}
  BY <1>2, <1>3, KeyFacts DEF Keys
<1>8. Writes(rec, s, row, {}, {}, chosen[rec.user], chosen[rec.user])
  BY <1>5, <1>6, <1>7 DEF Writes, Early, Kept, Given, GivenAll, Followed, FirstPass,
     BeforeSource, Asking, TopicStates, AfterTopics, AfterSource, AfterVertical
<1> QED
  BY <1>1, <1>4, <1>6, <1>7, <1>8, SaveStepCommits DEF LaterKinds

\* a tick of a topic or of a way to pay,
LEMMA ToggleCommits ==
  ASSUME Typed, NEW r \in Requests, TopicToggle(r) \/ PaymentToggle(r)
  PROVE  Commits(r)
<1>1. PICK rec \in Records : rec = req[r] /\ Proper(rec)
  BY DEF Typed
<1>2. rec.sess \in Sessions /\ rec.row \in Rows /\ rec.sess.data \in Data
  BY <1>1 DEF Records, Sessions
<1>3. \E s \in Sessions :
        /\ SaveStep(r, s, rec.row) /\ rec.kind \in {"topic", "method"}
        /\ s.state = rec.sess.state /\ s.merchant = rec.sess.merchant
        /\ s.data.reentry = rec.sess.data.reentry /\ s.data.current = rec.sess.data.current
        /\ s.data.collected = rec.sess.data.collected
        /\ s.data.pending = rec.sess.data.pending
  <2>1. CASE TopicToggle(r)
    <3>1. rec.kind = "topic" /\ rec.arg \in Topics
      BY <1>1, <2>1 DEF TopicToggle, Serving, Proper
    <3>2. PICK new \in Seq(Topics) : new = Toggle(rec.sess.data.selected, rec.arg)
      BY <1>2, <3>1, ToggleType DEF Data
    <3>3. PICK d : d = [rec.sess.data EXCEPT !.selected = new]
      OBVIOUS
    <3>4. /\ d \in Data /\ d.reentry = rec.sess.data.reentry
          /\ d.current = rec.sess.data.current
          /\ d.collected = rec.sess.data.collected /\ d.pending = rec.sess.data.pending
      BY <1>2, <3>3 DEF Data
    <3>5. PICK s : s = [rec.sess EXCEPT !.data = d]
      OBVIOUS
    <3>6. s \in Sessions /\ s.state = rec.sess.state /\ s.merchant = rec.sess.merchant /\ s.data = d
      BY <1>2, <3>4, <3>5 DEF Sessions
    <3>7. SaveStep(r, s, rec.row)
      BY <1>1, <1>2, <2>1, <3>2, <3>3, <3>5 DEF TopicToggle, Sessions
    <3> QED
      BY <3>1, <3>4, <3>6, <3>7
  <2>2. CASE PaymentToggle(r)
    <3>1. rec.kind = "method" /\ rec.arg \in Methods
      BY <1>1, <2>2 DEF PaymentToggle, Serving, Proper
    <3>2. PICK new : new = IF rec.arg \in rec.sess.data.methods
                           THEN rec.sess.data.methods \ {rec.arg}
                           ELSE rec.sess.data.methods \cup {rec.arg}
      OBVIOUS
    <3>3. new \in SUBSET Methods
      BY <1>2, <3>1, <3>2 DEF Data
    <3>4. PICK d : d = [rec.sess.data EXCEPT !.methods = new]
      OBVIOUS
    <3>5. /\ d \in Data /\ d.reentry = rec.sess.data.reentry
          /\ d.current = rec.sess.data.current
          /\ d.collected = rec.sess.data.collected /\ d.pending = rec.sess.data.pending
      BY <1>2, <3>3, <3>4 DEF Data
    <3>6. PICK s : s = [rec.sess EXCEPT !.data = d]
      OBVIOUS
    <3>7. s \in Sessions /\ s.state = rec.sess.state /\ s.merchant = rec.sess.merchant /\ s.data = d
      BY <1>2, <3>5, <3>6 DEF Sessions
    <3>8. SaveStep(r, s, rec.row)
      BY <1>1, <1>2, <2>2, <3>2, <3>4, <3>6 DEF PaymentToggle, Sessions
    <3> QED
      BY <3>1, <3>5, <3>7, <3>8
  <2> QED
    BY <2>1, <2>2
<1>4. PICK s \in Sessions :
        /\ SaveStep(r, s, rec.row) /\ rec.kind \in {"topic", "method"}
        /\ s.state = rec.sess.state /\ s.merchant = rec.sess.merchant
        /\ s.data.reentry = rec.sess.data.reentry /\ s.data.current = rec.sess.data.current
        /\ s.data.collected = rec.sess.data.collected
        /\ s.data.pending = rec.sess.data.pending
  BY <1>3
<1>5. rec.sess.state \in {"choosing_faq_topics", "choosing_payment_methods"}
  BY <1>1, <1>4 DEF Proper, Asked, Opening
<1>6. Writes(rec, s, rec.row, {}, {}, chosen[rec.user], chosen[rec.user])
  BY <1>4, <1>5 DEF Writes, Early, Kept, Given, GivenAll, Followed, Awaited, FirstPass,
     BeforeSource, Asking, TopicStates, AfterTopics, AfterSource, AfterVertical
<1> QED
  BY <1>1, <1>2, <1>4, <1>6, SaveStepCommits DEF LaterKinds

\* Taking the first entry of a list splits what is in it.
LEMMA HeadTailElems ==
  ASSUME NEW S, NEW seq \in Seq(S), seq # <<>>
  PROVE  /\ Head(seq) \in S /\ Tail(seq) \in Seq(S)
         /\ Elems(seq) \subseteq {Head(seq)} \cup Elems(Tail(seq))
<1>1. /\ Head(seq) \in S /\ Tail(seq) \in Seq(S) /\ Len(Tail(seq)) = Len(seq) - 1
      /\ \A i \in 1..Len(Tail(seq)) : Tail(seq)[i] = seq[i + 1]
  BY HeadTailProperties
<1>2. Len(seq) \in Nat /\ Head(seq) = seq[1]
  OBVIOUS
<1>3. ASSUME NEW i \in 1..Len(seq)
      PROVE  seq[i] \in {Head(seq)} \cup Elems(Tail(seq))
  <2>1. CASE i = 1
    BY <1>2, <2>1
  <2>2. CASE i # 1
    <3>1. i - 1 \in 1..Len(Tail(seq)) /\ Tail(seq)[i - 1] = seq[i]
      BY <1>1, <1>2, <2>2
    <3> QED
      BY <3>1 DEF Elems
  <2> QED
    BY <2>1, <2>2
<1> QED
  BY <1>1, <1>3 DEF Elems

\* The loop asks for the first of the waiting topics, or writes the rows of all that
\* were answered: a topic picked is never lost.
LEMMA LoopCommits ==
  ASSUME Typed, NEW r \in Requests,
         req[r].kind \in {"topics_done", "answer", "payment_done"},
         NEW s0 \in Sessions, NEW picked \in SUBSET Topics, AdvanceLoop(r, s0, picked),
         s0.merchant = req[r].sess.merchant, s0.state = req[r].sess.state,
         s0.data.reentry = req[r].sess.data.reentry,
         \A answered \in SUBSET Topics :
           Followed(req[r].sess, chosen[req[r].user], answered) =>
             picked \subseteq s0.data.collected \cup Elems(s0.data.pending)
  PROVE  Commits(r)
<1>1. PICK rec \in Records : rec = req[r] /\ Proper(rec)
  BY DEF Typed
<1>2. PICK before : before = chosen[rec.user]
  OBVIOUS
<1>3. rec.sess \in Sessions /\ rec.row \in Rows /\ rec.user \in Users
  BY <1>1 DEF Records, Proper
<1>4. rec.sess.state \in TopicStates
  BY <1>1 DEF Proper, Asked, Opening, TopicStates, Asking
<1>5. /\ chosen' \in [Users -> SUBSET Topics] /\ chosen'[rec.user] = picked
      /\ \A v \in Users \ {rec.user} : chosen'[v] = chosen[v]
      /\ UNCHANGED <<admins, taps>>
  BY <1>1, <1>3 DEF AdvanceLoop, Typed, TypeOK
<1>6. s0.data \in Data
  BY DEF Sessions
<1> SUFFICES \E s \in Sessions, row \in Rows, topics \in SUBSET Topics :
               /\ Save(r, s, row, topics, {})
               /\ Writes(rec, s, row, topics, {}, before, picked)
  BY <1>1, <1>2, <1>5 DEF Commits, LaterKinds
<1>7. CASE s0.data.pending = <<>> /\ rec.merchant = None
  <2>1. Save(r, s0, rec.row, {}, {})
    BY <1>1, <1>7 DEF AdvanceLoop
  <2>2. Writes(rec, s0, rec.row, {}, {}, before, picked)
    BY <1>1, <1>4, <1>7 DEF Writes, Early, Kept, Given, GivenAll, FirstPass,
       BeforeSource, Asking, TopicStates, AfterTopics, AfterSource, AfterVertical
  <2> QED
    BY <1>3, <2>1, <2>2
<1>8. CASE s0.data.pending = <<>> /\ rec.merchant # None
  <2>1. PICK s, row : /\ s = Advance(s0, "awaiting_hours")
                      /\ row = WithKey(rec.row, "faq_topics")
    OBVIOUS
  <2>2. Save(r, s, row, s0.data.collected, {})
    BY <1>1, <1>8, <2>1 DEF AdvanceLoop
  <2>3. /\ s \in Sessions /\ s.merchant = rec.sess.merchant /\ ~s.data.reentry
        /\ s.state = IF rec.sess.data.reentry THEN "done" ELSE "awaiting_hours"
    BY <1>1, <2>1, AdvanceFacts, StateNames
  <2>4. /\ row \in Rows /\ row.vertical = rec.row.vertical /\ row.bot = rec.row.bot
        /\ row.profile = rec.row.profile \cup {"faq_topics"}
    BY <1>3, <2>1, KeyFacts DEF Keys
  <2>5. s0.data.collected \in SUBSET Topics /\ Elems(s0.data.pending) = {}
    BY <1>6, <1>8 DEF Data, Elems
  <2>6. \A answered \in SUBSET Topics :
          Followed(rec.sess, before, answered) =>
            Followed(s, picked, answered \cup s0.data.collected)
    BY <1>1, <1>2, <2>3, <2>5 DEF Followed, Asking
  <2>7. Writes(rec, s, row, s0.data.collected, {}, before, picked)
    BY <1>4, <2>3, <2>4, <2>6 DEF Writes, Early, Kept, Given, GivenAll, FirstPass,
       BeforeSource, Asking, TopicStates, AfterTopics, AfterSource, AfterVertical
  <2> QED
    BY <2>2, <2>3, <2>4, <2>5, <2>7
<1>9. CASE s0.data.pending # <<>>
  <2>1. PICK topic : topic = Head(s0.data.pending)
    OBVIOUS
  <2>2. PICK rest : rest = Tail(s0.data.pending)
    OBVIOUS
  <2>3. /\ topic \in Topics /\ rest \in Seq(Topics)
        /\ Elems(s0.data.pending) \subseteq {topic} \cup Elems(rest)
    BY <1>6, <1>9, <2>1, <2>2, HeadTailElems DEF Data
  <2>4. PICK state : state = IF topic = Payment THEN "choosing_payment_methods"
                             ELSE "awaiting_topic_answer"
    OBVIOUS
  <2>5. PICK s : s = [s0 EXCEPT !.state = state, !.data.pending = rest,
                                !.data.current = topic, !.data.methods = {}]
    OBVIOUS
  <2>6. Save(r, s, rec.row, {}, {})
    BY <1>1, <1>9, <2>1, <2>2, <2>4, <2>5 DEF AdvanceLoop
  <2>7. PICK d : d = [s0.data EXCEPT !.pending = rest, !.current = topic, !.methods = {}]
    OBVIOUS
  <2>8. /\ d \in Data /\ d.reentry = rec.sess.data.reentry /\ d.current = topic
        /\ d.collected = s0.data.collected /\ d.pending = rest
    BY <1>1, <1>6, <2>3, <2>7 DEF Data
  <2>9. s = [state |-> state, merchant |-> rec.sess.merchant, data |-> d]
    BY <1>1, <1>6, <2>5, <2>7 DEF Sessions, Data
  <2>10. s \in Sessions /\ s.state = state /\ s.merchant = rec.sess.merchant /\ s.data = d
    BY <1>3, <2>4, <2>8, <2>9, StateNames DEF Sessions
  <2>11. ASSUME NEW answered \in SUBSET Topics, Followed(rec.sess, before, answered)
         PROVE  Followed(s, picked, answered \cup {})
    <3>1. picked \subseteq s0.data.collected \cup Elems(s0.data.pending)
      BY <1>1, <1>2, <2>11
    <3>2. picked \subseteq Awaited(s)
      BY <2>3, <2>8, <2>10, <3>1 DEF Awaited
    <3> QED
      BY <2>4, <2>8, <2>10, <3>2 DEF Followed, Asking
  <2>12. Writes(rec, s, rec.row, {}, {}, before, picked)
    BY <1>4, <2>4, <2>8, <2>10, <2>11 DEF Writes, Early, Kept, Given, GivenAll, FirstPass,
       BeforeSource, Asking, TopicStates, AfterTopics, AfterSource, AfterVertical
  <2> QED
    BY <1>3, <2>6, <2>10, <2>12
<1> QED
  BY <1>7, <1>8, <1>9

\* the end of the choice of topics,
LEMMA TopicsDoneCommits ==
  ASSUME Typed, NEW r \in Requests, TopicsDone(r)
  PROVE  Commits(r)
<1>1. PICK rec \in Records : rec = req[r] /\ Proper(rec)
  BY DEF Typed
<1>2. rec.sess \in Sessions /\ rec.sess.data \in Data /\ rec.kind = "topics_done"
  BY <1>1 DEF Records, Sessions, TopicsDone, Serving
<1>3. PICK d : d = [NoData EXCEPT !.reentry = rec.sess.data.reentry,
                                  !.pending = rec.sess.data.selected]
  OBVIOUS
<1>4. /\ d \in Data /\ d.reentry = rec.sess.data.reentry
      /\ d.pending = rec.sess.data.selected
  BY <1>2, <1>3, IdleType DEF Data
<1>5. PICK s0 : s0 = [rec.sess EXCEPT !.data = d]
  OBVIOUS
<1>6. /\ s0 \in Sessions /\ s0.state = rec.sess.state /\ s0.merchant = rec.sess.merchant
      /\ s0.data = d
  BY <1>2, <1>4, <1>5 DEF Sessions
<1>7. PICK picked : picked = Elems(rec.sess.data.selected)
  OBVIOUS
<1>8. picked \in SUBSET Topics /\ DOMAIN rec.sess.data.selected = 1..Len(rec.sess.data.selected)
  BY <1>2, <1>7, LenProperties DEF Data, Elems
<1>9. AdvanceLoop(r, s0, picked)
  BY <1>1, <1>3, <1>5, <1>7, <1>8 DEF TopicsDone, Elems
<1>10. picked \subseteq s0.data.collected \cup Elems(s0.data.pending)
  BY <1>4, <1>6, <1>7
<1> QED
  BY <1>1, <1>2, <1>4, <1>6, <1>8, <1>9, <1>10, LoopCommits

\* an answered topic, or the end of the choice of ways to pay,
LEMMA AnswerCommits ==
  ASSUME Typed, NEW r \in Requests, TopicAnswer(r) \/ PaymentDone(r)
  PROVE  Commits(r)
<1>1. PICK rec \in Records : rec = req[r] /\ Proper(rec)
  BY DEF Typed
<1>2. /\ rec.sess \in Sessions /\ rec.sess.data \in Data /\ rec.user \in Users
      /\ rec.kind \in {"answer", "payment_done"} /\ rec.sess.state \in Asking
  BY <1>1 DEF Records, Sessions, TopicAnswer, PaymentDone, Serving, Proper, Asked, Opening, Asking
<1>3. PICK before \in SUBSET Topics : before = chosen[rec.user]
  BY <1>2 DEF Typed, TypeOK
<1>4. \E s0 \in Sessions :
        /\ AdvanceLoop(r, s0, before)
        /\ s0.state = rec.sess.state /\ s0.merchant = rec.sess.merchant
        /\ s0.data.reentry = rec.sess.data.reentry
        /\ s0.data.pending = rec.sess.data.pending
        /\ rec.sess.data.collected \subseteq s0.data.collected
        /\ \/ rec.sess.data.current \in s0.data.collected
           \/ rec.sess.state = "choosing_payment_methods" /\ Payment \in s0.data.collected
  <2>1. CASE TopicAnswer(r)
    <3>1. rec.sess.data.current \in Topics
      BY <1>1, <1>2, <2>1 DEF TopicAnswer, Data
    <3>2. PICK d : d = [rec.sess.data EXCEPT !.collected = @ \cup {rec.sess.data.current}]
      OBVIOUS
    <3>3. /\ d \in Data /\ d.reentry = rec.sess.data.reentry
          /\ d.pending = rec.sess.data.pending
          /\ d.collected = rec.sess.data.collected \cup {rec.sess.data.current}
      BY <1>2, <3>1, <3>2 DEF Data
    <3>4. PICK s0 : s0 = [rec.sess EXCEPT !.data = d]
      OBVIOUS
    <3>5. /\ s0 \in Sessions /\ s0.state = rec.sess.state /\ s0.merchant = rec.sess.merchant
          /\ s0.data = d
      BY <1>2, <3>3, <3>4 DEF Sessions
    <3>6. AdvanceLoop(r, s0, before)
      BY <1>1, <1>2, <1>3, <2>1, <3>2, <3>4 DEF TopicAnswer, Sessions
    <3> QED
      BY <3>3, <3>5, <3>6
  <2>2. CASE PaymentDone(r)
    <3>1. rec.sess.state = "choosing_payment_methods"
      BY <1>1, <2>2 DEF PaymentDone, Serving, Opening, Proper, Asked
    <3>2. PICK d : d = [rec.sess.data EXCEPT !.collected = @ \cup {Payment},
                                             !.current = None, !.methods = {}]
      OBVIOUS
    <3>3. /\ d \in Data /\ d.reentry = rec.sess.data.reentry
          /\ d.pending = rec.sess.data.pending
          /\ d.collected = rec.sess.data.collected \cup {Payment}
      BY <1>2, <3>2, OnboardingAssumption DEF Data
    <3>4. PICK s0 : s0 = [rec.sess EXCEPT !.data = d]
      OBVIOUS
    <3>5. /\ s0 \in Sessions /\ s0.state = rec.sess.state /\ s0.merchant = rec.sess.merchant
          /\ s0.data = d
      BY <1>2, <3>3, <3>4 DEF Sessions
    <3>6. AdvanceLoop(r, s0, before)
      <4>1. PICK s1 : s1 = [rec.sess EXCEPT !.data.collected = @ \cup {Payment},
                                            !.data.current = None, !.data.methods = {}]
        OBVIOUS
      <4>2. s1 = s0
        BY <1>2, <3>2, <3>4, <4>1 DEF Sessions, Data
      <4>3. AdvanceLoop(r, s1, before)
        BY <1>1, <1>3, <2>2, <4>1 DEF PaymentDone
      <4> QED
        BY <4>2, <4>3
    <3> QED
      BY <3>1, <3>3, <3>5, <3>6
  <2> QED
    BY <2>1, <2>2
<1>5. PICK s0 \in Sessions :
        /\ AdvanceLoop(r, s0, before)
        /\ s0.state = rec.sess.state /\ s0.merchant = rec.sess.merchant
        /\ s0.data.reentry = rec.sess.data.reentry
        /\ s0.data.pending = rec.sess.data.pending
        /\ rec.sess.data.collected \subseteq s0.data.collected
        /\ \/ rec.sess.data.current \in s0.data.collected
           \/ rec.sess.state = "choosing_payment_methods" /\ Payment \in s0.data.collected
  BY <1>4
<1>6. ASSUME NEW answered, Followed(rec.sess, before, answered)
      PROVE  before \subseteq s0.data.collected \cup Elems(s0.data.pending)
  BY <1>2, <1>5, <1>6 DEF Followed, Awaited
<1> QED
  BY <1>1, <1>2, <1>3, <1>5, <1>6, LoopCommits

\* and a tap on the settings menu.
LEMMA SettingCommits ==
  ASSUME Typed, NEW r \in Requests, SettingPick(r)
  PROVE  Commits(r)
<1>1. PICK rec \in Records : rec = req[r] /\ Proper(rec)
  BY DEF Typed
<1>2. rec.sess \in Sessions /\ rec.row \in Rows /\ rec.kind = "settings" /\ rec.arg \in Targets
  BY <1>1 DEF Records, SettingPick, Serving, Proper
<1>3. PICK state : state = ReentryState[rec.arg]
  OBVIOUS
<1>4. /\ state \in BeforeSource \cup {"choosing_faq_topics", "awaiting_hours", "choosing_tone"}
      /\ state = "choosing_faq_topics" => rec.arg = "faq_topics"
  BY <1>2, <1>3, OnboardingAssumption DEF ReentryState, BeforeSource
<1>5. PICK d : d = [NoData EXCEPT !.reentry = TRUE]
  OBVIOUS
<1>6. d \in Data /\ d.reentry
  BY <1>5, IdleType DEF Data
<1>7. PICK s : s = [rec.sess EXCEPT !.state = state, !.data = d]
  OBVIOUS
<1>8. s \in Sessions /\ s.state = state /\ s.merchant = rec.sess.merchant /\ s.data = d
  BY <1>2, <1>4, <1>6, <1>7, StateNames DEF Sessions, BeforeSource
<1>9. PICK marks : marks = (IF rec.sess.state = "done" THEN {} ELSE {"jumped"}) \cup
                           (IF rec.arg = "faq_topics" THEN {"reentered"} ELSE {})
  OBVIOUS
<1>10. /\ marks \in SUBSET Marks /\ (rec.arg = "faq_topics" => "reentered" \in marks)
       /\ ("jumped" \notin marks => rec.sess.state = "done")
  BY <1>9 DEF Marks
<1>11. Save(r, s, rec.row, {}, marks) /\ UNCHANGED <<admins, taps, chosen>>
  BY <1>1, <1>3, <1>5, <1>7, <1>9 DEF SettingPick
<1>12. Writes(rec, s, rec.row, {}, marks, chosen[rec.user], chosen[rec.user])
  BY <1>4, <1>6, <1>8, <1>10 DEF Writes, Early, Kept, Given, GivenAll, Followed, FirstPass,
     BeforeSource, Asking, TopicStates, AfterTopics, AfterSource, AfterVertical
<1>13. chosen' \in [Users -> SUBSET Topics]
  BY <1>11 DEF Typed, TypeOK
<1> QED
  BY <1>1, <1>2, <1>8, <1>10, <1>11, <1>12, <1>13 DEF Commits, LaterKinds

-----------------------------------------------------------------------------
(* The steps, and type correctness.                                         *)

\* A request of an idle thread loads its rows: an update of user u, with merchant m
\* (for /start, see Opens).
Loaded(r, u, kind, arg, m) ==
  /\ req[r] = Idle
  /\ req' = [req EXCEPT ![r] = [kind |-> kind, user |-> u, arg |-> arg,
               sess |-> session[u], merchant |-> m, row |-> Row(m), late |-> 0]]
  /\ \/ /\ kind \notin Opening \cup {"idle", "attach", "settings"}
        /\ Asked(kind, session[u].state)
        /\ m = session[u].merchant /\ arg \in Choices(kind)
     \/ /\ kind = "settings" /\ admins[u] # None /\ m = session[u].merchant
        /\ arg \in Targets /\ taps[u] < MaxTaps
  /\ taps' = IF kind = "settings" THEN [taps EXCEPT ![u] = @ + 1] ELSE taps
  /\ UNCHANGED <<cast, session, merchants, admins, faqs, chosen, past>>

Loads(r) ==
  \E u \in Users, kind \in Kinds, arg \in Args, m \in Merchants \cup {None} :
    Loaded(r, u, kind, arg, m)

\* One of the loads of /start: the admin, the link's merchant, the session.
Opens(r) ==
  \/ \E u \in Users, link \in Links \cup {None} : ReceiveStart(r, u, link)
  \/ FindLink(r)
  \/ LoadStart(r)

\* The arguments of every kind.
LEMMA ChoicesArgs == \A kind \in Kinds : Choices(kind) \subseteq Args
<1>1. Links \cup Bots = Merchants
  BY DEF Merchants
<1> QED
  BY <1>1 DEF Choices, Args

\* What a step of the system does.
LEMMA StepCases ==
  ASSUME Typed, Next
  PROVE  \E r \in Requests :
           \/ Loads(r) \/ Opens(r) \/ CheckBot(r) \/ EndWithoutEffect(r)
           \/ Start(r) \/ LanguagePick(r) \/ AttachBot(r) \/ Commits(r)
<1>1. PICK r \in Requests :
        \/ Serve(r)
        \/ \E u \in cast.users :
             \/ \E link \in cast.links \cup {None} : ReceiveStart(r, u, link)
             \/ \E kind \in Accepts[session[u].state] :
                  \E arg \in Choices(kind) : Receive(r, u, kind, arg)
             \/ \E target \in Targets : ReceiveSetting(r, u, target)
  BY DEF Next
<1>2. cast.users \subseteq Users /\ cast.links \subseteq Links
  BY OnboardingAssumption DEF Typed, TypeOK
<1>3. \A u \in Users : session[u] \in Sessions /\ session[u].state \in States
                       /\ session[u].merchant \in Merchants \cup {None}
  BY DEF Typed, TypeOK, Sessions
<1>4. ASSUME NEW u \in Users, NEW link \in Links \cup {None}, ReceiveStart(r, u, link)
      PROVE  Opens(r)
  BY <1>4 DEF Opens
<1>5. ASSUME NEW u \in Users, NEW kind \in Accepts[session[u].state], NEW arg \in Choices(kind),
             Receive(r, u, kind, arg)
      PROVE  Loads(r)
  <2>1. /\ kind \in Kinds \ (Opening \cup {"idle", "attach", "settings"})
        /\ Asked(kind, session[u].state)
    BY <1>3, AcceptedAsked
  <2>2. arg \in Args
    BY <2>1, ChoicesArgs
  <2> QED
    BY <1>3, <1>5, <2>1, <2>2 DEF Receive, Load, Loads, Loaded
<1>6. ASSUME NEW u \in Users, NEW target \in Targets, ReceiveSetting(r, u, target)
      PROVE  Loads(r)
  <2>1. target \in Args /\ "settings" \in Kinds
    BY DEF Args, Kinds, LaterKinds
  <2> QED
    BY <1>3, <1>6, <2>1 DEF ReceiveSetting, Load, Loads, Loaded
<1>7. ASSUME Serve(r)
      PROVE  \/ Opens(r) \/ CheckBot(r) \/ EndWithoutEffect(r)
             \/ Start(r) \/ LanguagePick(r) \/ AttachBot(r) \/ Commits(r)
  BY <1>7, ShopNameCommits, VerticalCommits, SourceCommits, DescriptionCommits, ToggleCommits,
     TopicsDoneCommits, AnswerCommits, HoursCommits, ToneCommits, SettingCommits DEF Serve, Opens
<1> QED
  BY <1>1, <1>2, <1>4, <1>5, <1>6, <1>7

\* What a request loads is typed and proper.
LEMMA LoadTyped ==
  ASSUME Typed, NEW r \in Requests, Loads(r)
  PROVE  Typed'
<1>0. PICK u \in Users, kind \in Kinds, arg \in Args, m \in Merchants \cup {None} :
        Loaded(r, u, kind, arg, m)
  BY DEF Loads
<1>1. /\ req' = [req EXCEPT ![r] = [kind |-> kind, user |-> u, arg |-> arg,
                   sess |-> session[u], merchant |-> m, row |-> Row(m), late |-> 0]]
      /\ \/ /\ kind \notin Opening \cup {"idle", "attach", "settings"}
            /\ Asked(kind, session[u].state)
            /\ m = session[u].merchant /\ arg \in Choices(kind)
         \/ /\ kind = "settings" /\ m = session[u].merchant
            /\ arg \in Targets /\ taps[u] < MaxTaps
      /\ taps' = IF kind = "settings" THEN [taps EXCEPT ![u] = @ + 1] ELSE taps
      /\ UNCHANGED <<cast, session, merchants, admins, faqs, chosen, past>>
  BY <1>0 DEF Loaded
<1>2. Row(m) \in Rows
  BY IdleType DEF Row, Typed, TypeOK
<1>3. PICK rec : rec = [kind |-> kind, user |-> u, arg |-> arg, sess |-> session[u],
                        merchant |-> m, row |-> Row(m), late |-> 0]
  OBVIOUS
<1>4. session[u] \in Sessions /\ 0 \in 0..MaxLate
  BY OnboardingAssumption DEF Typed, TypeOK
<1>5. /\ rec \in Records /\ rec.kind = kind /\ rec.user = u /\ rec.arg = arg
      /\ rec.sess = session[u] /\ rec.merchant = m
  BY <1>2, <1>3, <1>4 DEF Records
<1>6. Proper(rec)
  <2>1. CASE kind = "settings"
    BY <1>1, <1>5, <2>1 DEF Proper, Opening
  <2>2. CASE kind # "settings"
    BY <1>1, <1>5, <2>2 DEF Proper, Choices
  <2> QED
    BY <2>1, <2>2
<1>7. req' = [req EXCEPT ![r] = rec] /\ req \in [Requests -> Records]
  BY <1>1, <1>3 DEF Typed
<1>8. req' \in [Requests -> Records] /\ \A q \in Requests : Proper(req'[q])
  BY <1>5, <1>6, <1>7 DEF Typed
<1>9. taps' \in [Users -> 0..MaxTaps]
  BY <1>1, OnboardingAssumption DEF Typed, TypeOK
<1>10. TypeOK'
  BY <1>1, <1>8, <1>9 DEF Typed, TypeOK, Records
<1> QED
  BY <1>8, <1>10 DEF Typed

\* A step that changes requests only.
LEMMA RequestTyped ==
  ASSUME Typed, UNCHANGED <<cast, session, merchants, admins, faqs, taps, chosen, past>>,
         NEW r \in Requests, NEW rec \in Records, Proper(rec), req' = [req EXCEPT ![r] = rec]
  PROVE  Typed'
<1>1. req' \in [Requests -> Records] /\ \A q \in Requests : Proper(req'[q])
  BY DEF Typed
<1>2. TypeOK'
  BY <1>1 DEF Typed, TypeOK, Records
<1> QED
  BY <1>1, <1>2 DEF Typed

\* Each load of /start goes on with the link it came with.
LEMMA OpensFacts ==
  ASSUME Typed, NEW r \in Requests, Opens(r)
  PROVE  \E rec \in Records :
           /\ Proper(rec) /\ rec.kind \in Opening
           /\ req' = [req EXCEPT ![r] = rec]
           /\ UNCHANGED <<cast, session, merchants, admins, faqs, taps, chosen, past>>
<1>1. PICK old \in Records : old = req[r] /\ Proper(old) /\ req \in [Requests -> Records]
  BY DEF Typed
<1>2. CASE \E u \in Users, link \in Links \cup {None} : ReceiveStart(r, u, link)
  <2>1. PICK u \in Users, link \in Links \cup {None} : ReceiveStart(r, u, link)
    BY <1>2
  <2>2. PICK rec : rec = [Idle EXCEPT !.kind = "greet", !.user = u, !.arg = link]
    OBVIOUS
  <2>3. link \in Args
    BY DEF Args, Merchants
  <2>4. rec \in Records /\ rec.kind = "greet" /\ rec.user = u /\ rec.arg = link
    BY <2>2, <2>3, IdleType DEF Records, Kinds, Opening
  <2>5. Proper(rec)
    BY <2>4 DEF Proper, Opening, LaterKinds
  <2> QED
    BY <2>1, <2>2, <2>4, <2>5 DEF ReceiveStart, Opening
<1>3. CASE FindLink(r)
  <2>1. PICK row : row = Row(old.arg)
    OBVIOUS
  <2>2. old.kind = "greet" /\ old.arg \in Links \cup {None} /\ old.arg # None /\ old.user \in Users
    BY <1>1, <1>3 DEF FindLink, Proper, Opening
  <2>3. old.arg \in Merchants /\ row \in Rows
    BY <2>1, <2>2 DEF Merchants, Row, Typed, TypeOK
  <2>4. PICK rec : rec = [old EXCEPT !.kind = "found", !.merchant = old.arg, !.row = row]
    OBVIOUS
  <2>5. rec \in Records /\ rec.kind = "found" /\ rec.user = old.user /\ rec.arg = old.arg
    BY <2>3, <2>4 DEF Records, Kinds, Opening
  <2>6. Proper(rec)
    BY <2>2, <2>5 DEF Proper, Opening, LaterKinds
  <2>7. req' = [req EXCEPT ![r] = rec]
    <3>1. req' = [req EXCEPT ![r].kind = "found", ![r].merchant = old.arg, ![r].row = row]
      BY <1>1, <1>3, <2>1 DEF FindLink
    <3> QED
      BY <1>1, <2>4, <3>1 DEF Records
  <2> QED
    BY <1>3, <2>5, <2>6, <2>7 DEF FindLink, Opening
<1>4. CASE LoadStart(r)
  <2>1. old.kind \in {"greet", "found"}
    BY <1>1, <1>4 DEF LoadStart
  <2>2. old.user \in Users /\ old.arg \in Links \cup {None}
    BY <1>1, <2>1 DEF Proper, Opening
  <2>3. session[old.user] \in Sessions
    BY <2>2 DEF Typed, TypeOK
  <2>4. PICK rec : rec = [old EXCEPT !.kind = "start", !.sess = session[old.user]]
    OBVIOUS
  <2>5. rec \in Records /\ rec.kind = "start" /\ rec.user = old.user /\ rec.arg = old.arg
    BY <2>3, <2>4 DEF Records, Kinds, Opening
  <2>6. Proper(rec)
    BY <2>2, <2>5 DEF Proper, Opening, LaterKinds
  <2>7. req' = [req EXCEPT ![r] = rec]
    <3>1. req' = [req EXCEPT ![r].kind = "start", ![r].sess = session[old.user]]
      BY <1>1, <1>4 DEF LoadStart
    <3> QED
      BY <1>1, <2>4, <3>1 DEF Records
  <2> QED
    BY <1>4, <2>5, <2>6, <2>7 DEF LoadStart, Opening
<1> QED
  BY <1>2, <1>3, <1>4 DEF Opens

\* After getMe the request goes on with a merchant without a bot.
LEMMA CheckBotFacts ==
  ASSUME Typed, NEW r \in Requests, CheckBot(r)
  PROVE  \E rec \in Records :
           /\ Proper(rec) /\ rec.kind = "attach" /\ rec.user = req[r].user
           /\ req' = [req EXCEPT ![r] = rec]
           /\ UNCHANGED <<cast, session, merchants, admins, faqs, taps, chosen, past>>
<1>1. PICK old \in Records : old = req[r] /\ Proper(old)
  BY DEF Typed
<1>2. /\ old.kind = "token" /\ old.sess.state = "awaiting_token" /\ old.user \in Users
      /\ old.arg \in Bots /\ old.sess \in Sessions
      /\ old.sess.merchant \in Merchants \cup {None}
  BY <1>1 DEF CheckBot, Proper, Asked, Opening, Records, Sessions, Opening
<1>3. PICK m : m = IF old.sess.merchant = None THEN old.arg ELSE old.sess.merchant
  OBVIOUS
<1>4. PICK row : row = Row(old.sess.merchant)
  OBVIOUS
<1>5. m \in Merchants /\ row \in Rows /\ row.bot = None
  <2>1. m \in Merchants
    BY <1>2, <1>3 DEF Merchants
  <2>2. row \in Rows
    BY <1>2, <1>4, IdleType DEF Row, Typed, TypeOK
  <2> QED
    BY <1>1, <1>4, <2>1, <2>2 DEF CheckBot
<1>6. PICK rec : rec = [old EXCEPT !.kind = "attach", !.merchant = m, !.row = row]
  OBVIOUS
<1>7. /\ rec \in Records /\ rec.kind = "attach" /\ rec.user = old.user /\ rec.arg = old.arg
      /\ rec.sess = old.sess /\ rec.merchant = m /\ rec.row = row
  BY <1>5, <1>6 DEF Records, Kinds
<1>8. Proper(rec)
  BY <1>2, <1>3, <1>5, <1>7 DEF Proper, Asked, Opening, LaterKinds, Opening
<1>9. req' = [req EXCEPT ![r] = rec]
  <2>1. req \in [Requests -> Records]
    BY DEF Typed
  <2>2. req' = [req EXCEPT ![r].kind = "attach", ![r].merchant = m, ![r].row = row]
    BY <1>1, <1>3, <1>4 DEF CheckBot
  <2>3. PICK f : f = [req EXCEPT ![r] = rec]
    OBVIOUS
  <2>4. req' = f
    BY <1>1, <1>6, <2>1, <2>2, <2>3 DEF Records
  <2> QED
    BY <2>3, <2>4
<1> QED
  BY <1>1, <1>7, <1>8, <1>9 DEF CheckBot

\* A user who is no admin has not gone past the token step, whatever overlapped,
\* and only an admin has requests of the dialogue in progress.
Young ==
  /\ \A u \in Users : admins[u] = None =>
       session[u].state \in Early /\ session[u].data = NoData /\ chosen[u] = {}
  /\ \A r \in Requests : req[r].kind \in LaterKinds => admins[req[r].user] # None

\* A step that writes no row: one request loads its rows, goes on, or ends.
Reads(r) ==
  /\ UNCHANGED <<session, merchants, admins, faqs, chosen, past>>
  /\ \A q \in Requests \ {r} : req'[q] = req[q]
  /\ req'[r].kind \in LaterKinds =>
       /\ req'[r].user \in Users /\ admins[req'[r].user] # None
       /\ req'[r].sess = session[req'[r].user]
       /\ req'[r].merchant = session[req'[r].user].merchant
       /\ req'[r].row = Row(session[req'[r].user].merchant)

\* The commit of /start or of the language: the session is before the token step.
Greets(r) ==
  \E s \in Sessions :
    /\ Save(r, s, req[r].row, {}, {})
    /\ req[r].kind \in {"start", "lang"}
    /\ s.state \in Early /\ s.data \in {NoData, req[r].sess.data}
    /\ UNCHANGED <<admins, taps, chosen>>

\* The commit of a token: the user becomes the admin of a merchant that, as far as
\* the request knows, had no bot.
Attaches(r) ==
  \E s \in Sessions, row \in Rows :
    /\ Save(r, s, row, {}, {})
    /\ req[r].kind = "attach" /\ req[r].row.bot = None /\ row.bot # None
    /\ req[r].merchant \in Merchants /\ req[r].merchant # None
    /\ req[r].sess.state = "awaiting_token"
    /\ s.state = "awaiting_shop_name" /\ s.merchant = req[r].merchant
    /\ s.data = req[r].sess.data
    /\ admins[req[r].user] = None
    /\ admins' = [admins EXCEPT ![req[r].user] = req[r].merchant]
    /\ UNCHANGED <<taps, chosen>>

\* A merchant is never the absence of one.
LEMMA NoMerchantIsNone == None \notin Merchants
BY OnboardingAssumption

\* Loading an update fills a request and writes no row.
LEMMA LoadReads ==
  ASSUME Typed, Young, NEW r \in Requests, Loads(r)
  PROVE  Reads(r)
<1>1. PICK u \in Users, kind \in Kinds, arg \in Args, m \in Merchants \cup {None} :
        Loaded(r, u, kind, arg, m)
  BY DEF Loads
<1>2. PICK rec : rec = [kind |-> kind, user |-> u, arg |-> arg, sess |-> session[u],
                        merchant |-> m, row |-> Row(m), late |-> 0]
  OBVIOUS
<1>3. /\ rec.kind = kind /\ rec.user = u /\ rec.sess = session[u] /\ rec.merchant = m
      /\ rec.row = Row(m)
  BY <1>2
<1>4. /\ req'[r] = rec /\ \A q \in Requests \ {r} : req'[q] = req[q]
      /\ UNCHANGED <<session, merchants, admins, faqs, chosen, past>>
  BY <1>1, <1>2 DEF Loaded, Typed
<1>5. kind \in LaterKinds => m = session[u].merchant /\ admins[u] # None
  BY <1>1 DEF Loaded, LaterKinds, Opening, Asked, Young, Early
<1> QED
  BY <1>3, <1>4, <1>5 DEF Reads

\* The loads of /start write no row.
LEMMA OpenReads ==
  ASSUME Typed, NEW r \in Requests, Opens(r)
  PROVE  Reads(r)
<1>1. PICK rec \in Records :
        /\ rec.kind \in Opening /\ req' = [req EXCEPT ![r] = rec]
        /\ UNCHANGED <<cast, session, merchants, admins, faqs, taps, chosen, past>>
  BY OpensFacts
<1>2. req'[r] = rec /\ \A q \in Requests \ {r} : req'[q] = req[q]
  BY <1>1 DEF Typed
<1> QED
  BY <1>1, <1>2 DEF Reads, LaterKinds, Opening

\* getMe and the load of the merchant write no row.
LEMMA CheckBotReads ==
  ASSUME Typed, NEW r \in Requests, CheckBot(r)
  PROVE  Reads(r)
<1>1. PICK rec \in Records :
        /\ rec.kind = "attach" /\ req' = [req EXCEPT ![r] = rec]
        /\ UNCHANGED <<cast, session, merchants, admins, faqs, taps, chosen, past>>
  BY CheckBotFacts
<1>2. req'[r] = rec /\ \A q \in Requests \ {r} : req'[q] = req[q]
  BY <1>1 DEF Typed
<1> QED
  BY <1>1, <1>2 DEF Reads, LaterKinds

\* A request that ends without effect writes no row.
LEMMA EndReads ==
  ASSUME Typed, NEW r \in Requests, EndWithoutEffect(r)
  PROVE  Reads(r)
<1>1. req'[r] = Idle /\ \A q \in Requests \ {r} : req'[q] = req[q]
  BY DEF EndWithoutEffect, Typed
<1>2. Idle.kind \notin LaterKinds
  BY DEF Idle, LaterKinds
<1> QED
  BY <1>1, <1>2 DEF Reads, EndWithoutEffect

\* /start and the choice of a language write a session and no merchant.
LEMMA StartGreets ==
  ASSUME Typed, NEW r \in Requests, Start(r) \/ LanguagePick(r)
  PROVE  Greets(r)
<1>1. PICK rec \in Records : rec = req[r] /\ Proper(rec)
  BY DEF Typed
<1>2. rec.sess \in Sessions
  BY <1>1 DEF Records
<1>3. CASE Start(r)
  <2>1. PICK s : s = [state |-> "start", merchant |-> rec.arg, data |-> NoData]
    OBVIOUS
  <2>2. rec.kind = "start" /\ SaveStep(r, s, rec.row)
    BY <1>1, <1>3, <2>1 DEF Start, Serving
  <2>3. rec.arg \in Merchants \cup {None}
    BY <1>1, <2>2 DEF Proper, Merchants, Opening
  <2>4. s \in Sessions /\ s.state = "start" /\ s.data = NoData
    BY <2>1, <2>3, IdleType, StateNames DEF Sessions
  <2> QED
    BY <1>1, <2>2, <2>3, <2>4 DEF Greets, SaveStep, Early
<1>4. CASE LanguagePick(r)
  <2>1. PICK s : s = [rec.sess EXCEPT !.state = "awaiting_token"]
    OBVIOUS
  <2>2. rec.kind = "lang" /\ SaveStep(r, s, rec.row)
    BY <1>1, <1>4, <2>1 DEF LanguagePick, Serving
  <2>3. s \in Sessions /\ s.state = "awaiting_token" /\ s.data = rec.sess.data
    BY <1>2, <2>1, StateNames DEF Sessions
  <2> QED
    BY <1>1, <2>2, <2>3 DEF Greets, SaveStep, Early
<1> QED
  BY <1>3, <1>4

\* A pasted token connects the user to one merchant, at most.
LEMMA AttachBotAttaches ==
  ASSUME Typed, NEW r \in Requests, AttachBot(r)
  PROVE  Attaches(r)
<1>1. PICK rec \in Records : rec = req[r] /\ Proper(rec)
  BY DEF Typed
<1>2. rec.kind = "attach"
  BY <1>1 DEF AttachBot, Serving
<1>3. /\ rec.sess \in Sessions /\ rec.row \in Rows /\ rec.arg \in Bots /\ rec.merchant \in Merchants
      /\ rec.row.bot = None /\ rec.sess.state = "awaiting_token"
  BY <1>1, <1>2 DEF Records, Proper, Asked, Opening
<1>4. PICK s, key, row : /\ s = [rec.sess EXCEPT !.state = "awaiting_shop_name",
                                                 !.merchant = rec.merchant]
                         /\ key = WithKey(rec.row, "telegram_bot_username")
                         /\ row = [key EXCEPT !.bot = rec.arg]
  OBVIOUS
<1>5. /\ s \in Sessions /\ s.state = "awaiting_shop_name" /\ s.merchant = rec.merchant
      /\ s.data = rec.sess.data
  BY <1>3, <1>4, StateNames DEF Sessions
<1>6. key \in Rows
  BY <1>3, <1>4, KeyFacts DEF Keys
<1>7. row \in Rows /\ row.bot = rec.arg
  BY <1>3, <1>4, <1>6 DEF Rows
<1>8. rec.arg # None /\ rec.merchant # None
  BY <1>3, NoMerchantIsNone DEF Merchants
<1>9. /\ Save(r, s, row, {}, {}) /\ UNCHANGED <<taps, chosen>>
      /\ admins[rec.user] = None /\ admins' = [admins EXCEPT ![rec.user] = rec.merchant]
  BY <1>1, <1>4 DEF AttachBot
<1> QED
  BY <1>1, <1>2, <1>3, <1>5, <1>7, <1>8, <1>9 DEF Attaches

\* Every step reads, greets, connects, or commits a step of the dialogue.
LEMMA StepKinds ==
  ASSUME Typed, Young, Next
  PROVE  \E r \in Requests : Reads(r) \/ Greets(r) \/ Attaches(r) \/ Commits(r)
<1>1. PICK r \in Requests :
        \/ Loads(r) \/ Opens(r) \/ CheckBot(r) \/ EndWithoutEffect(r)
        \/ Start(r) \/ LanguagePick(r) \/ AttachBot(r) \/ Commits(r)
  BY StepCases
<1> QED
  BY <1>1, LoadReads, OpenReads, CheckBotReads, EndReads, StartGreets, AttachBotAttaches

\* Every step keeps every variable in its type.
LEMMA TypedStep ==
  ASSUME Typed, Young, [Next]_vars
  PROVE  Typed'
<1>1. CASE UNCHANGED vars
  BY <1>1 DEF vars, Typed, TypeOK
<1>2. CASE Next
  <2>1. PICK r \in Requests :
          \/ Loads(r) \/ Opens(r) \/ CheckBot(r) \/ EndWithoutEffect(r)
          \/ Start(r) \/ LanguagePick(r) \/ AttachBot(r) \/ Commits(r)
    BY <1>2, StepCases
  <2>2. /\ admins \in [Users -> Merchants \cup {None}] /\ chosen \in [Users -> SUBSET Topics]
        /\ req[r] \in Records /\ {} \in SUBSET Marks
    BY DEF Typed, TypeOK
  <2>3. CASE Loads(r)
    BY <2>3, LoadTyped
  <2>4. CASE Opens(r) \/ CheckBot(r)
    BY <2>4, OpensFacts, CheckBotFacts, RequestTyped
  <2>5. CASE EndWithoutEffect(r)
    BY <2>5, IdleType, RequestTyped DEF EndWithoutEffect
  <2>6. CASE Start(r) \/ LanguagePick(r)
    <3>1. PICK s \in Sessions : /\ Save(r, s, req[r].row, {}, {}) /\ req[r].kind # "idle"
                                /\ UNCHANGED <<admins, taps, chosen>>
      BY <2>6, StartGreets DEF Greets
    <3>2. req[r].row \in Rows
      BY <2>2 DEF Records
    <3> QED
      BY <2>2, <3>1, <3>2, SaveTyped
  <2>7. CASE AttachBot(r)
    <3>1. PICK s \in Sessions, row \in Rows :
            /\ Save(r, s, row, {}, {}) /\ req[r].kind # "idle"
            /\ req[r].merchant \in Merchants
            /\ admins' = [admins EXCEPT ![req[r].user] = req[r].merchant]
            /\ UNCHANGED <<taps, chosen>>
      BY <2>7, AttachBotAttaches DEF Attaches
    <3>2. admins' \in [Users -> Merchants \cup {None}]
      BY <2>2, <3>1
    <3> QED
      BY <2>2, <3>1, <3>2, SaveTyped
  <2>8. CASE Commits(r)
    <3>1. PICK s \in Sessions, row \in Rows, topics \in SUBSET Topics, marks \in SUBSET Marks :
            /\ Save(r, s, row, topics, marks) /\ req[r].kind \in LaterKinds
            /\ UNCHANGED <<admins, taps>> /\ chosen' \in [Users -> SUBSET Topics]
      BY <2>8 DEF Commits
    <3>2. req[r].kind # "idle"
      BY <3>1 DEF LaterKinds
    <3> QED
      BY <2>2, <3>1, <3>2, SaveTyped
  <2> QED
    BY <2>1, <2>3, <2>4, <2>5, <2>6, <2>7, <2>8
<1> QED
  BY <1>1, <1>2

\* Who is no admin stays before the token step: only the commit that makes the user
\* an admin moves the session past it.
LEMMA YoungStep ==
  ASSUME Typed, Young, [Next]_vars
  PROVE  Young'
<1>1. CASE UNCHANGED vars
  BY <1>1 DEF vars, Young
<1>2. CASE Next
  <2>1. PICK r \in Requests : Reads(r) \/ Greets(r) \/ Attaches(r) \/ Commits(r)
    BY <1>2, StepKinds
  <2>2. PICK u : u = req[r].user
    OBVIOUS
  <2>3. \A q \in Requests : req[q] \in Records /\ Proper(req[q])
    BY DEF Typed
  <2>4. \A v \in Users : session[v] \in Sessions
    BY DEF Typed, TypeOK
  <2>5. CASE Reads(r)
    BY <2>5 DEF Reads, Young
  <2>6. ASSUME NEW s \in Sessions, NEW row \in Rows, NEW topics, NEW marks, req[r].kind # "idle",
               Save(r, s, row, topics, marks), \A v \in Users : admins[v] # None => admins'[v] # None
        PROVE  \A q \in Requests : req'[q].kind \in LaterKinds => admins'[req'[q].user] # None
    <3>1. req'[r] = Idle /\ \A q \in Requests \ {r} : Same(req'[q], req[q])
      BY <2>6, SaveRequests
    <3>2. \A q \in Requests : req[q].kind \in LaterKinds => req[q].user \in Users
      BY <2>3 DEF Proper, LaterKinds
    <3> QED
      BY <2>6, <3>1, <3>2 DEF Young, Same, Idle, LaterKinds
  <2>7. CASE Greets(r)
    <3>1. PICK s \in Sessions :
            /\ Save(r, s, req[r].row, {}, {}) /\ req[r].kind # "idle"
            /\ s.state \in Early /\ s.data \in {NoData, req[r].sess.data}
            /\ UNCHANGED <<admins, taps, chosen>>
      BY <2>7 DEF Greets
    <3>2. req[r].row \in Rows /\ req[r].sess \in Sessions
      BY <2>3 DEF Records
    <3>3. /\ u \in Users /\ \A v \in Users \ {u} : session'[v] = session[v]
          /\ session'[u] = Merge(session[u], req[r].sess, s)
      BY <2>2, <3>1, SaveSession
    <3>4. /\ session'[u].state \in {session[u].state, s.state}
          /\ session'[u].data \in {session[u].data, NoData}
      BY <2>4, <3>1, <3>2, <3>3, MergeSession
    <3> QED
      BY <2>6, <3>1, <3>2, <3>3, <3>4 DEF Young
  <2>8. CASE Attaches(r)
    <3>1. PICK s \in Sessions, row \in Rows :
            /\ Save(r, s, row, {}, {}) /\ req[r].kind # "idle"
            /\ req[r].merchant # None
            /\ admins' = [admins EXCEPT ![u] = req[r].merchant]
            /\ UNCHANGED <<taps, chosen>>
      BY <2>2, <2>8 DEF Attaches
    <3>2. u \in Users /\ \A v \in Users \ {u} : session'[v] = session[v]
      BY <2>2, <3>1, SaveSession
    <3>3. /\ admins'[u] # None /\ \A v \in Users \ {u} : admins'[v] = admins[v]
          /\ \A v \in Users : admins[v] # None => admins'[v] # None
      BY <3>1, <3>2 DEF Typed, TypeOK
    <3> QED
      BY <2>6, <3>1, <3>2, <3>3 DEF Young
  <2>9. CASE Commits(r)
    <3>1. PICK s \in Sessions, row \in Rows, topics \in SUBSET Topics, marks \in SUBSET Marks :
            /\ Save(r, s, row, topics, marks) /\ req[r].kind \in LaterKinds
            /\ UNCHANGED <<admins, taps>>
            /\ \A v \in Users \ {u} : chosen'[v] = chosen[v]
      BY <2>2, <2>9 DEF Commits
    <3>2. req[r].kind # "idle"
      BY <3>1 DEF LaterKinds
    <3>3. u \in Users /\ \A v \in Users \ {u} : session'[v] = session[v]
      BY <2>2, <3>1, <3>2, SaveSession
    <3>4. admins[u] # None
      BY <2>2, <3>1 DEF Young
    <3> QED
      BY <2>6, <3>1, <3>2, <3>3, <3>4 DEF Young
  <2> QED
    BY <2>1, <2>5, <2>7, <2>8, <2>9
<1> QED
  BY <1>1, <1>2

\* Nothing is stored and nothing is under way at first.
LEMMA TypedInit == Init => Typed /\ Young
<1> SUFFICES ASSUME Init PROVE Typed /\ Young
  OBVIOUS
<1>1. /\ session \in [Users -> Sessions] /\ merchants \in [Merchants -> Rows]
      /\ admins \in [Users -> Merchants \cup {None}]
      /\ faqs \in [Merchants -> [Topics -> 0..2]]
      /\ taps \in [Users -> 0..MaxTaps]
      /\ chosen \in [Users -> SUBSET Topics]
      /\ past \in [Users -> SUBSET {"jumped", "reentered", "stale", "rebound"}]
  BY IdleType, OnboardingAssumption DEF Init
<1>2. \A r \in Requests : req[r] = Idle
  BY DEF Init
<1>3. req \in [Requests -> Records] /\ \A r \in Requests : Proper(req[r])
  BY <1>2, IdleType DEF Init
<1>4. TypeOK
  BY <1>1, <1>3 DEF TypeOK, Records, Init
<1>5. Young
  BY <1>2 DEF Young, Init, NoSession, Early, Idle, LaterKinds
<1> QED
  BY <1>3, <1>4, <1>5 DEF Typed

\* Type correctness of the onboarding: sessions, merchants, requests in progress and
\* history stay in their types in every reachable state.
THEOREM OnboardingTyped == Spec => []TypeOK
<1>1. Typed /\ Young /\ [Next]_vars => (Typed /\ Young)'
  BY TypedStep, YoungStep
<1>2. Typed => TypeOK
  BY DEF Typed
<1> QED
  BY <1>1, <1>2, TypedInit, PTL DEF Spec

-----------------------------------------------------------------------------
(* One connector per merchant.                                              *)

\* An admin's merchant has a bot.
HasBots == \A u \in Users : admins[u] # None => merchants[admins[u]].bot # None

\* A commit after which the user is not "stale" found the rows as it had loaded them,
\* and leaves what it computed.
LEMMA FreshCommit ==
  ASSUME Typed, NEW r \in Requests, req[r].kind # "idle",
         NEW s \in Sessions, NEW row \in Rows, NEW topics, NEW marks \in SUBSET Marks,
         Save(r, s, row, topics, marks), "stale" \notin past'[req[r].user]
  PROVE  /\ session[req[r].user] = req[r].sess /\ session'[req[r].user] = s
         /\ req[r].merchant # None => /\ merchants[req[r].merchant] = req[r].row
                                      /\ merchants'[req[r].merchant] = row
<1>1. ~Stale(r)
  BY SavePast
<1>2. session[req[r].user] = req[r].sess
  BY <1>1 DEF Stale
<1>3. req[r].merchant # None => merchants[req[r].merchant] = req[r].row
  BY <1>1 DEF Stale
<1>4. session'[req[r].user] = s
  BY <1>2, SaveSession
<1>5. req[r].merchant # None => merchants'[req[r].merchant] = row
  BY <1>3, SaveRow
<1> QED
  BY <1>2, <1>3, <1>4, <1>5

\* No commit takes a merchant's bot away.
LEMMA BotsStay ==
  ASSUME Typed, NEW r \in Requests, NEW s, NEW row \in Rows, NEW topics, NEW marks,
         Save(r, s, row, topics, marks), row.bot # None \/ row.bot = req[r].row.bot
  PROVE  /\ \A n \in Merchants : merchants[n].bot # None => merchants'[n].bot # None
         /\ req[r].merchant # None /\ row.bot # None /\ req[r].row.bot = None =>
              merchants'[req[r].merchant].bot # None
<1>1. PICK m, old : /\ m = req[r].merchant /\ old = req[r].row
                    /\ m \in Merchants \cup {None} /\ old \in Rows
  BY DEF Typed, Records
<1>2. \A n \in Merchants : merchants[n] \in Rows
  BY DEF Typed, TypeOK
<1>3. /\ \A n \in Merchants : n # m => merchants'[n] = merchants[n]
      /\ m # None => merchants'[m] = Merge(merchants[m], old, row)
  BY <1>1, SaveRow
<1>4. m # None =>
        merchants'[m].bot = IF row.bot = old.bot THEN merchants[m].bot ELSE row.bot
  BY <1>1, <1>2, <1>3, MergeRow
<1> QED
  BY <1>1, <1>3, <1>4, NoMerchantIsNone

\* A merchant that has an admin keeps a bot.
LEMMA HasBotsStep ==
  ASSUME Typed, Young, HasBots, [Next]_vars
  PROVE  HasBots'
<1>0. admins \in [Users -> Merchants \cup {None}]
  BY DEF Typed, TypeOK
<1>1. CASE UNCHANGED vars
  BY <1>1 DEF vars, HasBots
<1>2. CASE Next
  <2>1. PICK r \in Requests : Reads(r) \/ Greets(r) \/ Attaches(r) \/ Commits(r)
    BY <1>2, StepKinds
  <2>2. CASE Reads(r)
    BY <2>2 DEF Reads, HasBots
  <2>3. CASE Greets(r)
    <3>1. PICK s \in Sessions : Save(r, s, req[r].row, {}, {}) /\ UNCHANGED admins
      BY <2>3 DEF Greets
    <3>2. req[r].row \in Rows
      BY DEF Typed, Records
    <3>3. \A n \in Merchants : merchants[n].bot # None => merchants'[n].bot # None
      BY <3>1, <3>2, BotsStay
    <3> QED
      BY <1>0, <3>1, <3>3 DEF HasBots
  <2>4. CASE Attaches(r)
    <3>1. PICK s \in Sessions, row \in Rows :
            /\ Save(r, s, row, {}, {}) /\ req[r].kind # "idle"
            /\ req[r].row.bot = None /\ row.bot # None
            /\ req[r].merchant # None
            /\ admins' = [admins EXCEPT ![req[r].user] = req[r].merchant]
      BY <2>4 DEF Attaches
    <3>2. /\ \A n \in Merchants : merchants[n].bot # None => merchants'[n].bot # None
          /\ merchants'[req[r].merchant].bot # None
      BY <3>1, BotsStay
    <3>3. \A v \in Users : admins'[v] = admins[v] \/ admins'[v] = req[r].merchant
      BY <1>0, <3>1
    <3> QED
      BY <1>0, <3>2, <3>3 DEF HasBots
  <2>5. CASE Commits(r)
    <3>1. PICK s \in Sessions, row \in Rows, topics \in SUBSET Topics, marks \in SUBSET Marks :
            /\ Save(r, s, row, topics, marks) /\ UNCHANGED admins
            /\ row.bot = req[r].row.bot
      BY <2>5 DEF Commits, Writes
    <3>2. \A n \in Merchants : merchants[n].bot # None => merchants'[n].bot # None
      BY <3>1, BotsStay
    <3> QED
      BY <1>0, <3>1, <3>2 DEF HasBots
  <2> QED
    BY <2>1, <2>2, <2>3, <2>4, <2>5
<1> QED
  BY <1>1, <1>2

\* The history only grows, and only with a commit.
LEMMA PastGrows ==
  ASSUME Typed, Young, [Next]_vars
  PROVE  \A v \in Users : past[v] \subseteq past'[v]
<1>1. CASE UNCHANGED vars
  BY <1>1 DEF vars
<1>2. CASE Next
  <2>1. PICK r \in Requests : Reads(r) \/ Greets(r) \/ Attaches(r) \/ Commits(r)
    BY <1>2, StepKinds
  <2>2. CASE Reads(r)
    BY <2>2 DEF Reads
  <2>3. CASE Greets(r) \/ Attaches(r) \/ Commits(r)
    <3>1. \E s, row, topics : \E marks \in SUBSET Marks :
            Save(r, s, row, topics, marks) /\ req[r].kind # "idle"
      <4>1. {} \in SUBSET Marks
        OBVIOUS
      <4>2. CASE Greets(r)
        BY <4>1, <4>2 DEF Greets
      <4>3. CASE Attaches(r)
        BY <4>1, <4>3 DEF Attaches
      <4>4. CASE Commits(r)
        BY <4>4 DEF Commits, LaterKinds
      <4> QED
        BY <2>3, <4>2, <4>3, <4>4
    <3> QED
      BY <3>1, SavePast
  <2> QED
    BY <2>1, <2>2, <2>3
<1> QED
  BY <1>1, <1>2

\* No step gives a merchant two connectors.
LEMMA OneConnectorStep ==
  ASSUME Typed, Young, HasBots, OneConnector, [Next]_vars
  PROVE  OneConnector'
<1>0. admins \in [Users -> Merchants \cup {None}]
  BY DEF Typed, TypeOK
<1>1. \A v \in Users : past[v] \subseteq past'[v]
  BY PastGrows
<1>2. CASE admins' = admins
  BY <1>1, <1>2 DEF OneConnector
<1>3. CASE admins' # admins
  <2>1. PICK r \in Requests : Attaches(r)
    <3>1. Next
      BY <1>3 DEF vars
    <3> QED
      BY <1>3, <3>1, StepKinds DEF Reads, Greets, Commits
  <2>2. PICK s \in Sessions, row \in Rows :
          /\ Save(r, s, row, {}, {}) /\ req[r].kind # "idle"
          /\ req[r].row.bot = None /\ req[r].merchant # None
          /\ admins' = [admins EXCEPT ![req[r].user] = req[r].merchant]
    BY <2>1 DEF Attaches
  <2>3. PICK u, m : u = req[r].user /\ m = req[r].merchant /\ u \in Users
    BY <2>2, SaveSession
  <2>4. CASE "stale" \in past'[u]
    BY <1>0, <1>1, <2>2, <2>3, <2>4 DEF OneConnector
  <2>5. CASE "stale" \notin past'[u]
    <3>1. {} \in SUBSET Marks
      OBVIOUS
    <3>2. merchants[m].bot = None
      BY <2>2, <2>3, <2>5, <3>1, FreshCommit
    <3>3. \A v \in Users : admins[v] # m
      BY <2>2, <2>3, <3>2 DEF HasBots
    <3> QED
      BY <1>0, <1>1, <2>2, <2>3, <3>3 DEF OneConnector
  <2> QED
    BY <2>4, <2>5
<1> QED
  BY <1>2, <1>3

\* Nobody is connected at first.
LEMMA ConnectorInit == Init => HasBots /\ OneConnector
BY DEF Init, HasBots, OneConnector

\* Whoever else holds the link, one user connects a merchant's bot and becomes its
\* admin, unless two requests connect at once.
THEOREM OneConnectorOnly == Spec => []OneConnector
<1> DEFINE Inv == Typed /\ Young /\ HasBots /\ OneConnector
<1>1. Init => Inv
  BY TypedInit, ConnectorInit
<1>2. Inv /\ [Next]_vars => Inv'
  BY TypedStep, YoungStep, HasBotsStep, OneConnectorStep
<1> QED
  BY <1>1, <1>2, PTL DEF Spec

-----------------------------------------------------------------------------
(* The session of an admin stays bound.                                     *)

\* The session of an admin is at the admin's merchant unless it was led away, and, if
\* no commit came late, once it is past the token step.
SessionsBound ==
  \A u \in Users : admins[u] # None =>
    /\ "rebound" \notin past[u] => session[u].merchant = admins[u]
    /\ Smooth(u) /\ session[u].state \notin Early => session[u].merchant = admins[u]

\* The same of a request of the dialogue, while it is served.
RequestsBound ==
  \A r \in Requests :
    req[r].kind \in LaterKinds /\ "rebound" \notin past[req[r].user] =>
      req[r].merchant = admins[req[r].user]

\* A user who is smooth after a step was smooth before it.
LEMMA SmoothBefore ==
  ASSUME Typed, Young, [Next]_vars
  PROVE  \A v \in Users : Smooth(v)' => Smooth(v)
BY PastGrows DEF Smooth

\* The commit of a connected user, or of a user about to be, leaves a bound session.
LEMMA BoundStep ==
  ASSUME Typed, Young, SessionsBound, RequestsBound, [Next]_vars
  PROVE  SessionsBound' /\ RequestsBound'
<1>0. admins \in [Users -> Merchants \cup {None}] /\ \A q \in Requests : Proper(req[q])
  BY DEF Typed, TypeOK
<1>1. \A v \in Users : past[v] \subseteq past'[v]
  BY PastGrows
<1>4. \A v \in Users : Smooth(v)' => Smooth(v)
  BY SmoothBefore
<1>2. CASE UNCHANGED vars
  BY <1>2 DEF vars, SessionsBound, RequestsBound, Smooth
<1>3. CASE Next
  <2>1. PICK r \in Requests : Reads(r) \/ Greets(r) \/ Attaches(r) \/ Commits(r)
    BY <1>3, StepKinds
  <2>2. CASE Reads(r)
    <3>1. \A q \in Requests \ {r} : req'[q] = req[q]
      BY <2>2 DEF Reads
    <3>2. req'[r].kind \in LaterKinds =>
            /\ req'[r].user \in Users /\ admins[req'[r].user] # None
            /\ req'[r].merchant = session[req'[r].user].merchant
      BY <2>2 DEF Reads
    <3>3. UNCHANGED <<session, admins, past>>
      BY <2>2 DEF Reads
    <3> QED
      BY <3>1, <3>2, <3>3 DEF SessionsBound, RequestsBound, Smooth
  <2>3. ASSUME NEW s \in Sessions, NEW row \in Rows, NEW topics, NEW marks \in SUBSET Marks,
               req[r].kind # "idle", Save(r, s, row, topics, marks),
               \A v \in Users \ {req[r].user} : admins'[v] = admins[v],
               admins[req[r].user] # None => admins'[req[r].user] = admins[req[r].user],
               admins'[req[r].user] # None /\ past'[req[r].user] \cap {"jumped", "stale"} = {}
                 /\ s.state \notin Early => s.merchant = admins'[req[r].user]
        PROVE  SessionsBound' /\ RequestsBound'
    <3>1. PICK u : u = req[r].user /\ u \in Users
      BY <2>3, SaveSession
    <3>2. \A v \in Users \ {u} :
            session'[v] = session[v] /\ admins'[v] = admins[v] /\ past'[v] = past[v]
      BY <2>3, <3>1, SaveSession, SavePast
    <3>3. past'[u] \cap {"jumped", "stale"} = {} => session'[u] = s
      BY <2>3, <3>1, FreshCommit
    <3>4. "rebound" \in past'[u] \/ admins'[u] = None \/ session'[u].merchant = admins'[u]
      BY <2>3, <3>1, SavePast
    <3>5. ASSUME NEW v \in Users, admins'[v] # None
          PROVE  /\ "rebound" \notin past'[v] => session'[v].merchant = admins'[v]
                 /\ Smooth(v)' /\ session'[v].state \notin Early =>
                      session'[v].merchant = admins'[v]
      <4>1. CASE v = u
        <5>1. admins'[u] # None
          BY <3>5, <4>1
        <5>3. "rebound" \notin past'[u] => session'[u].merchant = admins'[u]
          BY <3>4, <5>1
        <5>4. past'[u] \cap {"jumped", "stale"} = {} /\ session'[u].state \notin Early =>
                session'[u].merchant = admins'[u]
          BY <2>3, <3>1, <3>3, <5>1
        <5> QED
          BY <4>1, <5>3, <5>4 DEF Smooth
      <4>2. CASE v # u
        BY <1>1, <1>4, <3>2, <3>5, <4>2 DEF SessionsBound
      <4> QED
        BY <4>1, <4>2
    <3>6. SessionsBound'
      BY <3>5 DEF SessionsBound
    <3>7. req'[r] = Idle /\ \A q \in Requests \ {r} : Same(req'[q], req[q])
      BY <2>3, SaveRequests
    <3>8. \A v \in Users : admins[v] # None => admins'[v] = admins[v]
      BY <2>3, <3>1, <3>2
    <3>9. \A q \in Requests : req[q].kind \in LaterKinds =>
            req[q].user \in Users /\ admins[req[q].user] # None
      BY <1>0 DEF Young, Proper, LaterKinds
    <3>10. RequestsBound'
      BY <1>1, <3>7, <3>8, <3>9 DEF RequestsBound, Same, Idle, LaterKinds
    <3> QED
      BY <3>6, <3>10
  <2>9. PICK u : u = req[r].user
    OBVIOUS
  <2>10. PICK rec \in Records : rec = req[r]
    BY DEF Typed
  <2>4. u = req[r].user /\ rec \in Records /\ rec = req[r] /\ u = rec.user
    BY <2>9, <2>10
  <2>5. {} \in SUBSET Marks /\ rec.sess \in Sessions /\ rec.row \in Rows
    BY DEF Records
  <2>6. CASE Greets(r)
    <3>1. PICK s \in Sessions :
            /\ Save(r, s, rec.row, {}, {}) /\ rec.kind \in {"start", "lang"}
            /\ s.state \in Early /\ UNCHANGED admins
      BY <2>4, <2>6 DEF Greets
    <3>2. rec.kind # "idle"
      BY <3>1
    <3> QED
      BY <2>3, <2>4, <2>5, <3>1, <3>2
  <2>7. CASE Attaches(r)
    <3>1. PICK s \in Sessions, row \in Rows :
            /\ Save(r, s, row, {}, {}) /\ rec.kind = "attach"
            /\ s.state = "awaiting_shop_name" /\ s.merchant = rec.merchant
            /\ admins[u] = None
            /\ admins' = [admins EXCEPT ![u] = rec.merchant]
      BY <2>4, <2>7 DEF Attaches
    <3>2. u \in Users /\ rec.kind # "idle"
      BY <2>4, <3>1, SaveSession
    <3>3. admins'[u] = rec.merchant /\ \A v \in Users \ {u} : admins'[v] = admins[v]
      BY <1>0, <3>1, <3>2
    <3> QED
      BY <2>3, <2>4, <2>5, <3>1, <3>2, <3>3
  <2>8. CASE Commits(r)
    <3>1. PICK s \in Sessions, row \in Rows, topics \in SUBSET Topics, marks \in SUBSET Marks :
            /\ Save(r, s, row, topics, marks) /\ rec.kind \in LaterKinds
            /\ UNCHANGED admins
            /\ s.merchant = rec.sess.merchant /\ s.state \notin Early
            /\ "jumped" \notin marks => rec.sess.state \notin Early
      BY <2>4, <2>8 DEF Commits, Writes
    <3>2. rec.kind # "idle"
      BY <3>1 DEF LaterKinds
    <3>3. u \in Users /\ session[u] \in Sessions
      BY <2>4, <3>1, <3>2, SaveSession DEF Typed, TypeOK
    <3>6. ASSUME admins[u] # None, past'[u] \cap {"jumped", "stale"} = {}
          PROVE  s.merchant = admins[u]
      <4>3. Smooth(u)
        BY <1>1, <3>3, <3>6 DEF Smooth
      <4>1. session[u] = rec.sess /\ Smooth(u)
        BY <2>4, <3>1, <3>2, <3>3, <3>6, <4>3, FreshCommit
      <4>2. "jumped" \notin marks
        BY <2>4, <3>1, <3>2, <3>6, SavePast
      <4> QED
        BY <3>1, <3>3, <3>6, <4>1, <4>2 DEF SessionsBound
    <3> QED
      BY <2>3, <2>4, <3>1, <3>2, <3>3, <3>6
  <2> QED
    BY <2>1, <2>2, <2>6, <2>7, <2>8
<1> QED
  BY <1>2, <1>3

\* No session points anywhere at first.
LEMMA BoundInit == Init => SessionsBound /\ RequestsBound
BY DEF Init, SessionsBound, RequestsBound, Idle, LaterKinds

\* A step looses the session of an admin only if it crosses the token step.
LEMMA LooseStep ==
  ASSUME Typed, Young, Next,
         NEW u \in Users, admins'[u] # None, ~Bound(u)'
  PROVE  \/ admins[u] # None /\ ~Bound(u)
         \/ \E r \in Requests : req[r].user = u /\ Crosses(r) /\ req'[r] = Idle
<1>1. PICK r \in Requests : Reads(r) \/ Greets(r) \/ Attaches(r) \/ Commits(r)
  BY StepKinds
<1>2. PICK rec \in Records : rec = req[r]
  BY DEF Typed
<1>3. rec.sess \in Sessions /\ rec.row \in Rows /\ session[u] \in Sessions
  BY <1>2 DEF Records, Typed, TypeOK
<1>4. CASE UNCHANGED <<session, admins>>
  BY <1>4 DEF Bound
<1>5. ASSUME NEW s \in Sessions, NEW row, NEW topics, NEW marks,
             rec.kind # "idle", Save(r, s, row, topics, marks)
      PROVE  /\ rec.user \in Users /\ req'[r] = Idle
             /\ rec.user # u => session'[u] = session[u]
             /\ rec.user = u =>
                  /\ session'[u].merchant = IF s.merchant = rec.sess.merchant
                                            THEN session[u].merchant ELSE s.merchant
                  /\ session'[u].state = IF s.state = rec.sess.state
                                         THEN session[u].state ELSE s.state
  <2>1. /\ rec.user \in Users
        /\ \A v \in Users \ {rec.user} : session'[v] = session[v]
        /\ session'[rec.user] = Merge(session[rec.user], rec.sess, s)
    BY <1>2, <1>5, SaveSession
  <2>2. req'[r] = Idle
    BY <1>5 DEF Save
  <2>3. rec.user = u => session'[u] = Merge(session[u], rec.sess, s)
    BY <2>1
  <2> QED
    BY <1>3, <2>1, <2>2, <2>3, MergeSession
<1>6. CASE Reads(r)
  BY <1>4, <1>6 DEF Reads
<1>7. CASE Greets(r)
  <2>1. PICK s \in Sessions :
          /\ Save(r, s, rec.row, {}, {}) /\ rec.kind \in {"start", "lang"} /\ UNCHANGED admins
    BY <1>2, <1>7 DEF Greets
  <2>2. rec.kind # "idle"
    BY <2>1
  <2>3. CASE rec.user = u
    BY <1>2, <1>5, <2>1, <2>2, <2>3 DEF Crosses
  <2>4. CASE rec.user # u
    <3>1. session'[u] = session[u] /\ admins'[u] = admins[u]
      BY <1>5, <2>1, <2>2, <2>4
    <3> QED
      BY <3>1 DEF Bound
  <2> QED
    BY <2>3, <2>4
<1>8. CASE Attaches(r)
  <2>1. PICK s \in Sessions, row \in Rows :
          /\ Save(r, s, row, {}, {}) /\ rec.kind = "attach"
          /\ rec.sess.state = "awaiting_token"
          /\ s.state = "awaiting_shop_name" /\ s.merchant = rec.merchant
          /\ admins' = [admins EXCEPT ![rec.user] = rec.merchant]
    BY <1>2, <1>8 DEF Attaches
  <2>2. rec.kind # "idle" /\ admins \in [Users -> Merchants \cup {None}]
    BY <2>1 DEF Typed, TypeOK
  <2>3. CASE rec.user = u
    <3>1. admins'[u] = rec.merchant /\ session'[u].state = "awaiting_shop_name"
      BY <1>5, <2>1, <2>2, <2>3
    <3>2. session'[u].merchant # s.merchant
      BY <2>1, <3>1 DEF Bound
    <3>3. session[u].merchant # rec.sess.merchant
      BY <1>5, <2>1, <2>2, <2>3, <3>2
    <3> QED
      BY <1>2, <1>5, <2>1, <2>2, <2>3, <3>3 DEF Crosses
  <2>4. CASE rec.user # u
    <3>1. session'[u] = session[u] /\ admins'[u] = admins[u]
      BY <1>5, <2>1, <2>2, <2>4
    <3> QED
      BY <3>1 DEF Bound
  <2> QED
    BY <2>3, <2>4
<1>9. CASE Commits(r)
  <2>1. PICK s \in Sessions, row \in Rows, topics \in SUBSET Topics, marks \in SUBSET Marks :
          /\ Save(r, s, row, topics, marks) /\ rec.kind \in LaterKinds /\ UNCHANGED admins
          /\ s.merchant = rec.sess.merchant /\ s.state \notin Early
    BY <1>2, <1>9 DEF Commits, Writes
  <2>2. rec.kind # "idle"
    BY <2>1 DEF LaterKinds
  <2>3. /\ session'[u].merchant = session[u].merchant
        /\ session'[u].state \in Early => session[u].state \in Early
    BY <1>5, <2>1, <2>2
  <2> QED
    BY <2>1, <2>3 DEF Bound, Early
<1> QED
  BY <1>1, <1>6, <1>7, <1>8, <1>9

\* An admin's session stays bound to the merchant the user administers, past the
\* token step, whatever overlaps and whatever is written back stale, as long as no
\* request crosses the token step itself.
THEOREM AdminsStayBound == Spec => AdminSessionBound
<1>1. Init => Typed /\ Young
  BY TypedInit
<1>2. Typed /\ Young /\ [Next]_vars => Typed' /\ Young'
  BY TypedStep, YoungStep
<1>3. Typed /\ Young /\ [Next]_vars
        => [\A u \in Users : admins'[u] # None /\ ~Bound(u)' =>
              \/ admins[u] # None /\ ~Bound(u)
              \/ \E r \in Requests : req[r].user = u /\ Crosses(r) /\ req'[r] = Idle]_vars
  BY LooseStep
<1> QED
  BY <1>1, <1>2, <1>3, PTL DEF Spec, AdminSessionBound

-----------------------------------------------------------------------------
(* A shop that is done is complete.                                         *)

\* An admin who never jumped, whose session was never led away, and whose merchant
\* no other user writes.
Steady(u) == admins[u] # None /\ past[u] \cap {"jumped", "rebound"} = {} /\ Alone(u)

\* The merchant of such an admin has what the session went through, and what the
\* requests in progress loaded; and, if no update overlapped, all of it.
GivenSessions == \A u \in Users : Steady(u) => Given(session[u], merchants[admins[u]])
GivenRequests ==
  \A u \in Users : Steady(u) => \A r \in Requests :
    req[r].user = u /\ req[r].kind \in LaterKinds =>
      Given(req[r].sess, req[r].row) /\ Kept(req[r].row, merchants[admins[u]])
GivenWhole ==
  \A u \in Users : Steady(u) /\ Smooth(u) => GivenAll(session[u], merchants[admins[u]])

\* An UPDATE made from older rows loses nothing that was given.
LEMMA GivenMerged ==
  ASSUME NEW db \in Rows, NEW old \in Rows, NEW row \in Rows,
         NEW now \in Sessions, NEW sess \in Sessions, NEW s \in Sessions,
         Given(now, db), Given(sess, old), Given(s, row), Kept(old, db), Kept(old, row),
         row.profile # old.profile => sess.state \in AfterSource \/ "intake_source" \in row.profile
  PROVE  /\ Kept(db, Merge(db, old, row))
         /\ Given(Merge(now, sess, s), Merge(db, old, row))
<1>1. PICK new : new = Merge(db, old, row)
  OBVIOUS
<1>2. /\ new.vertical = IF row.vertical = old.vertical THEN db.vertical ELSE row.vertical
      /\ new.profile = IF row.profile = old.profile THEN db.profile ELSE row.profile
  BY <1>1, MergeRow
<1>3. Kept(db, new) /\ Kept(row, new)
  BY <1>2 DEF Kept, Given
<1>4. PICK next : next = Merge(now, sess, s)
  OBVIOUS
<1>5. next.state \in {now.state, s.state} /\ next.data \in {now.data, s.data}
  BY <1>4, MergeSession
<1>6. Given(next, new)
  BY <1>3, <1>5 DEF Given, Kept
<1> QED
  BY <1>1, <1>3, <1>4, <1>6

\* A user who is steady after a step was before, unless the step made the user an admin.
LEMMA SteadyBefore ==
  ASSUME Typed, Young, [Next]_vars, NEW u \in Users, Steady(u)', admins[u] # None,
         \A v \in Users : admins[v] # None => admins'[v] = admins[v]
  PROVE  Steady(u)
<1>1. \A v \in Users : past[v] \subseteq past'[v]
  BY PastGrows
<1> QED
  BY <1>1 DEF Steady, Alone

\* An admin stays the admin of the same merchant.
LEMMA AdminsStay ==
  ASSUME Typed, Young, [Next]_vars
  PROVE  \A v \in Users : admins[v] # None => admins'[v] = admins[v]
<1>1. CASE admins' = admins
  BY <1>1
<1>2. CASE admins' # admins
  <2>1. PICK r \in Requests : Attaches(r)
    <3>1. Next
      BY <1>2 DEF vars
    <3> QED
      BY <1>2, <3>1, StepKinds DEF Reads, Greets, Commits
  <2> QED
    BY <2>1 DEF Attaches, Typed, TypeOK
<1> QED
  BY <1>1, <1>2

GivenInv == GivenSessions /\ GivenRequests /\ GivenWhole

\* What holds of user u after the step.
GivenTo(u) ==
  /\ Given(session[u], merchants[admins[u]])
  /\ \A r \in Requests : req[r].user = u /\ req[r].kind \in LaterKinds =>
       Given(req[r].sess, req[r].row) /\ Kept(req[r].row, merchants[admins[u]])
  /\ Smooth(u) => GivenAll(session[u], merchants[admins[u]])

\* The invariant is about each steady user's session, requests and row.
LEMMA GivenParts == GivenInv <=> \A u \in Users : Steady(u) => GivenTo(u)
BY DEF GivenInv, GivenSessions, GivenRequests, GivenWhole, GivenTo

\* A request loads the rows as they are.
LEMMA GivenRead ==
  ASSUME Typed, SessionsBound, NEW u \in Users, Steady(u), GivenTo(u), NEW r \in Requests, Reads(r)
  PROVE  GivenTo(u)'
<1>1. UNCHANGED <<session, merchants, admins, past>> /\ \A q \in Requests \ {r} : req'[q] = req[q]
  BY DEF Reads
<1>2. ASSUME req'[r].user = u, req'[r].kind \in LaterKinds
      PROVE  Given(req'[r].sess, req'[r].row) /\ Kept(req'[r].row, merchants[admins[u]])
  <2>1. session[u].merchant = admins[u] /\ admins[u] # None
    BY DEF SessionsBound, Steady
  <2>2. req'[r].sess = session[u] /\ req'[r].row = merchants[admins[u]]
    BY <1>2, <2>1 DEF Reads, Row
  <2> QED
    BY <2>2 DEF GivenTo, Kept
<1>3. Smooth(u)' => Smooth(u)
  BY <1>1 DEF Smooth
<1> QED
  BY <1>1, <1>2, <1>3 DEF GivenTo

\* Another user's commit writes another merchant, or no column.
LEMMA GivenByOthers ==
  ASSUME Typed, Young, RequestsBound, [Next]_vars, NEW u \in Users, Steady(u), Steady(u)', GivenTo(u),
         NEW r \in Requests, req[r].user # u, Greets(r) \/ Attaches(r) \/ Commits(r)
  PROVE  GivenTo(u)'
<1>1. PICK w, m : w = req[r].user /\ m = req[r].merchant /\ m \in Merchants \cup {None}
  BY DEF Typed, Records
<1>2. \E s \in Sessions, row \in Rows, topics \in SUBSET Topics, marks \in SUBSET Marks :
        /\ Save(r, s, row, topics, marks) /\ req[r].kind # "idle"
        /\ m = admins[u] => row = req[r].row
  <2>0. {} \in SUBSET Marks /\ {} \in SUBSET Topics /\ req[r].row \in Rows /\ w # u
    BY <1>1 DEF Typed, Records
  <2>1. CASE Greets(r)
    BY <2>0, <2>1 DEF Greets
  <2>2. CASE Attaches(r)
    <3>1. PICK s \in Sessions, row \in Rows :
            /\ Save(r, s, row, {}, {}) /\ req[r].kind # "idle"
            /\ admins' = [admins EXCEPT ![w] = m]
      BY <1>1, <2>2 DEF Attaches
    <3>2. w \in Users
      BY <1>1, <3>1, SaveSession
    <3>3. admins'[w] = m /\ admins'[u] = admins[u]
      BY <2>0, <3>1, <3>2 DEF Typed, TypeOK
    <3>4. m # admins[u]
      BY <2>0, <3>2, <3>3 DEF Steady, Alone
    <3> QED
      BY <2>0, <3>1, <3>4
  <2>3. CASE Commits(r)
    <3>1. PICK s \in Sessions, row \in Rows, topics \in SUBSET Topics, marks \in SUBSET Marks :
            Save(r, s, row, topics, marks) /\ req[r].kind \in LaterKinds
      BY <2>3 DEF Commits
    <3>2. req[r].kind # "idle"
      BY <3>1 DEF LaterKinds
    <3>3. w \in Users
      BY <1>1, <3>1, <3>2, SaveSession
    <3>4. m = admins[w] \/ "rebound" \in past[w]
      BY <1>1, <3>1 DEF RequestsBound
    <3>5. m # admins[u]
      BY <2>0, <3>3, <3>4 DEF Steady, Alone
    <3> QED
      BY <3>1, <3>2, <3>5
  <2> QED
    BY <2>1, <2>2, <2>3
<1>3. PICK s \in Sessions, row \in Rows, topics \in SUBSET Topics, marks \in SUBSET Marks :
        /\ Save(r, s, row, topics, marks) /\ req[r].kind # "idle"
        /\ m = admins[u] => row = req[r].row
  BY <1>2
<1>4. admins'[u] = admins[u] /\ admins[u] \in Merchants /\ admins[u] # None
  <2>1. admins'[u] = admins[u]
    BY AdminsStay DEF Steady
  <2> QED
    BY <2>1 DEF Steady, Typed, TypeOK
<1>5. merchants'[admins[u]] = merchants[admins[u]]
  <2>1. CASE m = admins[u]
    <3>1. merchants'[m] = Merge(merchants[m], req[r].row, row)
      BY <1>1, <1>3, <1>4, <2>1, SaveRow
    <3>2. merchants[m] \in Rows
      BY <1>4, <2>1 DEF Typed, TypeOK
    <3> QED
      BY <1>3, <2>1, <3>1, <3>2 DEF Merge, Rows
  <2>2. CASE m # admins[u]
    BY <1>1, <1>3, <1>4, <2>2, SaveRow
  <2> QED
    BY <2>1, <2>2
<1>6. session'[u] = session[u] /\ past'[u] = past[u]
  BY <1>1, <1>3, SaveSession, SavePast
<1>7. req'[r] = Idle /\ \A q \in Requests \ {r} : Same(req'[q], req[q])
  BY <1>3, SaveRequests
<1>8. Smooth(u)' => Smooth(u)
  BY <1>6 DEF Smooth
<1>9. Given(session[u], merchants[admins[u]])' /\ (Smooth(u)' => GivenAll(session[u], merchants[admins[u]])')
  BY <1>4, <1>5, <1>6, <1>8 DEF GivenTo
<1>10. ASSUME NEW q \in Requests, req'[q].user = u, req'[q].kind \in LaterKinds
       PROVE  Given(req'[q].sess, req'[q].row) /\ Kept(req'[q].row, merchants[admins[u]])
  <2>1. q # r
    BY <1>7, <1>10 DEF Idle, LaterKinds
  <2> QED
    BY <1>7, <1>10, <2>1 DEF GivenTo, Same
<1> QED
  BY <1>4, <1>5, <1>9, <1>10 DEF GivenTo

\* The user's own commit of a step of the dialogue.
LEMMA GivenByStep ==
  ASSUME Typed, Young, RequestsBound, [Next]_vars, NEW u \in Users, Steady(u), Steady(u)', GivenTo(u),
         NEW r \in Requests, req[r].user = u, Commits(r)
  PROVE  GivenTo(u)'
<1>1. PICK s \in Sessions, row \in Rows, topics \in SUBSET Topics, marks \in SUBSET Marks :
        /\ Save(r, s, row, topics, marks) /\ req[r].kind \in LaterKinds
        /\ Writes(req[r], s, row, topics, marks, chosen[u], chosen'[u])
  BY DEF Commits
<1>2. req[r].kind # "idle"
  BY <1>1 DEF LaterKinds
<1>3. PICK rec \in Records : rec = req[r]
  BY DEF Typed
<1>4. PICK m : m = admins[u] /\ m \in Merchants /\ m # None
  BY DEF Steady, Typed, TypeOK
<1>5. PICK db \in Rows, now \in Sessions : db = merchants[m] /\ now = session[u]
  BY <1>4 DEF Typed, TypeOK
<1>6. rec.sess \in Sessions /\ rec.row \in Rows
  BY DEF Records
<1>7. rec.merchant = m /\ admins'[u] = m
  BY <1>1, <1>3, <1>4, AdminsStay DEF RequestsBound, Steady
<1>8. "jumped" \notin marks
  BY <1>1, <1>2, SavePast DEF Steady
<1>9. /\ Given(now, db) /\ Given(rec.sess, rec.row) /\ Kept(rec.row, db)
      /\ Given(s, row) /\ Kept(rec.row, row)
      /\ row.profile # rec.row.profile =>
           rec.sess.state \in AfterSource \/ "intake_source" \in row.profile
  BY <1>1, <1>3, <1>4, <1>5, <1>8 DEF GivenTo, Writes
<1>10. PICK new, next : new = Merge(db, rec.row, row) /\ next = Merge(now, rec.sess, s)
  OBVIOUS
<1>11. merchants'[m] = new /\ session'[u] = next
  <2>1. merchants'[m] = Merge(merchants[m], rec.row, row)
    BY <1>1, <1>3, <1>4, <1>7, SaveRow
  <2>2. session'[u] = Merge(session[u], rec.sess, s)
    BY <1>1, <1>2, <1>3, SaveSession
  <2> QED
    BY <1>5, <1>10, <2>1, <2>2
<1>12. Kept(db, new) /\ Given(next, new)
  BY <1>6, <1>9, <1>10, GivenMerged
<1>13. req'[r] = Idle /\ \A q \in Requests \ {r} : Same(req'[q], req[q])
  BY <1>1, <1>2, SaveRequests
<1>14. ASSUME NEW q \in Requests, req'[q].user = u, req'[q].kind \in LaterKinds
       PROVE  Given(req'[q].sess, req'[q].row) /\ Kept(req'[q].row, new)
  <2>1. q # r
    BY <1>13, <1>14 DEF Idle, LaterKinds
  <2>2. Given(req'[q].sess, req'[q].row) /\ Kept(req'[q].row, db)
    BY <1>4, <1>5, <1>13, <1>14, <2>1 DEF GivenTo, Same
  <2> QED
    BY <1>12, <2>2 DEF Kept
<1>15. ASSUME Smooth(u)'
       PROVE  GivenAll(next, new)
  <2>1. "stale" \notin past'[u] /\ Smooth(u)
    BY <1>15, PastGrows DEF Smooth
  <2>2. now = rec.sess /\ next = s /\ db = rec.row /\ new = row
    BY <1>1, <1>2, <1>3, <1>4, <1>5, <1>7, <1>11, <2>1, FreshCommit
  <2>3. GivenAll(now, db)
    BY <1>4, <1>5, <2>1 DEF GivenTo
  <2> QED
    BY <1>1, <1>3, <1>8, <2>2, <2>3 DEF Writes
<1> QED
  BY <1>7, <1>11, <1>12, <1>14, <1>15 DEF GivenTo

\* The user's own late /start or language: the session is past no step that it was not.
LEMMA GivenByGreeting ==
  ASSUME Typed, Young, [Next]_vars, NEW u \in Users, Steady(u), GivenTo(u),
         NEW r \in Requests, req[r].user = u, Greets(r)
  PROVE  GivenTo(u)'
<1>1. PICK s \in Sessions :
        /\ Save(r, s, req[r].row, {}, {}) /\ req[r].kind # "idle"
        /\ s.state \in Early /\ s.data \in {NoData, req[r].sess.data} /\ UNCHANGED admins
  BY DEF Greets
<1>2. req[r].row \in Rows /\ req[r].sess \in Sessions
  BY DEF Typed, Records
<1>3. PICK m : m = admins[u] /\ m \in Merchants
  BY DEF Steady, Typed, TypeOK
<1>4. merchants'[m] = merchants[m]
  <2>1. merchants[m] \in Rows
    BY <1>3 DEF Typed, TypeOK
  <2>2. Merge(merchants[m], req[r].row, req[r].row) = merchants[m]
    BY <2>1 DEF Merge, Rows
  <2> QED
    BY <1>1, <1>2, <1>3, <2>2, SaveRow, NoMerchantIsNone
<1>5. PICK now \in Sessions : now = session[u]
  BY DEF Typed, TypeOK
<1>6. PICK next : next = session'[u]
  OBVIOUS
<1>7. next.state \in {now.state, s.state} /\ next.data \in {now.data, NoData}
  <2>1. next = Merge(now, req[r].sess, s)
    BY <1>1, <1>5, <1>6, SaveSession
  <2> QED
    BY <1>1, <1>2, <2>1, MergeSession
<1>8. ~NoData.reentry
  BY DEF NoData
<1>9. Given(now, merchants[m])
  BY <1>3, <1>5 DEF GivenTo
<1>10. Given(next, merchants[m])
  BY <1>1, <1>7, <1>8, <1>9 DEF Given, Early, AfterVertical, AfterSource, TopicStates, Asking, AfterTopics
<1>11. Smooth(u)' => GivenAll(next, merchants[m])
  <2>1. Smooth(u)' => GivenAll(now, merchants[m])
    BY <1>3, <1>5, SmoothBefore DEF GivenTo
  <2> QED
    BY <1>1, <1>7, <1>8, <2>1 DEF GivenAll, Early, AfterTopics
<1>12. req'[r] = Idle /\ \A q \in Requests \ {r} : Same(req'[q], req[q])
  BY <1>1, SaveRequests
<1>13. ASSUME NEW q \in Requests, req'[q].user = u, req'[q].kind \in LaterKinds
       PROVE  Given(req'[q].sess, req'[q].row) /\ Kept(req'[q].row, merchants[m])
  <2>1. q # r
    BY <1>12, <1>13 DEF Idle, LaterKinds
  <2> QED
    BY <1>3, <1>12, <1>13, <2>1 DEF GivenTo, Same
<1> QED
  BY <1>1, <1>3, <1>4, <1>6, <1>10, <1>11, <1>13 DEF GivenTo

\* A user who becomes an admin has gone through nothing yet.
LEMMA GivenAtConnect ==
  ASSUME Typed, Young, [Next]_vars, NEW u \in Users,
         NEW r \in Requests, req[r].user = u, Attaches(r)
  PROVE  GivenTo(u)'
<1>1. PICK s \in Sessions, row \in Rows :
        /\ Save(r, s, row, {}, {}) /\ req[r].kind # "idle"
        /\ req[r].sess.state = "awaiting_token" /\ s.state = "awaiting_shop_name"
        /\ s.data = req[r].sess.data /\ admins[u] = None
  BY DEF Attaches
<1>2. req[r].sess \in Sessions /\ session[u] \in Sessions
  BY DEF Typed, TypeOK, Records
<1>3. PICK next : next = session'[u]
  OBVIOUS
<1>4. next.state = "awaiting_shop_name" /\ next.data = NoData
  <2>1. next = Merge(session[u], req[r].sess, s)
    BY <1>1, <1>3, SaveSession
  <2>2. session[u].data = NoData
    BY <1>1 DEF Young
  <2> QED
    BY <1>1, <1>2, <2>1, <2>2, MergeSession
<1>5. ~next.data.reentry
  BY <1>4 DEF NoData
<1>6. \A x : Given(next, x) /\ GivenAll(next, x)
  BY <1>4, <1>5 DEF Given, GivenAll, AfterVertical, AfterSource, TopicStates, Asking, AfterTopics
<1>7. req'[r] = Idle /\ \A q \in Requests \ {r} : Same(req'[q], req[q])
  BY <1>1, SaveRequests
<1>8. ASSUME NEW q \in Requests, req'[q].user = u, req'[q].kind \in LaterKinds
      PROVE  FALSE
  <2>1. q # r
    BY <1>7, <1>8 DEF Idle, LaterKinds
  <2> QED
    BY <1>1, <1>7, <1>8, <2>1 DEF Young, Same
<1> QED
  BY <1>3, <1>6, <1>8 DEF GivenTo

\* No step takes from a steady user what was given.
LEMMA GivenStep ==
  ASSUME Typed, Young, SessionsBound, RequestsBound, GivenInv, [Next]_vars
  PROVE  GivenInv'
<1>1. CASE UNCHANGED vars
  BY <1>1 DEF vars, GivenInv, GivenSessions, GivenRequests, GivenWhole, Steady, Alone, Smooth
<1>2. ASSUME Next, NEW u \in Users, Steady(u)'
      PROVE  GivenTo(u)'
  <2>1. PICK r \in Requests : Reads(r) \/ Greets(r) \/ Attaches(r) \/ Commits(r)
    BY <1>2, StepKinds
  <2>2. CASE admins[u] = None
    <3>1. admins'[u] # None
      BY <1>2 DEF Steady
    <3>2. Attaches(r)
      BY <2>1, <2>2, <3>1 DEF Reads, Greets, Commits
    <3>3. req[r].user = u
      BY <2>2, <3>1, <3>2 DEF Attaches, Typed, TypeOK
    <3> QED
      BY <3>2, <3>3, GivenAtConnect
  <2>3. CASE admins[u] # None
    <3>1. Steady(u)
      BY <1>2, <2>3, AdminsStay, SteadyBefore
    <3>2. GivenTo(u)
      BY <3>1, GivenParts
    <3>3. CASE Reads(r)
      BY <3>1, <3>2, <3>3, GivenRead
    <3>4. CASE req[r].user # u /\ ~Reads(r)
      BY <1>2, <2>1, <3>1, <3>2, <3>4, GivenByOthers
    <3>5. CASE req[r].user = u /\ Greets(r)
      BY <3>1, <3>2, <3>5, GivenByGreeting
    <3>6. CASE req[r].user = u /\ Commits(r)
      BY <1>2, <3>1, <3>2, <3>6, GivenByStep
    <3>7. CASE req[r].user = u /\ Attaches(r)
      BY <2>3, <3>7 DEF Attaches
    <3> QED
      BY <2>1, <3>3, <3>4, <3>5, <3>6, <3>7
  <2> QED
    BY <2>2, <2>3
<1>3. CASE Next
  <2>1. \A u \in Users : Steady(u)' => GivenTo(u)'
    BY <1>2, <1>3
  <2> QED
    BY <2>1 DEF GivenInv, GivenSessions, GivenRequests, GivenWhole, GivenTo
<1> QED
  BY <1>1, <1>3

\* Nothing is asked for at first.
LEMMA GivenInit == Init => GivenInv
BY DEF Init, GivenInv, GivenSessions, GivenRequests, GivenWhole, Steady

\* A steady user who is done has given everything.
LEMMA GivenDone ==
  ASSUME Typed, Young, GivenInv
  PROVE  DoneIsComplete
<1> SUFFICES ASSUME NEW u \in Users, session[u].state = "done",
                    past[u] \cap {"jumped", "rebound"} = {}, Alone(u)
             PROVE  /\ admins[u] # None
                    /\ merchants[admins[u]].vertical # None
                    /\ "intake_source" \in merchants[admins[u]].profile
                    /\ Smooth(u) => {"faq_topics", "tone"} \subseteq merchants[admins[u]].profile
  BY DEF DoneIsComplete
<1>1. admins[u] # None
  BY DEF Young, Early
<1>2. GivenTo(u)
  BY <1>1, GivenParts DEF Steady
<1> QED
  BY <1>1, <1>2 DEF GivenTo, Given, GivenAll, AfterVertical, AfterSource, AfterTopics

\* A session that says done has given its shop all it was asked for, however the
\* updates of its user overlapped, unless a setting was tapped before the end, the
\* session was led to another merchant, or another user writes the same one.
THEOREM DoneComplete == Spec => []DoneIsComplete
<1> DEFINE Inv == Typed /\ Young /\ SessionsBound /\ RequestsBound /\ GivenInv
<1>1. Init => Inv
  BY TypedInit, BoundInit, GivenInit
<1>2. Inv /\ [Next]_vars => Inv'
  BY TypedStep, YoungStep, BoundStep, GivenStep
<1>3. Inv => DoneIsComplete
  BY GivenDone
<1> QED
  BY <1>1, <1>2, <1>3, PTL DEF Spec

-----------------------------------------------------------------------------
(* Every topic picked is answered.                                          *)

AnsweredIn(rows) == {t \in Topics : rows[t] > 0}

\* The topics an admin picked are all accounted for, unless the user jumped or the
\* user's updates overlapped, or a /start crossed the token step and starts over.
TopicsFollowed ==
  \A u \in Users : Smooth(u) /\ admins[u] # None /\ session[u].state \notin Early =>
    Followed(session[u], chosen[u], AnsweredIn(faqs[admins[u]]))

\* No Faq row is lost, and a commit adds its topics.
LEMMA AnsweredGrows ==
  ASSUME Typed, NEW r \in Requests, NEW s, NEW row, NEW topics \in SUBSET Topics, NEW marks,
         Save(r, s, row, topics, marks)
  PROVE  /\ \A n \in Merchants : AnsweredIn(faqs[n]) \subseteq AnsweredIn(faqs'[n])
         /\ req[r].merchant # None => topics \subseteq AnsweredIn(faqs'[req[r].merchant])
<1>1. PICK m : m = req[r].merchant /\ m \in Merchants \cup {None}
  BY DEF Typed, Records
<1>2. /\ \A n \in Merchants : n # m => faqs'[n] = faqs[n]
      /\ m # None => \A t \in Topics :
           faqs'[m][t] = IF t \in topics /\ faqs[m][t] < 2 THEN faqs[m][t] + 1 ELSE faqs[m][t]
  BY <1>1, SaveFaqs
<1>3. \A n \in Merchants, t \in Topics : faqs[n][t] \in 0..2
  BY DEF Typed, TypeOK
<1>4. m # None => \A t \in Topics :
        /\ faqs[m][t] > 0 => faqs'[m][t] > 0
        /\ t \in topics => faqs'[m][t] > 0
  BY <1>1, <1>2, <1>3
<1> QED
  BY <1>1, <1>2, <1>4, NoMerchantIsNone DEF AnsweredIn

\* More answers keep the topics accounted for.
LEMMA FollowedMore ==
  ASSUME NEW sess, NEW picked, NEW few, NEW many, Followed(sess, picked, few), few \subseteq many
  PROVE  Followed(sess, picked, many)
BY DEF Followed

\* No step loses a picked topic of a user whose commits were never overtaken.
LEMMA TopicsStep ==
  ASSUME Typed, Young, SessionsBound, RequestsBound, TopicsFollowed, [Next]_vars
  PROVE  TopicsFollowed'
<1>0. /\ admins \in [Users -> Merchants \cup {None}]
      /\ \A v \in Users : Smooth(v)' => Smooth(v)
  BY PastGrows DEF Typed, TypeOK, Smooth
<1>1. CASE UNCHANGED vars
  BY <1>1 DEF vars, TopicsFollowed, Smooth
<1>2. CASE Next
  <2>1. PICK r \in Requests : Reads(r) \/ Greets(r) \/ Attaches(r) \/ Commits(r)
    BY <1>2, StepKinds
  <2>2. CASE Reads(r)
    BY <2>2 DEF Reads, TopicsFollowed, Smooth
  <2>3. PICK u : u = req[r].user
    OBVIOUS
  <2>4. {} \in SUBSET Marks /\ {} \in SUBSET Topics
    OBVIOUS
  <2>5. ASSUME NEW s \in Sessions, NEW row \in Rows, NEW topics \in SUBSET Topics,
               NEW marks \in SUBSET Marks, req[r].kind # "idle", Save(r, s, row, topics, marks),
               \A v \in Users \ {u} : admins'[v] = admins[v] /\ chosen'[v] = chosen[v],
               Smooth(u)' /\ admins'[u] # None /\ session'[u].state \notin Early =>
                 Followed(session'[u], chosen'[u], AnsweredIn(faqs'[admins'[u]]))
        PROVE  TopicsFollowed'
    <3>1. \A v \in Users \ {u} : session'[v] = session[v]
      BY <2>3, <2>5, SaveSession
    <3>2. \A n \in Merchants : AnsweredIn(faqs[n]) \subseteq AnsweredIn(faqs'[n])
      BY <2>5, AnsweredGrows
    <3>3. ASSUME NEW v \in Users \ {u}, Smooth(v)', admins'[v] # None,
                 session'[v].state \notin Early
          PROVE  Followed(session'[v], chosen'[v], AnsweredIn(faqs'[admins'[v]]))
      <4>1. Followed(session[v], chosen[v], AnsweredIn(faqs[admins[v]]))
        BY <1>0, <2>5, <3>1, <3>3 DEF TopicsFollowed
      <4>2. AnsweredIn(faqs[admins[v]]) \subseteq AnsweredIn(faqs'[admins[v]])
        BY <1>0, <2>5, <3>2, <3>3
      <4> QED
        BY <2>5, <3>1, <4>1, <4>2, FollowedMore
    <3> QED
      BY <2>5, <3>3 DEF TopicsFollowed
  <2>6. CASE Greets(r)
    <3>1. PICK s \in Sessions :
            /\ Save(r, s, req[r].row, {}, {}) /\ req[r].kind # "idle"
            /\ s.state \in Early /\ UNCHANGED <<admins, chosen>>
      BY <2>6 DEF Greets
    <3>2. req[r].row \in Rows
      BY DEF Typed, Records
    <3>3. Smooth(u)' => session'[u].state \in Early
      BY <2>3, <2>4, <3>1, <3>2, FreshCommit DEF Smooth
    <3> QED
      BY <2>4, <2>5, <3>1, <3>2, <3>3
  <2>7. CASE Attaches(r)
    <3>1. PICK s \in Sessions, row \in Rows :
            /\ Save(r, s, row, {}, {}) /\ req[r].kind # "idle"
            /\ s.state = "awaiting_shop_name" /\ admins[u] = None
            /\ admins' = [admins EXCEPT ![u] = req[r].merchant] /\ UNCHANGED chosen
      BY <2>3, <2>7 DEF Attaches
    <3>2. u \in Users
      BY <2>3, <3>1, SaveSession
    <3>3. \A v \in Users \ {u} : admins'[v] = admins[v]
      BY <1>0, <3>1
    <3>4. chosen'[u] = {}
      BY <3>1, <3>2 DEF Young
    <3>5. Smooth(u)' => session'[u] = s
      BY <2>3, <2>4, <3>1, FreshCommit DEF Smooth
    <3>6. \A rows : Smooth(u)' => Followed(session'[u], chosen'[u], rows)
      BY <3>1, <3>4, <3>5 DEF Followed, Asking
    <3> QED
      BY <2>4, <2>5, <3>1, <3>3, <3>6
  <2>8. CASE Commits(r)
    <3>1. PICK s \in Sessions, row \in Rows, topics \in SUBSET Topics, marks \in SUBSET Marks :
            /\ Save(r, s, row, topics, marks) /\ req[r].kind \in LaterKinds
            /\ Writes(req[r], s, row, topics, marks, chosen[u], chosen'[u])
            /\ UNCHANGED admins
            /\ \A v \in Users \ {u} : chosen'[v] = chosen[v]
      BY <2>3, <2>8 DEF Commits
    <3>2. req[r].kind # "idle"
      BY <3>1 DEF LaterKinds
    <3>3. u \in Users
      BY <2>3, <3>1, <3>2, SaveSession
    <3>4. ASSUME Smooth(u)', admins[u] # None
          PROVE  Followed(session'[u], chosen'[u], AnsweredIn(faqs'[admins[u]]))
      <4>1. PICK m \in Merchants : m = admins[u] /\ m # None
        BY <1>0, <3>3, <3>4
      <4>2. session[u] = req[r].sess /\ session'[u] = s
        BY <2>3, <3>1, <3>2, <3>4, FreshCommit DEF Smooth
      <4>3. "jumped" \notin marks /\ session[u].state \notin Early
        <5>1. "jumped" \notin marks
          BY <2>3, <3>1, <3>2, <3>4, SavePast DEF Smooth
        <5> QED
          BY <3>1, <4>2, <5>1 DEF Writes
      <4>4. req[r].merchant = m
        <5>1. req[r].merchant = req[r].sess.merchant
          BY <3>1 DEF Typed, Proper
        <5>2. session[u].merchant = m
          BY <1>0, <3>3, <3>4, <4>1, <4>3 DEF SessionsBound
        <5> QED
          BY <4>2, <5>1, <5>2
      <4>5. PICK before \in SUBSET Topics : before = AnsweredIn(faqs[m])
        BY DEF AnsweredIn
      <4>6. Followed(req[r].sess, chosen[u], before)
        BY <1>0, <3>3, <3>4, <4>1, <4>2, <4>3, <4>5 DEF TopicsFollowed
      <4>7. Followed(s, chosen'[u], before \cup topics)
        BY <3>1, <4>1, <4>3, <4>4, <4>6 DEF Writes
      <4>8. before \cup topics \subseteq AnsweredIn(faqs'[m])
        BY <3>1, <4>1, <4>4, <4>5, AnsweredGrows
      <4> QED
        BY <4>1, <4>2, <4>7, <4>8, FollowedMore
    <3> QED
      BY <2>5, <3>1, <3>2, <3>4
  <2> QED
    BY <2>1, <2>2, <2>6, <2>7, <2>8
<1> QED
  BY <1>1, <1>2

\* No topics are picked at first.
LEMMA TopicsInit == Init => TopicsFollowed
BY DEF Init, TopicsFollowed

\* Followed topics are answered topics once the user is done.
LEMMA FollowedAnswered ==
  ASSUME Typed, Young, SessionsBound, TopicsFollowed
  PROVE  PickedTopicsAnswered
<1> SUFFICES ASSUME NEW u \in Users, Smooth(u),
                    session[u].state \in {"awaiting_hours", "choosing_tone", "done"},
                    NEW t \in chosen[u]
             PROVE  faqs[session[u].merchant][t] > 0
  BY DEF PickedTopicsAnswered
<1>1. admins[u] # None
  BY DEF Young, Early
<1>2. session[u].merchant = admins[u]
  BY <1>1 DEF SessionsBound, Early
<1>3. chosen[u] \subseteq AnsweredIn(faqs[admins[u]])
  BY <1>1 DEF TopicsFollowed, Followed, Asking, Early
<1> QED
  BY <1>2, <1>3 DEF AnsweredIn

\* Once the topic loop is over, every topic picked has its Faq row, whatever was
\* re-entered before or since.
THEOREM TopicsAnswered == Spec => []PickedTopicsAnswered
<1> DEFINE Inv == Typed /\ Young /\ SessionsBound /\ RequestsBound /\ TopicsFollowed
<1>1. Init => Inv
  BY TypedInit, BoundInit, TopicsInit
<1>2. Inv /\ [Next]_vars => Inv'
  BY TypedStep, YoungStep, BoundStep, TopicsStep
<1>3. Inv => PickedTopicsAnswered
  BY FollowedAnswered
<1> QED
  BY <1>1, <1>2, <1>3, PTL DEF Spec

-----------------------------------------------------------------------------
(* No topic has two Faq rows.                                               *)

Calm == \A v \in Users : past[v] \cap {"stale", "rebound"} = {}

\* A merchant that nobody administers has no Faq row.
Untold ==
  Calm => \A m \in Merchants : (\A u \in Users : admins[u] # m) =>
            \A t \in Topics : faqs[m][t] = 0

\* Before the topics are gone through there is no row, then one of each at most.
Once(sess, rows) ==
  /\ \A t \in Topics : rows[t] < 2
  /\ FirstPass(sess) => \A t \in Topics : rows[t] = 0
  /\ sess.data.reentry => sess.state \notin TopicStates

ToldOnce ==
  Calm => \A u \in Users : admins[u] # None /\ "reentered" \notin past[u] =>
            Once(session[u], faqs[admins[u]])

\* A step of the dialogue writes rows only at the end of the first pass.
LEMMA OnceWritten ==
  ASSUME NEW rec, NEW s, NEW row, NEW topics \in SUBSET Topics, NEW marks, NEW before, NEW picked,
         Writes(rec, s, row, topics, marks, before, picked), "reentered" \notin marks,
         NEW old \in [Topics -> 0..2], NEW new, Once(rec.sess, old),
         \A t \in Topics : new[t] = IF t \in topics /\ old[t] < 2 THEN old[t] + 1 ELSE old[t]
  PROVE  Once(s, new)
<1>1. CASE topics = {}
  <2>1. \A t \in Topics : new[t] = old[t]
    BY <1>1
  <2> QED
    BY <2>1 DEF Once, Writes
<1>2. CASE topics # {}
  <2>1. rec.sess.state \in TopicStates /\ s.state \in AfterTopics /\ ~s.data.reentry
    BY <1>2 DEF Writes
  <2>2. FirstPass(rec.sess)
    BY <2>1 DEF Once, FirstPass
  <2>3. ~FirstPass(s)
    BY <1>2 DEF Writes
  <2>4. \A t \in Topics : old[t] = 0 /\ new[t] < 2
    BY <2>2 DEF Once
  <2> QED
    BY <2>1, <2>3, <2>4 DEF Once
<1> QED
  BY <1>1, <1>2

\* A commit that adds no row leaves the rows of every merchant.
LEMMA NoRowAdded ==
  ASSUME Typed, NEW r \in Requests, NEW s, NEW row, NEW marks, Save(r, s, row, {}, marks)
  PROVE  \A n \in Merchants : faqs'[n] = faqs[n]
<1>1. PICK m : m = req[r].merchant /\ m \in Merchants \cup {None}
  BY DEF Typed, Records
<1>2. \A n \in Merchants : n # m => faqs'[n] = faqs[n]
  BY <1>1, SaveFaqs
<1>3. m # None => \A t \in Topics : faqs'[m][t] = faqs[m][t]
  BY <1>1, SaveFaqs
<1>4. \A n \in Merchants : faqs[n] \in [Topics -> 0..2] /\ faqs'[n] \in [Topics -> 0..2]
  BY SaveFaqs DEF Typed, TypeOK
<1>5. m # None => faqs'[m] = faqs[m]
  BY <1>1, <1>3, <1>4
<1> QED
  BY <1>1, <1>2, <1>5, NoMerchantIsNone

\* No step tells a topic twice while nobody re-enters or commits late.
LEMMA OnceStep ==
  ASSUME Typed, Young, HasBots, OneConnector, SessionsBound, RequestsBound,
         Untold, ToldOnce, [Next]_vars
  PROVE  Untold' /\ ToldOnce'
<1>0. /\ admins \in [Users -> Merchants \cup {None}]
      /\ \A v \in Users : past[v] \subseteq past'[v]
  BY PastGrows DEF Typed, TypeOK
<1>1. CASE UNCHANGED vars
  BY <1>1 DEF vars, Untold, ToldOnce, Calm
<1>2. CASE ~Calm'
  BY <1>2 DEF Untold, ToldOnce
<1>3. ASSUME Next, Calm'
      PROVE  Untold' /\ ToldOnce'
  <2>0. Calm
    BY <1>0, <1>3 DEF Calm
  <2>1. PICK r \in Requests : Reads(r) \/ Greets(r) \/ Attaches(r) \/ Commits(r)
    BY <1>3, StepKinds
  <2>2. CASE Reads(r)
    BY <2>2 DEF Reads, Untold, ToldOnce, Calm
  <2>3. PICK u : u = req[r].user
    OBVIOUS
  <2>4. {} \in SUBSET Marks /\ {} \in SUBSET Topics
    OBVIOUS
  <2>5. CASE Greets(r)
    <3>1. PICK s \in Sessions :
            /\ Save(r, s, req[r].row, {}, {}) /\ req[r].kind # "idle"
            /\ s.state \in Early /\ UNCHANGED admins
      BY <2>5 DEF Greets
    <3>2. u \in Users /\ \A v \in Users \ {u} : session'[v] = session[v]
      BY <2>3, <3>1, SaveSession
    <3>3. \A n \in Merchants : faqs'[n] = faqs[n]
      BY <3>1, NoRowAdded
    <3>4. session'[u] = s
      <4>1. req[r].row \in Rows
        BY DEF Typed, Records
      <4> QED
        BY <1>3, <2>3, <2>4, <3>1, <3>2, <4>1, FreshCommit DEF Calm
    <3>5. \A rows : Once(session[u], rows) => Once(session'[u], rows)
      BY <3>1, <3>4 DEF Once, FirstPass, Early, BeforeSource, TopicStates, Asking
    <3>6. Untold'
      BY <2>0, <3>1, <3>3 DEF Untold
    <3>7. ToldOnce'
      <4>1. ASSUME NEW v \in Users, admins[v] # None, "reentered" \notin past'[v]
            PROVE  Once(session'[v], faqs'[admins[v]])
        BY <1>0, <2>0, <3>2, <3>3, <3>5, <4>1 DEF ToldOnce
      <4> QED
        BY <3>1, <4>1 DEF ToldOnce
    <3> QED
      BY <3>6, <3>7
  <2>6. CASE Attaches(r)
    <3>1. PICK s \in Sessions, row \in Rows :
            /\ Save(r, s, row, {}, {}) /\ req[r].kind # "idle"
            /\ req[r].row.bot = None /\ req[r].merchant \in Merchants /\ req[r].merchant # None
            /\ s.state = "awaiting_shop_name" /\ s.data = req[r].sess.data
            /\ admins[u] = None /\ admins' = [admins EXCEPT ![u] = req[r].merchant]
      BY <2>3, <2>6 DEF Attaches
    <3>2. PICK m \in Merchants : m = req[r].merchant /\ m # None
      BY <3>1
    <3>3. u \in Users /\ \A v \in Users \ {u} : session'[v] = session[v]
      BY <2>3, <3>1, SaveSession
    <3>4. \A n \in Merchants : faqs'[n] = faqs[n]
      BY <3>1, NoRowAdded
    <3>5. session[u] = req[r].sess /\ session'[u] = s /\ merchants[m].bot = None
      BY <1>3, <2>3, <2>4, <3>1, <3>2, <3>3, FreshCommit DEF Calm
    <3>6. \A v \in Users : admins[v] # m
      BY <3>2, <3>5 DEF HasBots
    <3>7. \A t \in Topics : faqs[m][t] = 0
      BY <2>0, <3>6 DEF Untold
    <3>8. ~s.data.reentry
      BY <3>1, <3>3, <3>5 DEF Young, NoData
    <3>9. Once(s, faqs[m])
      BY <3>7, <3>8 DEF Once
    <3>10. admins'[u] = m /\ \A v \in Users \ {u} : admins'[v] = admins[v]
      BY <1>0, <3>1, <3>2, <3>3
    <3>11. Untold'
      BY <1>0, <2>0, <3>1, <3>3, <3>4, <3>10, NoMerchantIsNone DEF Untold
    <3>12. ToldOnce'
      <4>1. ASSUME NEW v \in Users, admins'[v] # None, "reentered" \notin past'[v]
            PROVE  Once(session'[v], faqs'[admins'[v]])
        <5>1. CASE v = u
          BY <3>2, <3>4, <3>5, <3>9, <3>10, <5>1
        <5>2. CASE v # u
          BY <1>0, <2>0, <3>3, <3>4, <3>10, <4>1, <5>2 DEF ToldOnce
        <5> QED
          BY <5>1, <5>2
      <4> QED
        BY <4>1 DEF ToldOnce
    <3> QED
      BY <3>11, <3>12
  <2>7. CASE Commits(r)
    <3>1. PICK s \in Sessions, row \in Rows, topics \in SUBSET Topics, marks \in SUBSET Marks :
            /\ Save(r, s, row, topics, marks) /\ req[r].kind \in LaterKinds
            /\ Writes(req[r], s, row, topics, marks, chosen[u], chosen'[u])
            /\ UNCHANGED admins
      BY <2>3, <2>7 DEF Commits
    <3>2. req[r].kind # "idle"
      BY <3>1 DEF LaterKinds
    <3>3. u \in Users /\ \A v \in Users \ {u} : session'[v] = session[v]
      BY <2>3, <3>1, <3>2, SaveSession
    <3>4. PICK m \in Merchants : m = admins[u] /\ m # None
      BY <1>0, <2>3, <3>1, <3>3 DEF Young
    <3>5. session[u] = req[r].sess /\ session'[u] = s
      BY <1>3, <2>3, <3>1, <3>2, <3>3, FreshCommit DEF Calm
    <3>6. req[r].merchant = m
      <4>1. req[r].merchant = req[r].sess.merchant
        BY <3>1 DEF Typed, Proper
      <4>2. session[u].merchant = m
        BY <2>0, <3>3, <3>4 DEF SessionsBound, Calm
      <4> QED
        BY <3>5, <4>1, <4>2
    <3>7. \A n \in Merchants : n # m => faqs'[n] = faqs[n]
      BY <3>1, <3>6, SaveFaqs
    <3>8. Untold'
      BY <1>0, <2>0, <3>1, <3>3, <3>4, <3>7 DEF Untold
    <3>9. "reentered" \notin past'[u] => Once(s, faqs'[m])
      <4>1. SUFFICES ASSUME "reentered" \notin past'[u] PROVE Once(s, faqs'[m])
        OBVIOUS
      <4>2. "reentered" \notin marks
        BY <2>3, <3>1, <3>2, <4>1, SavePast
      <4>3. Once(req[r].sess, faqs[m])
        BY <1>0, <2>0, <3>3, <3>4, <3>5, <4>1 DEF ToldOnce
      <4>4. PICK old, new : old = faqs[m] /\ new = faqs'[m]
        OBVIOUS
      <4>5. /\ old \in [Topics -> 0..2]
            /\ \A t \in Topics :
                 new[t] = IF t \in topics /\ old[t] < 2 THEN old[t] + 1 ELSE old[t]
        BY <3>1, <3>4, <3>6, <4>4, SaveFaqs DEF Typed, TypeOK
      <4> QED
        BY <3>1, <4>2, <4>3, <4>4, <4>5, OnceWritten
    <3>10. ToldOnce'
      <4>1. ASSUME NEW v \in Users, admins[v] # None, "reentered" \notin past'[v]
            PROVE  Once(session'[v], faqs'[admins[v]])
        <5>1. CASE v = u
          BY <3>4, <3>5, <3>9, <4>1, <5>1
        <5>2. CASE v # u
          <6>1. admins[v] # m
            BY <2>0, <3>3, <3>4, <4>1, <5>2 DEF OneConnector, Calm
          <6> QED
            BY <1>0, <2>0, <3>3, <3>7, <4>1, <5>2, <6>1 DEF ToldOnce
        <5> QED
          BY <5>1, <5>2
      <4> QED
        BY <3>1, <4>1 DEF ToldOnce
    <3> QED
      BY <3>8, <3>10
  <2> QED
    BY <2>1, <2>2, <2>5, <2>6, <2>7
<1> QED
  BY <1>1, <1>2, <1>3

\* There are no FAQ rows at first.
LEMMA OnceInit == Init => Untold /\ ToldOnce
BY DEF Init, Untold, ToldOnce

\* A topic has a second Faq row only after the shop's admin went through the topics
\* again, unless requests committed over rows that had changed.
THEOREM FaqRowsOnce == Spec => []FaqRowsNotDoubled
<1> DEFINE Inv == /\ Typed /\ Young /\ HasBots /\ OneConnector
                  /\ SessionsBound /\ RequestsBound /\ Untold /\ ToldOnce
<1>1. Init => Inv
  BY TypedInit, ConnectorInit, BoundInit, OnceInit
<1>2. Inv /\ [Next]_vars => Inv'
  BY TypedStep, YoungStep, HasBotsStep, OneConnectorStep, BoundStep, OnceStep
<1>3. Inv => FaqRowsNotDoubled
  BY DEF ToldOnce, Once, Calm, FaqRowsNotDoubled
<1> QED
  BY <1>1, <1>2, <1>3, PTL DEF Spec
=============================================================================
