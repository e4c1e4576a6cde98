---------------------------- MODULE HandoffProofs ----------------------------
(***************************************************************************)
(* Machine-checked proofs about Handoff, for any number of conversations,  *)
(* admins, concurrent requests and threads.                                *)
(***************************************************************************)
EXTENDS HandoffRefinement, TLAPS

Steps == {"idle", "stale", "answer", "reply", "escalate", "forward",
          "tell", "close", "relay", "commit"}
Copies == [Threads -> [ids : SUBSET MessageIds, at : Times]]

\* Loading rows keeps the session's copies in their type.
LEMMA LoadType ==
  ASSUME TypeOK, NEW r \in Requests, NEW found \in SUBSET Threads, Load(r, found)
  PROVE  /\ loaded' \in [Requests -> SUBSET Threads]
         /\ copy' \in [Requests -> Copies]
<1>1. /\ loaded \in [Requests -> SUBSET Threads]
      /\ copy \in [Requests -> Copies]
      /\ ids \in [Threads -> SUBSET MessageIds]
      /\ active \in [Threads -> Times]
  BY DEF TypeOK, Copies
<1> DEFINE new == [t \in Threads |-> IF t \in found \ loaded[r]
                     THEN [ids |-> ids[t], at |-> active[t]] ELSE copy[r][t]]
<1>2. new \in Copies
  BY <1>1 DEF Copies
<1>3. copy' = [copy EXCEPT ![r] = new]
  BY <1>1 DEF Load
<1> HIDE DEF new
<1> QED
  BY <1>1, <1>2, <1>3 DEF Load

\* A notification, sent or refused, keeps chats, copies and marks in their types.
LEMMA NotifyType ==
  ASSUME TypeOK, NEW r \in Requests, NEW a \in Admins, NEW t \in Threads,
         conv[r] \in Conversations, NEW held \in Copies, Notify(r, a, t, held)
  PROVE  /\ about' \in [Admins -> Seq(Conversations)]
         /\ \A b \in Admins : Len(about'[b]) <= MaxMessage
         /\ copy' \in [Requests -> Copies]
         /\ noted' \in [Requests -> SUBSET Threads]
<1>1. /\ about \in [Admins -> Seq(Conversations)]
      /\ \A b \in Admins : Len(about[b]) \in Nat /\ Len(about[b]) <= MaxMessage
      /\ copy \in [Requests -> Copies]
      /\ noted \in [Requests -> SUBSET Threads]
      /\ clock \in Times
      /\ MaxMessage \in Nat
  BY HandoffAssumption DEF TypeOK, Copies
<1>2. CASE /\ Len(about[a]) < MaxMessage
           /\ about' = [about EXCEPT ![a] = Append(@, conv[r])]
           /\ copy' = [copy EXCEPT ![r] =
                [held EXCEPT ![t] = [ids |-> @.ids \cup {Len(about[a]) + 1}, at |-> clock]]]
           /\ noted' = [noted EXCEPT ![r] = @ \cup {t}]
  <2> DEFINE chat == Append(about[a], conv[r])
             entry == [ids |-> held[t].ids \cup {Len(about[a]) + 1}, at |-> clock]
  <2>1. chat \in Seq(Conversations) /\ Len(chat) = Len(about[a]) + 1
    BY <1>1
  <2>2. Len(about[a]) + 1 \in MessageIds
    BY <1>1, <1>2 DEF MessageIds
  <2>3. entry \in [ids : SUBSET MessageIds, at : Times]
    BY <1>1, <2>2 DEF Copies
  <2>4. [held EXCEPT ![t] = entry] \in Copies
    BY <2>3 DEF Copies
  <2>5. /\ about' = [about EXCEPT ![a] = chat]
        /\ copy' = [copy EXCEPT ![r] = [held EXCEPT ![t] = entry]]
    BY <1>1, <1>2 DEF Copies
  <2> HIDE DEF chat, entry
  <2>6. about' \in [Admins -> Seq(Conversations)]
    BY <1>1, <2>1, <2>5
  <2>7. \A b \in Admins : Len(about'[b]) <= MaxMessage
    BY <1>1, <1>2, <2>1, <2>5
  <2> QED
    BY <1>1, <1>2, <2>4, <2>5, <2>6, <2>7
<1>3. CASE copy' = [copy EXCEPT ![r] = held] /\ UNCHANGED <<about, noted>>
  BY <1>1, <1>3
<1> QED
  BY <1>2, <1>3 DEF Notify

\* A flush keeps its marks in their types.
LEMMA FlushType ==
  ASSUME TypeOK, NEW r \in Requests, Flush(r)
  PROVE  /\ flushed' \in [Requests -> SUBSET Threads]
         /\ wrote' \in [Requests -> BOOLEAN]
<1>1. /\ wrote \in [Requests -> BOOLEAN]
      /\ flushed \in [Requests -> SUBSET Threads]
      /\ closing \in [Requests -> SUBSET Threads]
  BY DEF TypeOK
<1>2. flushed' \in [Requests -> SUBSET Threads]
  BY <1>1 DEF Flush
<1>3. \A v \in BOOLEAN : [wrote EXCEPT ![r] = v] \in [Requests -> BOOLEAN]
  BY <1>1
<1>4. wrote' = [wrote EXCEPT ![r] = wrote[r] \/ needs[r] # seen[r]]
  BY DEF Flush
<1>5. wrote' = [wrote EXCEPT ![r] = TRUE] \/ wrote' = [wrote EXCEPT ![r] = FALSE]
  <2>1. CASE wrote[r] \/ needs[r] # seen[r]
    <3>1. (wrote[r] \/ needs[r] # seen[r]) = TRUE
      BY <2>1
    <3> QED
      BY <1>4, <3>1
  <2>2. CASE ~(wrote[r] \/ needs[r] # seen[r])
    <3>1. (wrote[r] \/ needs[r] # seen[r]) = FALSE
      BY <2>2
    <3> QED
      BY <1>4, <3>1
  <2> QED
    BY <2>1, <2>2
<1> QED
  BY <1>2, <1>3, <1>5

\* The end of a request keeps its variables in their types.
LEMMA EndType ==
  ASSUME TypeOK, NEW r \in Requests, EndRequest(r)
  PROVE  /\ pc' \in [Requests -> Steps]
         /\ conv' \in [Requests -> Conversations \cup {NoConversation}]
         /\ seen' \in [Requests -> BOOLEAN] /\ needs' \in [Requests -> BOOLEAN]
         /\ todo' \in [Requests -> SUBSET Admins]
         /\ loaded' \in [Requests -> SUBSET Threads]
         /\ copy' \in [Requests -> Copies]
         /\ made' \in [Requests -> SUBSET Threads]
         /\ noted' \in [Requests -> SUBSET Threads]
         /\ closing' \in [Requests -> SUBSET Threads]
         /\ flushed' \in [Requests -> SUBSET Threads]
         /\ wrote' \in [Requests -> BOOLEAN]
         /\ answering' \in [Requests -> [admin : Admins \cup {NoAdmin}, message : 0..MaxMessage]]
         /\ \A q \in Requests : pc'[q] = "idle" <=> conv'[q] = NoConversation
<1>1. 0 \in Times /\ 0 \in 0..MaxMessage
  BY HandoffAssumption DEF Times
<1>2. [t \in Threads |-> Blank] \in Copies
  BY <1>1 DEF Copies, Blank
<1>3. NoAnswer \in [admin : Admins \cup {NoAdmin}, message : 0..MaxMessage]
  BY <1>1 DEF NoAnswer
<1>4. copy' \in [Requests -> Copies]
  BY <1>2 DEF EndRequest, TypeOK, Copies
<1>5. answering' \in [Requests -> [admin : Admins \cup {NoAdmin}, message : 0..MaxMessage]]
  BY <1>3 DEF EndRequest, TypeOK
<1> QED
  BY <1>4, <1>5 DEF EndRequest, TypeOK, Steps

\* Every step keeps every variable in its type.
LEMMA TypeStep == RoutingInv /\ [Next]_vars => TypeOK'
<1> SUFFICES ASSUME TypeOK, [Next]_vars PROVE RoutingInv => TypeOK'
  BY DEF RoutingInv
<1> USE HandoffAssumption
<1>0. \A r \in Requests : pc[r] # "idle" => conv[r] \in Conversations
  BY DEF TypeOK
<1>1. ASSUME NEW r \in Requests, NEW c \in Conversations,
             CustomerMessage(r, c) \/ CarouselTap(r, c) \/ ReleaseConversation(r, c)
      PROVE  TypeOK'
  <2>1. /\ UNCHANGED <<needsHuman, rowVars, clock, about, sessionVars, answering>>
        /\ \E to \in Steps \ {"idle"} : pc' = [pc EXCEPT ![r] = to]
        /\ conv' = [conv EXCEPT ![r] = c]
        /\ seen' = [seen EXCEPT ![r] = needsHuman[c]]
        /\ \/ needs' = [needs EXCEPT ![r] = needsHuman[c]]
           \/ needs' = [needs EXCEPT ![r] = FALSE]
           \/ needs' = [needs EXCEPT ![r] = TRUE]
        /\ todo' = [todo EXCEPT ![r] = Admins] \/ todo' = todo
    BY <1>1 DEF CustomerMessage, CarouselTap, ReleaseConversation, Goto, Steps
  <2>2. /\ pc' \in [Requests -> Steps]
        /\ conv' \in [Requests -> Conversations \cup {NoConversation}]
        /\ \A q \in Requests : pc'[q] = "idle" <=> conv'[q] = NoConversation
    BY <2>1 DEF TypeOK, Steps
  <2>3. seen' \in [Requests -> BOOLEAN] /\ needs' \in [Requests -> BOOLEAN]
    <3>1. /\ seen \in [Requests -> BOOLEAN] /\ needs \in [Requests -> BOOLEAN]
          /\ needsHuman[c] \in BOOLEAN
      BY DEF TypeOK
    <3>2. \A v \in BOOLEAN : /\ [seen EXCEPT ![r] = v] \in [Requests -> BOOLEAN]
                             /\ [needs EXCEPT ![r] = v] \in [Requests -> BOOLEAN]
      BY <3>1
    <3> QED
      BY <2>1, <3>1, <3>2
  <2>4. todo' \in [Requests -> SUBSET Admins]
    BY <2>1 DEF TypeOK
  <2> QED
    BY <2>1, <2>2, <2>3, <2>4 DEF TypeOK, rowVars, sessionVars, Steps
<1>2. ASSUME NEW r \in Requests, ReleaseIfStale(r) \/ Suppress(r) \/ CloseThreads(r)
      PROVE  TypeOK'
  <2>1. OpenThreads(conv[r]) \in SUBSET Threads /\ Load(r, OpenThreads(conv[r]))
    BY <1>2 DEF OpenThreads, ReleaseIfStale, Suppress, CloseThreads
  <2>2. loaded' \in [Requests -> SUBSET Threads] /\ copy' \in [Requests -> Copies]
    BY <2>1, LoadType
  <2>3. /\ UNCHANGED <<needsHuman, rowVars, clock, about, conv, seen, made, noted,
                        flushed, wrote, answering>>
        /\ \E to \in Steps \ {"idle"} : pc' = [pc EXCEPT ![r] = to]
        /\ pc[r] # "idle"
        /\ \E v \in BOOLEAN : needs' = [needs EXCEPT ![r] = v] \/ needs' = needs
    BY <1>2 DEF ReleaseIfStale, Suppress, CloseThreads, Goto, Steps
  <2>4. /\ pc' \in [Requests -> Steps]
        /\ \A q \in Requests : pc'[q] = "idle" <=> conv'[q] = NoConversation
    BY <2>3 DEF TypeOK, Steps
  <2>5. /\ todo' \in [Requests -> SUBSET Admins]
        /\ closing' \in [Requests -> SUBSET Threads]
    <3>1. /\ todo' = [todo EXCEPT ![r] = Admins] \/ todo' = todo
          /\ closing' = [closing EXCEPT ![r] = OpenThreads(conv[r])] \/ closing' = closing
      BY <1>2 DEF ReleaseIfStale, Suppress, CloseThreads
    <3>2. /\ todo \in [Requests -> SUBSET Admins]
          /\ closing \in [Requests -> SUBSET Threads]
      BY DEF TypeOK
    <3> QED
      BY <2>1, <3>1, <3>2
  <2>6. needs' \in [Requests -> BOOLEAN]
    <3>1. needs \in [Requests -> BOOLEAN]
      BY DEF TypeOK
    <3>2. \A v \in BOOLEAN : [needs EXCEPT ![r] = v] \in [Requests -> BOOLEAN]
      BY <3>1
    <3> QED
      BY <2>3, <3>1, <3>2
  <2> QED
    BY <2>2, <2>3, <2>4, <2>5, <2>6 DEF TypeOK, rowVars, Copies, Steps
<1>3. ASSUME NEW r \in Requests, BotAnswers(r) \/ Escalate(r) \/ NotifyDone(r) \/ SendReply(r)
      PROVE  TypeOK'
  <2>1. /\ UNCHANGED <<needsHuman, rowVars, clock, about, conv, seen, sessionVars, answering>>
        /\ \E to \in Steps \ {"idle"} : pc' = [pc EXCEPT ![r] = to]
        /\ pc[r] # "idle"
        /\ needs' = [needs EXCEPT ![r] = TRUE] \/ needs' = needs
        /\ todo' = [todo EXCEPT ![r] = Admins] \/ todo' = todo
    BY <1>3 DEF BotAnswers, Escalate, NotifyDone, SendReply, Goto, Steps
  <2>2. /\ pc' \in [Requests -> Steps]
        /\ \A q \in Requests : pc'[q] = "idle" <=> conv'[q] = NoConversation
    BY <2>1 DEF TypeOK, Steps
  <2>3. todo' \in [Requests -> SUBSET Admins]
    BY <2>1 DEF TypeOK
  <2>4. needs' \in [Requests -> BOOLEAN]
    <3>1. needs \in [Requests -> BOOLEAN]
      BY DEF TypeOK
    <3>2. [needs EXCEPT ![r] = TRUE] \in [Requests -> BOOLEAN]
      BY <3>1
    <3> QED
      BY <2>1, <3>1, <3>2
  <2> QED
    BY <2>1, <2>2, <2>3, <2>4 DEF TypeOK, rowVars, sessionVars, Steps
<1>4. ASSUME NEW r \in Requests, NEW a \in Admins, NotifyOnThread(r, a) PROVE TypeOK'
  <2>1. PICK t \in Found(r, a) :
          /\ loaded' = [loaded EXCEPT ![r] = @ \cup {t}]
          /\ Notify(r, a, t,
               IF t \in loaded[r] THEN copy[r]
               ELSE [copy[r] EXCEPT ![t] = [ids |-> ids[t], at |-> active[t]]])
    BY <1>4 DEF NotifyOnThread
  <2> DEFINE held == IF t \in loaded[r] THEN copy[r]
                     ELSE [copy[r] EXCEPT ![t] = [ids |-> ids[t], at |-> active[t]]]
  <2>2. t \in Threads
    BY DEF Found, OpenThreads, TypeOK
  <2>3. held \in Copies
    BY <2>2 DEF TypeOK, Copies
  <2>4. conv[r] \in Conversations
    BY <1>0, <1>4 DEF NotifyOnThread
  <2>5. Notify(r, a, t, held)
    BY <2>1
  <2> HIDE DEF held
  <2>6. /\ about' \in [Admins -> Seq(Conversations)]
        /\ \A b \in Admins : Len(about'[b]) <= MaxMessage
        /\ copy' \in [Requests -> Copies]
        /\ noted' \in [Requests -> SUBSET Threads]
    BY <2>2, <2>3, <2>4, <2>5, NotifyType
  <2> QED
    BY <1>4, <2>1, <2>2, <2>6 DEF NotifyOnThread, TypeOK, rowVars, Copies
<1>5. ASSUME NEW r \in Requests, NEW a \in Admins, NotifyOnNewThread(r, a) PROVE TypeOK'
  <2>1. PICK t \in Threads :
          /\ status' = [status EXCEPT ![t] = "inserted"]
          /\ owner' = [owner EXCEPT ![t] = a]
          /\ target' = [target EXCEPT ![t] = conv[r]]
          /\ made' = [made EXCEPT ![r] = @ \cup {t}]
          /\ loaded' = [loaded EXCEPT ![r] = @ \cup {t}]
          /\ Flush(r)
          /\ Notify(r, a, t, [copy[r] EXCEPT ![t] = [ids |-> {}, at |-> clock]])
    BY <1>5 DEF NotifyOnNewThread
  <2> DEFINE held == [copy[r] EXCEPT ![t] = [ids |-> {}, at |-> clock]]
  <2>2. held \in Copies
    BY DEF TypeOK, Copies
  <2>3. conv[r] \in Conversations
    BY <1>0, <1>5 DEF NotifyOnNewThread
  <2>4. Notify(r, a, t, held)
    BY <2>1
  <2> HIDE DEF held
  <2>5. /\ about' \in [Admins -> Seq(Conversations)]
        /\ \A b \in Admins : Len(about'[b]) <= MaxMessage
        /\ copy' \in [Requests -> Copies]
        /\ noted' \in [Requests -> SUBSET Threads]
    BY <2>2, <2>3, <2>4, NotifyType
  <2>6. /\ status' \in [Threads -> {"free", "inserted", "void", "open", "released"}]
        /\ owner' \in [Threads -> Admins \cup {NoAdmin}]
        /\ target' \in [Threads -> Conversations \cup {NoConversation}]
    BY <2>1, <2>3 DEF TypeOK
  <2>7. /\ made' \in [Requests -> SUBSET Threads]
        /\ loaded' \in [Requests -> SUBSET Threads]
        /\ flushed' \in [Requests -> SUBSET Threads]
    BY <2>1 DEF TypeOK, Flush
  <2>10. wrote' \in [Requests -> BOOLEAN]
    BY <2>1, FlushType
  <2>8. todo' \in [Requests -> SUBSET Admins]
    BY <1>5 DEF NotifyOnNewThread, TypeOK
  <2>9. UNCHANGED <<needsHuman, ids, active, clock, pc, conv, seen, needs, closing, answering>>
    BY <1>5 DEF NotifyOnNewThread
  <2> QED
    BY <2>5, <2>6, <2>7, <2>8, <2>9, <2>10 DEF TypeOK, Copies
<1>6. ASSUME NEW r \in Requests, NEW a \in Admins, NEW m \in MessageIds, AdminReply(r, a, m)
      PROVE  RoutingInv => TypeOK'
  <2>1. PICK t \in RepliedThreads(a, m) : conv' = [conv EXCEPT ![r] = target[t]]
    BY <1>6 DEF AdminReply
  <2>2. RoutingInv => target[t] \in Conversations
    BY DEF RepliedThreads, RoutingInv
  <2> QED
    BY <1>6, <2>1, <2>2 DEF AdminReply, Goto, TypeOK, rowVars, sessionVars, MessageIds
<1>7. ASSUME NEW r \in Requests, RelayToCustomer(r) PROVE TypeOK'
  BY <1>7, EndType DEF RelayToCustomer, TypeOK, rowVars, Copies, Steps
<1>8. ASSUME NEW r \in Requests, Commit(r) PROVE TypeOK'
  <2>1. conv[r] \in Conversations
    BY <1>0, <1>8 DEF Commit
  <2>2. needsHuman' \in [Conversations -> BOOLEAN]
    BY <1>8, <2>1 DEF Commit, FlagAfter, TypeOK
  <2>3. status' \in [Threads -> {"free", "inserted", "void", "open", "released"}]
    BY <1>8 DEF Commit, StatusAfter, TypeOK
  <2>4. ids' \in [Threads -> SUBSET MessageIds] /\ active' \in [Threads -> Times]
    BY <1>8 DEF Commit, TypeOK
  <2> QED
    BY <1>8, <2>2, <2>3, <2>4, EndType DEF Commit, TypeOK, Copies, Steps
<1>9. ASSUME NEW r \in Requests, Abort(r) PROVE TypeOK'
  BY <1>9, EndType DEF Abort, TypeOK, Copies, Steps
<1>12. ASSUME NEW r \in Requests, SearchPhoto(r) PROVE TypeOK'
  <2>1. /\ flushed' \in [Requests -> SUBSET Threads]
        /\ wrote' \in [Requests -> BOOLEAN]
    BY <1>12, FlushType DEF SearchPhoto
  <2>2. UNCHANGED <<needsHuman, status, owner, target, ids, active, clock, about, pc, conv,
                    seen, needs, todo, loaded, copy, made, noted, closing, answering>>
    BY <1>12 DEF SearchPhoto, rowVars
  <2> QED
    BY <2>1, <2>2 DEF TypeOK
<1>10. CASE Tick
  BY <1>10 DEF Tick, TypeOK, rowVars, sessionVars, Times
<1>11. CASE UNCHANGED vars
  BY <1>11 DEF vars, TypeOK
<1> QED
  BY <1>1, <1>2, <1>3, <1>4, <1>5, <1>6, <1>7, <1>8, <1>9, <1>10, <1>11, <1>12
  DEF Next, CustomerStep, AdminStep

-----------------------------------------------------------------------------
(* Routing.  The chats only grow, and a row that exists keeps its admin and *)
(* its conversation; so what is known of a message stays known.             *)

ChatsGrow ==
  \A b \in Admins :
    /\ Len(about[b]) <= Len(about'[b])
    /\ \A m \in 1..Len(about[b]) : about'[b][m] = about[b][m]

\* A message that was sent stays what it is.
LEMMA MessageStays ==
  ASSUME TypeOK, TypeOK', ChatsGrow, NEW b \in Admins, NEW m \in 1..Len(about[b])
  PROVE  m \in 1..Len(about'[b]) /\ about'[b][m] = about[b][m]
<1>1. Len(about[b]) \in Nat /\ Len(about'[b]) \in Nat
  BY DEF TypeOK
<1> QED
  BY <1>1 DEF ChatsGrow

\* A step that touches neither rows nor chats nor what sessions hold, and
\* leaves the requests relaying a reply alone, keeps the routing invariant.
LEMMA QuietStep ==
  ASSUME RoutingInv, TypeOK',
         UNCHANGED <<rowVars, about, loaded, copy, made, noted, closing, answering>>,
         \A q \in Requests : pc'[q] = "relay" => pc[q] = "relay" /\ conv'[q] = conv[q]
  PROVE  RoutingInv'
<1>1. UNCHANGED <<status, owner, target, ids, about, loaded, copy, made, noted, closing, answering>>
  BY DEF rowVars
<1> QED
  BY <1>1 DEF RoutingInv, KnownMessages

\* Reading the open threads of a conversation into the session.
LEMMA LoadStep ==
  ASSUME RoutingInv, TypeOK', NEW r \in Requests,
         UNCHANGED <<rowVars, about, made, noted, answering>>,
         Load(r, OpenThreads(conv[r])),
         closing' = closing \/ closing' = [closing EXCEPT ![r] = OpenThreads(conv[r])],
         \A q \in Requests : pc'[q] = "relay" => pc[q] = "relay" /\ conv'[q] = conv[q]
  PROVE  RoutingInv'
<1> DEFINE open == OpenThreads(conv[r])
<1>1. UNCHANGED <<status, owner, target, ids, about, made, noted, answering>>
  BY DEF rowVars
<1>2. /\ loaded \in [Requests -> SUBSET Threads]
      /\ copy \in [Requests -> Copies]
      /\ closing \in [Requests -> SUBSET Threads]
      /\ open \subseteq Threads /\ \A t \in open : status[t] = "open"
  BY DEF RoutingInv, TypeOK, Copies, OpenThreads
<1>3. /\ \A q \in Requests : q # r => loaded'[q] = loaded[q] /\ copy'[q] = copy[q]
      /\ loaded'[r] = loaded[r] \cup open
      /\ \A t \in loaded[r] : copy'[r][t] = copy[r][t]
      /\ \A t \in open \ loaded[r] : copy'[r][t].ids = ids[t]
  <2>1. copy'[r] = [t \in Threads |-> IF t \in open \ loaded[r]
                      THEN [ids |-> ids[t], at |-> active[t]] ELSE copy[r][t]]
    BY <1>2 DEF Load
  <2> QED
    BY <1>2, <2>1 DEF Load
<1>4. /\ \A q \in Requests : q # r => closing'[q] = closing[q]
      /\ closing'[r] = closing[r] \/ closing'[r] = open
  BY <1>2
<1>5. \A t \in Threads : \A kept : KnownMessages(t, kept)' <=> KnownMessages(t, kept)
  BY <1>1 DEF KnownMessages
<1> HIDE DEF open
<1>6. \A q \in Requests : \A t \in loaded'[q] :
        status'[t] # "free" /\ KnownMessages(t, copy'[q][t].ids)
  <2> SUFFICES ASSUME NEW q \in Requests, NEW t \in loaded'[q]
               PROVE  status[t] # "free" /\ KnownMessages(t, copy'[q][t].ids)
    BY <1>1
  <2>1. CASE t \in loaded[q]
    BY <1>3, <2>1 DEF RoutingInv
  <2>2. CASE t \notin loaded[q]
    <3>1. q = r /\ t \in open /\ copy'[q][t].ids = ids[t]
      BY <1>3, <2>2
    <3> QED
      BY <1>2, <3>1 DEF RoutingInv
  <2> QED
    BY <2>1, <2>2
<1>7. \A q \in Requests : noted'[q] \cup made'[q] \cup closing'[q] \subseteq loaded'[q]
  BY <1>1, <1>3, <1>4 DEF RoutingInv
<1>10. \A q \in Requests : \A t \in closing'[q] : status'[t] \in {"open", "released"}
  BY <1>1, <1>2, <1>4 DEF RoutingInv
<1>8. \A q \in Requests : \A t \in loaded'[q] : t \in Threads
  BY DEF TypeOK
<1>9. \A q \in Requests : \A t \in loaded'[q] : (status[t] # "free")' /\ KnownMessages(t, copy[q][t].ids)'
  BY <1>1, <1>6, <1>8 DEF KnownMessages
<1> QED
  BY <1>1, <1>5, <1>7, <1>9, <1>10 DEF RoutingInv

\* What a notification about conv[r] to admin a adds: chats grow, and the
\* session's copy of the thread gains at most the id of the new message.
LEMMA NotifyAdds ==
  ASSUME TypeOK, NEW r \in Requests, NEW a \in Admins, NEW t \in Threads,
         conv[r] \in Conversations, NEW held \in Copies, Notify(r, a, t, held)
  PROVE  /\ ChatsGrow
         /\ \A q \in Requests : q # r => copy'[q] = copy[q] /\ noted'[q] = noted[q]
         /\ noted'[r] \subseteq noted[r] \cup {t}
         /\ \A x \in Threads : x # t => copy'[r][x] = held[x]
         /\ \A m \in copy'[r][t].ids :
              \/ m \in held[t].ids
              \/ m \in 1..Len(about'[a]) /\ about'[a][m] = conv[r]
<1>1. /\ about \in [Admins -> Seq(Conversations)]
      /\ \A b \in Admins : Len(about[b]) \in Nat
      /\ copy \in [Requests -> Copies]
      /\ noted \in [Requests -> SUBSET Threads]
  BY DEF TypeOK, Copies
<1>2. CASE /\ about' = [about EXCEPT ![a] = Append(@, conv[r])]
           /\ copy' = [copy EXCEPT ![r] =
                [held EXCEPT ![t] = [ids |-> @.ids \cup {Len(about[a]) + 1}, at |-> clock]]]
           /\ noted' = [noted EXCEPT ![r] = @ \cup {t}]
  <2> DEFINE chat == Append(about[a], conv[r])
             n == Len(about[a]) + 1
             entry == [ids |-> held[t].ids \cup {n}, at |-> clock]
  <2>1. /\ Len(chat) = n /\ chat[n] = conv[r]
        /\ \A m \in 1..Len(about[a]) : chat[m] = about[a][m]
    BY <1>1
  <2>2. n \in Nat /\ n = Len(about[a]) + 1
    BY <1>1
  <2>3. /\ about' = [about EXCEPT ![a] = chat]
        /\ copy' = [copy EXCEPT ![r] = [held EXCEPT ![t] = entry]]
    BY <1>2 DEF Copies
  <2>4. entry.ids = held[t].ids \cup {n}
    OBVIOUS
  <2> HIDE DEF chat, n, entry
  <2>5. about'[a] = chat /\ \A b \in Admins : b # a => about'[b] = about[b]
    BY <1>1, <2>3
  <2>6. ChatsGrow
    <3> SUFFICES ASSUME NEW b \in Admins
                 PROVE  /\ Len(about[b]) <= Len(about'[b])
                        /\ \A m \in 1..Len(about[b]) : about'[b][m] = about[b][m]
      BY DEF ChatsGrow
    <3>1. CASE b = a
      BY <1>1, <2>1, <2>2, <2>5, <3>1
    <3>2. CASE b # a
      BY <1>1, <2>5, <3>2
    <3> QED
      BY <3>1, <3>2
  <2>7. /\ copy'[r][t] = entry
        /\ \A x \in Threads : x # t => copy'[r][x] = held[x]
        /\ \A q \in Requests : q # r => copy'[q] = copy[q]
    BY <1>1, <2>3 DEF Copies
  <2>8. n \in 1..Len(about'[a]) /\ about'[a][n] = conv[r]
    BY <2>1, <2>2, <2>5, <1>1
  <2>9. /\ \A q \in Requests : q # r => noted'[q] = noted[q]
        /\ noted'[r] \subseteq noted[r] \cup {t}
    BY <1>1, <1>2
  <2> QED
    BY <2>4, <2>6, <2>7, <2>8, <2>9
<1>3. CASE copy' = [copy EXCEPT ![r] = held] /\ UNCHANGED <<about, noted>>
  BY <1>1, <1>3 DEF ChatsGrow
<1> QED
  BY <1>2, <1>3 DEF Notify

\* A notification on a thread that was found.
LEMMA OnThreadStep ==
  ASSUME RoutingInv, TypeOK', NEW r \in Requests, NEW a \in Admins, NotifyOnThread(r, a)
  PROVE  RoutingInv'
<1>1. PICK t \in Found(r, a) :
        /\ loaded' = [loaded EXCEPT ![r] = @ \cup {t}]
        /\ Notify(r, a, t,
             IF t \in loaded[r] THEN copy[r]
             ELSE [copy[r] EXCEPT ![t] = [ids |-> ids[t], at |-> active[t]]])
  BY DEF NotifyOnThread
<1> DEFINE held == IF t \in loaded[r] THEN copy[r]
                   ELSE [copy[r] EXCEPT ![t] = [ids |-> ids[t], at |-> active[t]]]
<1>2. /\ UNCHANGED <<status, owner, target, ids, pc, conv, made, closing, answering>>
      /\ pc[r] \in {"escalate", "forward"}
  BY DEF NotifyOnThread, rowVars
<1>3. TypeOK /\ conv[r] \in Conversations
  BY <1>2 DEF RoutingInv, TypeOK
<1>4. t \in Threads /\ owner[t] = a /\ target[t] = conv[r] /\ status[t] # "free"
  BY DEF Found, OpenThreads, RoutingInv, TypeOK
<1>5. held \in Copies
  BY <1>3, <1>4 DEF TypeOK, Copies
<1>6. \A x \in loaded[r] \cup {t} : status[x] # "free" /\ KnownMessages(x, held[x].ids)
  <2>1. CASE t \in loaded[r]
    BY <2>1 DEF RoutingInv
  <2>2. CASE t \notin loaded[r]
    <3>1. copy[r] \in Copies
      BY <1>3 DEF TypeOK, Copies
    <3>2. /\ held[t].ids = ids[t]
          /\ \A x \in loaded[r] : held[x] = copy[r][x]
      BY <1>3, <1>4, <2>2, <3>1 DEF Copies, TypeOK
    <3> HIDE DEF held
    <3> QED
      BY <1>4, <2>2, <3>2 DEF RoutingInv
  <2> QED
    BY <2>1, <2>2
<1>7. Notify(r, a, t, held)
  BY <1>1
<1> HIDE DEF held
<1>8. /\ ChatsGrow
      /\ \A q \in Requests : q # r => copy'[q] = copy[q] /\ noted'[q] = noted[q]
      /\ noted'[r] \subseteq noted[r] \cup {t}
      /\ \A x \in Threads : x # t => copy'[r][x] = held[x]
      /\ \A m \in copy'[r][t].ids :
           \/ m \in held[t].ids
           \/ m \in 1..Len(about'[a]) /\ about'[a][m] = conv[r]
  BY <1>3, <1>4, <1>5, <1>7, NotifyAdds
<1>9. /\ \A q \in Requests : q # r => loaded'[q] = loaded[q]
      /\ loaded'[r] = loaded[r] \cup {t}
      /\ \A q \in Requests : loaded[q] \subseteq Threads
  BY <1>1, <1>3 DEF TypeOK
<1>10. \A x \in Threads : \A kept : KnownMessages(x, kept) =>
         \A m \in kept : /\ owner[x] \in Admins
                          /\ m \in 1..Len(about'[owner[x]])
                          /\ about'[owner[x]][m] = target[x]
  BY <1>3, <1>8, MessageStays DEF KnownMessages
<1>11. \A x \in Threads : KnownMessages(x, ids[x])'
  BY <1>2, <1>10 DEF RoutingInv, KnownMessages
<1>12. ASSUME NEW q \in Requests, NEW x \in loaded'[q]
       PROVE  (status[x] # "free")' /\ KnownMessages(x, copy[q][x].ids)'
  <2>0. x \in Threads
    BY <1>4, <1>9
  <2>1. CASE q # r
    <3>1. x \in loaded[q] /\ copy'[q][x] = copy[q][x]
      BY <1>8, <1>9, <2>1
    <3>2. status[x] # "free" /\ KnownMessages(x, copy[q][x].ids)
      BY <3>1 DEF RoutingInv
    <3>3. \A m \in copy[q][x].ids :
            /\ owner[x] \in Admins
            /\ m \in 1..Len(about'[owner[x]])
            /\ about'[owner[x]][m] = target[x]
      BY <1>10, <2>0, <3>2
    <3> QED
      BY <1>2, <3>1, <3>2, <3>3 DEF KnownMessages
  <2>2. CASE q = r /\ x # t
    BY <1>2, <1>6, <1>8, <1>9, <1>10, <2>0, <2>2 DEF KnownMessages
  <2>3. CASE q = r /\ x = t
    <3>1. \A m \in copy'[r][t].ids : m \in 1..Len(about'[a]) /\ about'[a][m] = conv[r]
      BY <1>4, <1>6, <1>8, <1>10
    <3> QED
      BY <1>2, <1>4, <2>3, <3>1 DEF KnownMessages
  <2> QED
    BY <2>1, <2>2, <2>3
<1>13. \A q \in Requests : noted'[q] \cup made'[q] \cup closing'[q] \subseteq loaded'[q]
  BY <1>2, <1>8, <1>9 DEF RoutingInv
<1>14. \A q \in Requests : pc'[q] = "relay" =>
         /\ answering'[q].admin \in Admins
         /\ answering'[q].message \in 1..Len(about'[answering'[q].admin])
         /\ conv'[q] = about'[answering'[q].admin][answering'[q].message]
  BY <1>2, <1>3, <1>8, MessageStays DEF RoutingInv
<1>15. /\ \A x \in Threads : status'[x] = "free" => ids'[x] = {}
       /\ \A x \in Threads : status'[x] # "free" => target'[x] \in Conversations
       /\ \A q \in Requests : \A x \in made'[q] :
            status'[x] = "inserted" /\ \A p \in Requests : x \in made'[p] => p = q
       /\ \A q \in Requests : \A x \in closing'[q] : status'[x] \in {"open", "released"}
  BY <1>2 DEF RoutingInv
<1> QED
  BY <1>11, <1>12, <1>13, <1>14, <1>15 DEF RoutingInv

\* A notification on a thread inserted for it.
LEMMA OnNewThreadStep ==
  ASSUME RoutingInv, TypeOK', NEW r \in Requests, NEW a \in Admins, NotifyOnNewThread(r, a)
  PROVE  RoutingInv'
<1>1. PICK t \in Threads :
        /\ status[t] = "free"
        /\ status' = [status EXCEPT ![t] = "inserted"]
        /\ owner' = [owner EXCEPT ![t] = a]
        /\ target' = [target EXCEPT ![t] = conv[r]]
        /\ made' = [made EXCEPT ![r] = @ \cup {t}]
        /\ loaded' = [loaded EXCEPT ![r] = @ \cup {t}]
        /\ Notify(r, a, t, [copy[r] EXCEPT ![t] = [ids |-> {}, at |-> clock]])
  BY DEF NotifyOnNewThread
<1> DEFINE held == [copy[r] EXCEPT ![t] = [ids |-> {}, at |-> clock]]
<1>2. /\ UNCHANGED <<ids, pc, conv, closing, answering>>
      /\ pc[r] \in {"escalate", "forward"}
  BY DEF NotifyOnNewThread
<1>3. TypeOK /\ conv[r] \in Conversations
  BY <1>2 DEF RoutingInv, TypeOK
<1>4. held \in Copies /\ held[t].ids = {} /\ \A x \in Threads : x # t => held[x] = copy[r][x]
  BY <1>3 DEF TypeOK, Copies
<1>5. Notify(r, a, t, held)
  BY <1>1
<1> HIDE DEF held
<1>6. /\ ChatsGrow
      /\ \A q \in Requests : q # r => copy'[q] = copy[q] /\ noted'[q] = noted[q]
      /\ noted'[r] \subseteq noted[r] \cup {t}
      /\ \A x \in Threads : x # t => copy'[r][x] = held[x]
      /\ \A m \in copy'[r][t].ids :
           \/ m \in held[t].ids
           \/ m \in 1..Len(about'[a]) /\ about'[a][m] = conv[r]
  BY <1>3, <1>4, <1>5, NotifyAdds
<1>7. /\ \A q \in Requests : q # r => loaded'[q] = loaded[q] /\ made'[q] = made[q]
      /\ loaded'[r] = loaded[r] \cup {t} /\ made'[r] = made[r] \cup {t}
      /\ \A q \in Requests : loaded[q] \subseteq Threads
  BY <1>1, <1>3 DEF TypeOK
<1>8. /\ status'[t] = "inserted" /\ owner'[t] = a /\ target'[t] = conv[r]
      /\ \A x \in Threads : x # t =>
           status'[x] = status[x] /\ owner'[x] = owner[x] /\ target'[x] = target[x]
  BY <1>1, <1>3 DEF TypeOK
<1>9. /\ \A q \in Requests : t \notin loaded[q] /\ t \notin made[q]
      /\ ids[t] = {}
  BY <1>1 DEF RoutingInv
<1>10. \A x \in Threads : \A kept : KnownMessages(x, kept) =>
         \A m \in kept : /\ owner[x] \in Admins
                          /\ m \in 1..Len(about'[owner[x]])
                          /\ about'[owner[x]][m] = target[x]
  BY <1>3, <1>6, MessageStays DEF KnownMessages
<1>11. \A x \in Threads : KnownMessages(x, ids[x])'
  <2> SUFFICES ASSUME NEW x \in Threads PROVE KnownMessages(x, ids[x])'
    OBVIOUS
  <2>1. CASE x = t
    BY <1>2, <1>9, <2>1 DEF KnownMessages
  <2>2. CASE x # t
    <3>1. KnownMessages(x, ids[x])
      BY DEF RoutingInv
    <3>2. \A m \in ids[x] :
            /\ owner[x] \in Admins
            /\ m \in 1..Len(about'[owner[x]])
            /\ about'[owner[x]][m] = target[x]
      BY <1>10, <3>1
    <3> QED
      BY <1>2, <1>8, <2>2, <3>2 DEF KnownMessages
  <2> QED
    BY <2>1, <2>2
<1>12. ASSUME NEW q \in Requests, NEW x \in loaded'[q]
       PROVE  (status[x] # "free")' /\ KnownMessages(x, copy[q][x].ids)'
  <2>0. x \in Threads
    BY <1>7
  <2>1. CASE x = t
    <3>1. q = r
      BY <1>7, <1>9, <2>1
    <3> QED
      BY <1>4, <1>6, <1>8, <2>1, <3>1 DEF KnownMessages
  <2>2. CASE x # t
    <3>1. x \in loaded[q] /\ copy'[q][x] = copy[q][x]
      BY <1>4, <1>6, <1>7, <2>0, <2>2
    <3>2. status[x] # "free" /\ KnownMessages(x, copy[q][x].ids)
      BY <3>1 DEF RoutingInv
    <3>3. \A m \in copy[q][x].ids :
            /\ owner[x] \in Admins
            /\ m \in 1..Len(about'[owner[x]])
            /\ about'[owner[x]][m] = target[x]
      BY <1>10, <2>0, <3>2
    <3>4. status'[x] = status[x] /\ owner'[x] = owner[x] /\ target'[x] = target[x]
      BY <1>8, <2>0, <2>2
    <3> QED
      BY <3>1, <3>2, <3>3, <3>4 DEF KnownMessages
  <2> QED
    BY <2>1, <2>2
<1>13. \A q \in Requests : noted'[q] \cup made'[q] \cup closing'[q] \subseteq loaded'[q]
  BY <1>2, <1>6, <1>7 DEF RoutingInv
<1>14. \A q \in Requests : pc'[q] = "relay" =>
         /\ answering'[q].admin \in Admins
         /\ answering'[q].message \in 1..Len(about'[answering'[q].admin])
         /\ conv'[q] = about'[answering'[q].admin][answering'[q].message]
  BY <1>2, <1>3, <1>6, MessageStays DEF RoutingInv
<1>15. /\ \A x \in Threads : status'[x] = "free" => ids'[x] = {}
       /\ \A x \in Threads : status'[x] # "free" => target'[x] \in Conversations
  BY <1>2, <1>3, <1>8 DEF RoutingInv
<1>16. \A q \in Requests : \A x \in made'[q] :
         status'[x] = "inserted" /\ \A p \in Requests : x \in made'[p] => p = q
  <2>1. \A q \in Requests : made[q] \subseteq Threads
    BY <1>3 DEF TypeOK
  <2> QED
    BY <1>3, <1>7, <1>8, <1>9, <2>1 DEF RoutingInv
<1>17. \A q \in Requests : \A x \in closing'[q] : status'[x] \in {"open", "released"}
  <2>1. \A q \in Requests : closing[q] \subseteq loaded[q]
    BY DEF RoutingInv
  <2> QED
    BY <1>2, <1>7, <1>8, <1>9, <2>1 DEF RoutingInv
<1> QED
  BY <1>11, <1>12, <1>13, <1>14, <1>15, <1>16, <1>17 DEF RoutingInv

\* A request that ends holds nothing any more; the others are not touched.
LEMMA EndEffect ==
  ASSUME TypeOK, NEW r \in Requests, EndRequest(r)
  PROVE  /\ pc'[r] = "idle"
         /\ loaded'[r] = {} /\ made'[r] = {} /\ noted'[r] = {} /\ closing'[r] = {}
         /\ \A q \in Requests : q # r =>
              /\ pc'[q] = pc[q] /\ conv'[q] = conv[q] /\ answering'[q] = answering[q]
              /\ loaded'[q] = loaded[q] /\ copy'[q] = copy[q] /\ made'[q] = made[q]
              /\ noted'[q] = noted[q] /\ closing'[q] = closing[q]
BY DEF EndRequest, TypeOK

\* When r ends and the rows' admins, conversations and messages stay what they
\* are, the invariant needs only what the step did to the rows.
LEMMA EndStep ==
  ASSUME RoutingInv, TypeOK', NEW r \in Requests, EndRequest(r),
         UNCHANGED <<owner, target, about>>,
         \A t \in Threads : KnownMessages(t, ids'[t]),
         \A t \in Threads : status'[t] = "free" => status[t] = "free" /\ ids'[t] = {},
         \A t \in Threads : status[t] = "free" => status'[t] = "free",
         \A t \in Threads : status[t] = "inserted" /\ t \notin made[r] => status'[t] = "inserted",
         \A t \in Threads : status[t] \in {"open", "released"} => status'[t] \in {"open", "released"}
  PROVE  RoutingInv'
<1>1. /\ \A q \in Requests : loaded[q] \subseteq Threads /\ closing[q] \subseteq Threads
                               /\ made[q] \subseteq Threads
      /\ TypeOK
  BY DEF RoutingInv, TypeOK
<1>2. /\ pc'[r] = "idle"
      /\ loaded'[r] = {} /\ made'[r] = {} /\ noted'[r] = {} /\ closing'[r] = {}
      /\ \A q \in Requests : q # r =>
           /\ pc'[q] = pc[q] /\ conv'[q] = conv[q] /\ answering'[q] = answering[q]
           /\ loaded'[q] = loaded[q] /\ copy'[q] = copy[q] /\ made'[q] = made[q]
           /\ noted'[q] = noted[q] /\ closing'[q] = closing[q]
  BY <1>1, EndEffect
<1>3. \A t, kept : KnownMessages(t, kept) =>
        \A m \in kept : /\ owner'[t] \in Admins
                         /\ m \in 1..Len(about'[owner'[t]])
                         /\ about'[owner'[t]][m] = target'[t]
  BY DEF KnownMessages
<1>4. \A t \in Threads : KnownMessages(t, ids[t])'
  BY <1>3 DEF KnownMessages
<1>5. ASSUME NEW q \in Requests, NEW t \in loaded'[q]
      PROVE  (status[t] # "free")' /\ KnownMessages(t, copy[q][t].ids)'
  <2>1. q # r /\ t \in loaded[q] /\ t \in Threads /\ copy'[q][t] = copy[q][t]
    BY <1>1, <1>2
  <2>2. status[t] # "free" /\ KnownMessages(t, copy[q][t].ids)
    BY <2>1 DEF RoutingInv
  <2>3. KnownMessages(t, copy[q][t].ids)'
    <3>1. \A m \in copy[q][t].ids :
            /\ owner'[t] \in Admins
            /\ m \in 1..Len(about'[owner'[t]])
            /\ about'[owner'[t]][m] = target'[t]
      BY <1>3, <2>2
    <3> QED
      BY <2>1, <3>1 DEF KnownMessages
  <2> QED
    BY <2>1, <2>2, <2>3
<1>6. \A q \in Requests : noted'[q] \cup made'[q] \cup closing'[q] \subseteq loaded'[q]
  BY <1>2 DEF RoutingInv
<1>7. \A q \in Requests : \A t \in made'[q] :
        status'[t] = "inserted" /\ \A p \in Requests : t \in made'[p] => p = q
  <2> SUFFICES ASSUME NEW q \in Requests, NEW t \in made'[q]
               PROVE  /\ status'[t] = "inserted"
                      /\ \A p \in Requests : t \in made'[p] => p = q
    OBVIOUS
  <2>1. q # r /\ t \in made[q] /\ t \in Threads
    BY <1>1, <1>2
  <2>2. status[t] = "inserted" /\ t \notin made[r]
    BY <2>1 DEF RoutingInv
  <2>3. \A p \in Requests : t \in made'[p] => t \in made[p]
    BY <1>2
  <2> QED
    BY <2>1, <2>2, <2>3 DEF RoutingInv
<1>8. \A q \in Requests : \A t \in closing'[q] : status'[t] \in {"open", "released"}
  BY <1>1, <1>2 DEF RoutingInv
<1>9. \A q \in Requests : pc'[q] = "relay" =>
        /\ answering'[q].admin \in Admins
        /\ answering'[q].message \in 1..Len(about'[answering'[q].admin])
        /\ conv'[q] = about'[answering'[q].admin][answering'[q].message]
  BY <1>2 DEF RoutingInv
<1>10. /\ \A t \in Threads : status'[t] = "free" => ids'[t] = {}
       /\ \A t \in Threads : status'[t] # "free" => target'[t] \in Conversations
  BY DEF RoutingInv
<1> QED
  BY <1>4, <1>5, <1>6, <1>7, <1>8, <1>9, <1>10 DEF RoutingInv

\* The commit writes only what the request knows, on rows it may write.
LEMMA CommitStep ==
  ASSUME RoutingInv, TypeOK', NEW r \in Requests, Commit(r)
  PROVE  RoutingInv'
<1>1. /\ status' = [t \in Threads |-> StatusAfter(r, t)]
      /\ ids' = [t \in Threads |-> IF t \in noted[r] THEN copy[r][t].ids ELSE ids[t]]
      /\ EndRequest(r) /\ UNCHANGED <<owner, target, about>>
  BY DEF Commit
<1>2. /\ noted[r] \subseteq loaded[r] /\ closing[r] \subseteq loaded[r]
      /\ \A t \in loaded[r] : status[t] # "free" /\ KnownMessages(t, copy[r][t].ids)
      /\ \A t \in made[r] : status[t] = "inserted"
      /\ \A t \in closing[r] : status[t] \in {"open", "released"}
      /\ \A t \in Threads : KnownMessages(t, ids[t]) /\ (status[t] = "free" => ids[t] = {})
  BY DEF RoutingInv
<1>3. \A t \in Threads : KnownMessages(t, ids'[t])
  <2> SUFFICES ASSUME NEW t \in Threads PROVE KnownMessages(t, ids'[t])
    OBVIOUS
  <2>1. CASE t \in noted[r]
    BY <1>1, <1>2, <2>1
  <2>2. CASE t \notin noted[r]
    BY <1>1, <1>2, <2>2
  <2> QED
    BY <2>1, <2>2
<1>4. \A t \in Threads : status'[t] = StatusAfter(r, t)
  BY <1>1
<1>5. \A t \in Threads : status'[t] = "free" => status[t] = "free" /\ ids'[t] = {}
  BY <1>1, <1>2, <1>4 DEF StatusAfter
<1>6. /\ \A t \in Threads : status[t] = "free" => status'[t] = "free"
      /\ \A t \in Threads : status[t] = "inserted" /\ t \notin made[r] => status'[t] = "inserted"
      /\ \A t \in Threads : status[t] \in {"open", "released"} => status'[t] \in {"open", "released"}
  BY <1>2, <1>4 DEF StatusAfter
<1> QED
  BY <1>1, <1>3, <1>5, <1>6, EndStep

\* A rollback leaves the committed rows alone.
LEMMA AbortStep ==
  ASSUME RoutingInv, TypeOK', NEW r \in Requests, Abort(r)
  PROVE  RoutingInv'
<1>1. /\ status' = [t \in Threads |-> IF t \in made[r] THEN "void" ELSE status[t]]
      /\ EndRequest(r) /\ UNCHANGED <<owner, target, about, ids>>
  BY DEF Abort
<1>2. \A t \in made[r] : status[t] = "inserted"
  BY DEF RoutingInv
<1>3. \A t \in Threads : KnownMessages(t, ids[t]) /\ (status[t] = "free" => ids[t] = {})
  BY DEF RoutingInv
<1> QED
  BY <1>1, <1>2, <1>3, EndStep

\* The admin's reply is relayed and the request ends.
LEMMA RelayStep ==
  ASSUME RoutingInv, TypeOK', NEW r \in Requests, RelayToCustomer(r)
  PROVE  RoutingInv'
<1>1. EndRequest(r) /\ UNCHANGED <<status, owner, target, ids, about>>
  BY DEF RelayToCustomer, rowVars
<1>2. \A t \in Threads : KnownMessages(t, ids[t]) /\ (status[t] = "free" => ids[t] = {})
  BY DEF RoutingInv
<1> QED
  BY <1>1, <1>2, EndStep

\* An admin's reply picks a thread that holds the message, hence its customer.
LEMMA AdminReplyStep ==
  ASSUME RoutingInv, TypeOK', NEW r \in Requests, NEW a \in Admins, NEW m \in MessageIds,
         AdminReply(r, a, m)
  PROVE  RoutingInv'
<1>1. PICK t \in RepliedThreads(a, m) : conv' = [conv EXCEPT ![r] = target[t]]
  BY DEF AdminReply
<1>2. /\ pc' = [pc EXCEPT ![r] = "relay"]
      /\ answering' = [answering EXCEPT ![r] = [admin |-> a, message |-> m]]
      /\ UNCHANGED <<status, owner, target, ids, about, loaded, copy, made, noted, closing>>
  BY DEF AdminReply, Goto, rowVars, sessionVars
<1>3. m \in 1..Len(about[a]) /\ about[a][m] = target[t]
  BY DEF RepliedThreads, RoutingInv, KnownMessages
<1>4. /\ pc \in [Requests -> Steps]
      /\ conv \in [Requests -> Conversations \cup {NoConversation}]
      /\ answering \in [Requests -> [admin : Admins \cup {NoAdmin}, message : 0..MaxMessage]]
  BY DEF RoutingInv, TypeOK, Steps
<1>5. /\ conv'[r] = target[t]
      /\ answering'[r].admin = a /\ answering'[r].message = m
      /\ \A q \in Requests : q # r =>
           pc'[q] = pc[q] /\ conv'[q] = conv[q] /\ answering'[q] = answering[q]
  BY <1>1, <1>2, <1>4
<1>6. \A q \in Requests : pc'[q] = "relay" =>
        /\ answering'[q].admin \in Admins
        /\ answering'[q].message \in 1..Len(about[answering'[q].admin])
        /\ conv'[q] = about[answering'[q].admin][answering'[q].message]
  <2> SUFFICES ASSUME NEW q \in Requests, pc'[q] = "relay"
               PROVE  /\ answering'[q].admin \in Admins
                      /\ answering'[q].message \in 1..Len(about[answering'[q].admin])
                      /\ conv'[q] = about[answering'[q].admin][answering'[q].message]
    OBVIOUS
  <2>1. CASE q = r
    BY <1>3, <1>5, <2>1
  <2>2. CASE q # r
    BY <1>5, <2>2 DEF RoutingInv
  <2> QED
    BY <2>1, <2>2
<1>7. \A x, kept : KnownMessages(x, kept)' <=> KnownMessages(x, kept)
  BY <1>2 DEF KnownMessages
<1> QED
  BY <1>2, <1>6, <1>7 DEF RoutingInv, KnownMessages

\* Every step keeps the routing invariant.
LEMMA RoutingStep == RoutingInv /\ [Next]_vars => RoutingInv'
<1> SUFFICES ASSUME RoutingInv, [Next]_vars PROVE RoutingInv'
  OBVIOUS
<1>0. TypeOK /\ TypeOK'
  BY TypeStep DEF RoutingInv
<1>1. /\ pc \in [Requests -> Steps]
      /\ conv \in [Requests -> Conversations \cup {NoConversation}]
  BY <1>0 DEF TypeOK, Steps
<1>2. ASSUME NEW r \in Requests, NEW c \in Conversations,
             CustomerMessage(r, c) \/ CarouselTap(r, c) \/ ReleaseConversation(r, c)
      PROVE  RoutingInv'
  <2>1. \A q \in Requests : pc'[q] = "relay" => pc[q] = "relay" /\ conv'[q] = conv[q]
    BY <1>1, <1>2 DEF CustomerMessage, CarouselTap, ReleaseConversation, Goto
  <2>2. UNCHANGED <<rowVars, about, loaded, copy, made, noted, closing, answering>>
    BY <1>2 DEF CustomerMessage, CarouselTap, ReleaseConversation, sessionVars
  <2> QED
    BY <1>0, <2>1, <2>2, QuietStep
<1>3. ASSUME NEW r \in Requests, ReleaseIfStale(r) \/ Suppress(r) \/ CloseThreads(r)
      PROVE  RoutingInv'
  <2>1. \A q \in Requests : pc'[q] = "relay" => pc[q] = "relay" /\ conv'[q] = conv[q]
    BY <1>1, <1>3 DEF ReleaseIfStale, Suppress, CloseThreads, Goto
  <2>2. /\ UNCHANGED <<rowVars, about, made, noted, answering>>
        /\ Load(r, OpenThreads(conv[r]))
        /\ closing' = closing \/ closing' = [closing EXCEPT ![r] = OpenThreads(conv[r])]
    BY <1>3 DEF ReleaseIfStale, Suppress, CloseThreads
  <2> QED
    BY <1>0, <2>1, <2>2, LoadStep
<1>4. ASSUME NEW r \in Requests,
             SearchPhoto(r) \/ BotAnswers(r) \/ Escalate(r) \/ NotifyDone(r) \/ SendReply(r)
      PROVE  RoutingInv'
  <2>1. \A q \in Requests : pc'[q] = "relay" => pc[q] = "relay" /\ conv'[q] = conv[q]
    BY <1>1, <1>4 DEF SearchPhoto, BotAnswers, Escalate, NotifyDone, SendReply, Goto
  <2>2. UNCHANGED <<rowVars, about, loaded, copy, made, noted, closing, answering>>
    BY <1>4 DEF SearchPhoto, BotAnswers, Escalate, NotifyDone, SendReply, sessionVars
  <2> QED
    BY <1>0, <2>1, <2>2, QuietStep
<1>5. CASE Tick
  BY <1>0, <1>5, QuietStep DEF Tick, sessionVars
<1>6. CASE UNCHANGED vars
  BY <1>0, <1>6, QuietStep DEF vars, rowVars, sessionVars
<1> QED
  BY <1>0, <1>2, <1>3, <1>4, <1>5, <1>6, OnThreadStep, OnNewThreadStep, AdminReplyStep,
     RelayStep, CommitStep, AbortStep
  DEF Next, CustomerStep, AdminStep

\* Nothing is kept and nothing is on its way at the start.
LEMMA RoutingInit == Init => RoutingInv
<1> SUFFICES ASSUME Init PROVE RoutingInv
  OBVIOUS
<1>1. 0 \in Times /\ 0 \in 0..MaxMessage
  BY HandoffAssumption DEF Times
<1>2. /\ about \in [Admins -> Seq(Conversations)]
      /\ \A a \in Admins : Len(about[a]) <= MaxMessage
  BY HandoffAssumption DEF Init
<1>3. /\ copy \in [Requests -> [Threads -> [ids : SUBSET MessageIds, at : Times]]]
      /\ answering \in [Requests -> [admin : Admins \cup {NoAdmin}, message : 0..MaxMessage]]
  BY <1>1 DEF Init, Blank, NoAnswer
<1>4. TypeOK
  BY <1>1, <1>2, <1>3 DEF Init, TypeOK
<1> QED
  BY <1>4 DEF Init, RoutingInv, KnownMessages

-----------------------------------------------------------------------------

\* The bookkeeping that routes admins' replies is right in every reachable state.
THEOREM RoutingSound == Spec => []RoutingInv
BY RoutingInit, RoutingStep, PTL DEF Spec

\* Every variable of the hand-off keeps its type.
THEOREM HandoffTyped == Spec => []TypeOK
<1>1. RoutingInv => TypeOK
  BY DEF RoutingInv
<1> QED
  BY <1>1, RoutingSound, PTL

\* An admin's reply goes to the customer the replied-to message was about.
THEOREM RepliesRouted == Spec => []RepliesReachTheirCustomer
<1>1. RoutingInv => RepliesReachTheirCustomer
  BY DEF RoutingInv, RepliesReachTheirCustomer
<1> QED
  BY <1>1, RoutingSound, PTL

-----------------------------------------------------------------------------

\* No step reopens a released thread: a row is opened only by the request that
\* inserted it, and a released row is not an inserted one.
LEMMA ReleasedStep ==
  ASSUME RoutingInv, [Next]_vars, NEW t \in Threads, status[t] = "released"
  PROVE  status'[t] = "released"
<1>1. status \in [Threads -> {"free", "inserted", "void", "open", "released"}]
  BY DEF RoutingInv, TypeOK
<1>2. \A r \in Requests : t \notin made[r]
  BY DEF RoutingInv
<1>3. ASSUME NEW r \in Requests, NEW a \in Admins, NotifyOnNewThread(r, a)
      PROVE  status'[t] = "released"
  BY <1>1, <1>3 DEF NotifyOnNewThread
<1>4. ASSUME NEW r \in Requests, Commit(r) PROVE status'[t] = "released"
  BY <1>2, <1>4 DEF Commit, StatusAfter
<1>5. ASSUME NEW r \in Requests, Abort(r) PROVE status'[t] = "released"
  BY <1>2, <1>5 DEF Abort
<1>6. ASSUME NEW r \in Requests, NEW c \in Conversations,
             CustomerMessage(r, c) \/ CarouselTap(r, c) \/ ReleaseConversation(r, c)
      PROVE  status' = status
  BY <1>6 DEF CustomerMessage, CarouselTap, ReleaseConversation, rowVars
<1>7. ASSUME NEW r \in Requests,
             \/ ReleaseIfStale(r) \/ Suppress(r) \/ SearchPhoto(r) \/ BotAnswers(r) \/ Escalate(r)
             \/ NotifyDone(r) \/ SendReply(r) \/ CloseThreads(r) \/ RelayToCustomer(r)
      PROVE  status' = status
  BY <1>7 DEF ReleaseIfStale, Suppress, SearchPhoto, BotAnswers, Escalate, NotifyDone, SendReply,
              CloseThreads, RelayToCustomer, rowVars
<1>8. ASSUME NEW r \in Requests, NEW a \in Admins,
             NotifyOnThread(r, a) \/ \E m \in MessageIds : AdminReply(r, a, m)
      PROVE  status' = status
  BY <1>8 DEF NotifyOnThread, AdminReply, rowVars
<1>9. CASE Tick \/ UNCHANGED vars
  BY <1>9 DEF Tick, vars, rowVars
<1> QED
  BY <1>3, <1>4, <1>5, <1>6, <1>7, <1>8, <1>9 DEF Next, CustomerStep, AdminStep

\* A released thread stays released.
THEOREM ReleasedForGood == Spec => ReleasedStaysReleased
<1>1. RoutingInv /\ [Next]_vars =>
        [\A t \in Threads : status[t] = "released" => status'[t] = "released"]_vars
  BY ReleasedStep
<1> QED
  BY <1>1, RoutingSound, PTL DEF Spec, ReleasedStaysReleased

\* What clearing the flag rests on: a request that wrote it, and means it to be
\* clear, had loaded it as set.
FlagInv ==
  \A r \in Requests :
    /\ pc[r] = "idle" => ~wrote[r]
    /\ pc[r] = "stale" => seen[r]
    /\ wrote[r] /\ ~needs[r] => seen[r]

\* Every step keeps it.
LEMMA FlagInvStep ==
  ASSUME TypeOK, FlagInv, [Next]_vars
  PROVE  FlagInv'
<1>1. /\ pc \in [Requests -> Steps]
      /\ seen \in [Requests -> BOOLEAN] /\ needs \in [Requests -> BOOLEAN]
      /\ wrote \in [Requests -> BOOLEAN]
      /\ needsHuman \in [Conversations -> BOOLEAN]
  BY DEF TypeOK, Steps
<1>2. ASSUME NEW r \in Requests, NEW c \in Conversations,
             CustomerMessage(r, c) \/ CarouselTap(r, c) \/ ReleaseConversation(r, c)
      PROVE  FlagInv'
  <2>1. pc[r] = "idle" /\ wrote' = wrote
    BY <1>2 DEF CustomerMessage, CarouselTap, ReleaseConversation, Goto, sessionVars
  <2>2. \A q \in Requests : q # r => pc'[q] = pc[q] /\ seen'[q] = seen[q] /\ needs'[q] = needs[q]
    BY <1>1, <1>2 DEF CustomerMessage, CarouselTap, ReleaseConversation, Goto
  <2>3. /\ seen'[r] = needsHuman[c] /\ pc'[r] # "idle"
        /\ pc'[r] = "stale" => needsHuman[c]
    BY <1>1, <1>2 DEF CustomerMessage, CarouselTap, ReleaseConversation, Goto
  <2> QED
    BY <2>1, <2>2, <2>3 DEF FlagInv
<1>3. ASSUME NEW r \in Requests,
             \/ Suppress(r) \/ BotAnswers(r) \/ NotifyDone(r) \/ SendReply(r) \/ CloseThreads(r)
             \/ \E a \in Admins, m \in MessageIds : AdminReply(r, a, m)
      PROVE  FlagInv'
  <2>1. UNCHANGED <<seen, needs, wrote>>
    BY <1>3 DEF Suppress, BotAnswers, NotifyDone, SendReply, CloseThreads, AdminReply, sessionVars
  <2>2. \E to \in Steps \ {"idle", "stale"} : pc' = [pc EXCEPT ![r] = to]
    BY <1>3 DEF Suppress, BotAnswers, NotifyDone, SendReply, CloseThreads, AdminReply, Goto, Steps
  <2> QED
    BY <1>1, <2>1, <2>2 DEF FlagInv
<1>4. ASSUME NEW r \in Requests, NEW a \in Admins, NotifyOnThread(r, a)
      PROVE  FlagInv'
  BY <1>4 DEF NotifyOnThread, FlagInv
<1>5. ASSUME NEW r \in Requests, ReleaseIfStale(r) PROVE FlagInv'
  <2>1. /\ pc[r] = "stale" /\ pc' = [pc EXCEPT ![r] = "answer"]
        /\ needs' = [needs EXCEPT ![r] = FALSE] /\ UNCHANGED <<seen, wrote>>
    BY <1>5 DEF ReleaseIfStale, Goto
  <2>2. /\ pc'[r] = "answer" /\ seen'[r]
        /\ \A q \in Requests : q # r =>
             pc'[q] = pc[q] /\ needs'[q] = needs[q] /\ seen'[q] = seen[q] /\ wrote'[q] = wrote[q]
    BY <1>1, <2>1 DEF FlagInv
  <2> QED
    BY <2>2 DEF FlagInv
<1>6. ASSUME NEW r \in Requests, Escalate(r) PROVE FlagInv'
  <2>1. /\ pc' = [pc EXCEPT ![r] = "escalate"]
        /\ needs' = [needs EXCEPT ![r] = TRUE] /\ UNCHANGED <<seen, wrote>>
    BY <1>6 DEF Escalate, Goto, sessionVars
  <2>2. /\ pc'[r] = "escalate" /\ needs'[r]
        /\ \A q \in Requests : q # r =>
             pc'[q] = pc[q] /\ needs'[q] = needs[q] /\ seen'[q] = seen[q] /\ wrote'[q] = wrote[q]
    BY <1>1, <2>1
  <2> QED
    BY <2>2 DEF FlagInv
<1>7. ASSUME NEW r \in Requests, Flush(r), pc[r] # "idle", UNCHANGED <<pc, seen, needs>>
      PROVE  FlagInv'
  <2>1. \A q \in Requests : q # r => wrote'[q] = wrote[q]
    BY <1>1, <1>7 DEF Flush
  <2>2. wrote'[r] <=> wrote[r] \/ needs[r] # seen[r]
    BY <1>1, <1>7 DEF Flush
  <2>3. needs[r] # seen[r] /\ ~needs[r] => seen[r]
    BY <1>1
  <2> QED
    BY <1>7, <2>1, <2>2, <2>3 DEF FlagInv
<1>8. ASSUME NEW r \in Requests, EndRequest(r) PROVE FlagInv'
  <2>1. /\ pc'[r] = "idle" /\ ~wrote'[r]
        /\ \A q \in Requests : q # r =>
             pc'[q] = pc[q] /\ needs'[q] = needs[q] /\ seen'[q] = seen[q] /\ wrote'[q] = wrote[q]
    BY <1>1, <1>8 DEF EndRequest
  <2> QED
    BY <2>1 DEF FlagInv
<1>9. ASSUME NEW r \in Requests, SearchPhoto(r) \/ \E a \in Admins : NotifyOnNewThread(r, a)
      PROVE  FlagInv'
  <2>1. Flush(r) /\ pc[r] # "idle" /\ UNCHANGED <<pc, seen, needs>>
    BY <1>9 DEF SearchPhoto, NotifyOnNewThread
  <2> QED
    BY <1>7, <2>1
<1>10. ASSUME NEW r \in Requests, RelayToCustomer(r) \/ Commit(r) \/ Abort(r) PROVE FlagInv'
  <2>1. EndRequest(r)
    BY <1>10 DEF RelayToCustomer, Commit, Abort
  <2> QED
    BY <1>8, <2>1
<1>11. CASE Tick \/ UNCHANGED vars
  BY <1>11 DEF Tick, vars, sessionVars, FlagInv
<1> QED
  BY <1>2, <1>3, <1>4, <1>5, <1>6, <1>9, <1>10, <1>11 DEF Next, CustomerStep, AdminStep

\* The flag is written by commits only, and cleared only by a request that
\* loaded it as set and means it to be clear.
LEMMA FlagStep ==
  ASSUME TypeOK, FlagInv, [Next]_vars, NEW c \in Conversations, needsHuman[c], ~needsHuman'[c]
  PROVE  \E r \in Requests : conv[r] = c /\ pc[r] = "commit" /\ seen[r] /\ ~needs[r]
<1>1. /\ needsHuman \in [Conversations -> BOOLEAN]
      /\ seen \in [Requests -> BOOLEAN] /\ needs \in [Requests -> BOOLEAN]
  BY DEF TypeOK
<1>2. needsHuman' # needsHuman
  OBVIOUS
<1>3. ASSUME NEW r \in Requests, NEW d \in Conversations
      PROVE  ~CustomerMessage(r, d) /\ ~CarouselTap(r, d) /\ ~ReleaseConversation(r, d)
  BY <1>2 DEF CustomerMessage, CarouselTap, ReleaseConversation
<1>4. ASSUME NEW r \in Requests
      PROVE  /\ ~ReleaseIfStale(r) /\ ~Suppress(r) /\ ~SearchPhoto(r) /\ ~BotAnswers(r)
             /\ ~Escalate(r) /\ ~NotifyDone(r) /\ ~SendReply(r) /\ ~CloseThreads(r)
             /\ ~RelayToCustomer(r) /\ ~Abort(r)
  BY <1>2 DEF ReleaseIfStale, Suppress, SearchPhoto, BotAnswers, Escalate, NotifyDone,
              SendReply, CloseThreads, RelayToCustomer, Abort
<1>5. ASSUME NEW r \in Requests, NEW a \in Admins
      PROVE  /\ ~NotifyOnThread(r, a) /\ ~NotifyOnNewThread(r, a)
             /\ \A m \in MessageIds : ~AdminReply(r, a, m)
  BY <1>2 DEF NotifyOnThread, NotifyOnNewThread, AdminReply
<1>6. ~Tick /\ ~UNCHANGED vars
  BY <1>2 DEF Tick, vars
<1>7. PICK r \in Requests : Commit(r)
  BY <1>3, <1>4, <1>5, <1>6 DEF Next, CustomerStep, AdminStep
<1>8. pc[r] = "commit" /\ needsHuman' = [needsHuman EXCEPT ![conv[r]] = FlagAfter(r)]
  BY <1>7 DEF Commit
<1>9. conv[r] = c
  BY <1>1, <1>8
<1>10. ~FlagAfter(r)
  BY <1>1, <1>8, <1>9
<1>11. ~needs[r] /\ (wrote[r] \/ needs[r] # seen[r])
  BY <1>9, <1>10 DEF FlagAfter
<1>12. seen[r] \in BOOLEAN /\ needs[r] \in BOOLEAN
  BY <1>1
<1>13. seen[r]
  BY <1>11, <1>12 DEF FlagInv
<1> QED
  BY <1>8, <1>9, <1>11, <1>13

\* An escalation is undone only by a request that saw it and handed it back.
THEOREM EscalationsKept == Spec => EscalationNotLost
<1>1. Init => FlagInv
  BY DEF Init, FlagInv
<1>2. TypeOK /\ FlagInv /\ [Next]_vars => FlagInv'
  BY FlagInvStep
<1>3. TypeOK /\ FlagInv /\ [Next]_vars =>
        [\A c \in Conversations : needsHuman[c] /\ ~needsHuman'[c] =>
           \E r \in Requests : conv[r] = c /\ pc[r] = "commit" /\ seen[r] /\ ~needs[r]]_vars
  BY FlagStep
<1> QED
  BY <1>1, <1>2, <1>3, HandoffTyped, PTL DEF Spec, EscalationNotLost

-----------------------------------------------------------------------------
(* Silence while the admins have the conversation.                          *)

\* What a request that is alone knows: the flag is as it loaded it, and it answers
\* only if the flag was clear or it hands the conversation back.
AloneInv ==
  \A r \in Requests :
    /\ pc[r] \notin {"idle", "relay"} => seen[r] = needsHuman[conv[r]]
    /\ pc[r] \in {"answer", "reply"} => ~seen[r] \/ closing[r] # {}

\* Every step keeps it while one request is served at a time.
LEMMA AloneStep ==
  ASSUME \A q, r \in Requests : q = r, TypeOK, AloneInv, [Next]_vars
  PROVE  AloneInv'
<1>1. /\ pc \in [Requests -> Steps] /\ seen \in [Requests -> BOOLEAN]
      /\ conv \in [Requests -> Conversations \cup {NoConversation}]
      /\ closing \in [Requests -> SUBSET Threads]
      /\ needsHuman \in [Conversations -> BOOLEAN]
  BY DEF TypeOK, Steps
<1>2. ASSUME NEW r \in Requests, NEW c \in Conversations,
             CustomerMessage(r, c) \/ CarouselTap(r, c) \/ ReleaseConversation(r, c)
      PROVE  AloneInv'
  <2>1. /\ needsHuman' = needsHuman /\ conv'[r] = c /\ seen'[r] = needsHuman[c]
        /\ pc'[r] # "reply"
        /\ pc'[r] = "answer" => ~needsHuman[c]
    BY <1>1, <1>2 DEF CustomerMessage, CarouselTap, ReleaseConversation, Goto
  <2> QED
    BY <2>1 DEF AloneInv
<1>3. ASSUME NEW r \in Requests, ReleaseIfStale(r) PROVE AloneInv'
  <2>1. /\ pc[r] = "stale" /\ UNCHANGED <<needsHuman, conv, seen>>
        /\ closing' = [closing EXCEPT ![r] = OpenThreads(conv[r])]
        /\ OpenThreads(conv[r]) # {}
    BY <1>3 DEF ReleaseIfStale, Goto, Idle
  <2>2. closing'[r] # {}
    BY <1>1, <2>1
  <2> QED
    BY <2>1, <2>2 DEF AloneInv
<1>4. ASSUME NEW r \in Requests,
             \/ Suppress(r) \/ SearchPhoto(r) \/ BotAnswers(r) \/ Escalate(r) \/ NotifyDone(r)
             \/ SendReply(r) \/ \E a \in Admins : NotifyOnThread(r, a) \/ NotifyOnNewThread(r, a)
      PROVE  AloneInv'
  <2>1. /\ UNCHANGED <<needsHuman, conv, seen, closing>> /\ pc[r] \notin {"idle", "relay"}
    BY <1>4 DEF Suppress, SearchPhoto, BotAnswers, Escalate, NotifyDone, SendReply,
                NotifyOnThread, NotifyOnNewThread, Goto, sessionVars
  <2>2. pc'[r] \in {"answer", "reply"} => pc[r] \in {"answer", "reply"}
    BY <1>1, <1>4 DEF Suppress, SearchPhoto, BotAnswers, Escalate, NotifyDone, SendReply,
                      NotifyOnThread, NotifyOnNewThread, Goto
  <2> QED
    BY <2>1, <2>2 DEF AloneInv
<1>5. ASSUME NEW r \in Requests, CloseThreads(r) PROVE AloneInv'
  <2>1. /\ pc[r] = "close" /\ pc'[r] = "commit" /\ UNCHANGED <<needsHuman, conv, seen>>
    BY <1>1, <1>5 DEF CloseThreads, Goto
  <2> QED
    BY <2>1 DEF AloneInv
<1>6. ASSUME NEW r \in Requests,
             \/ \E a \in Admins, m \in MessageIds : AdminReply(r, a, m)
             \/ RelayToCustomer(r) \/ Commit(r) \/ Abort(r)
      PROVE  AloneInv'
  <2>1. pc'[r] \in {"idle", "relay"}
    BY <1>1, <1>6 DEF AdminReply, RelayToCustomer, Commit, Abort, EndRequest, Goto
  <2> QED
    BY <2>1 DEF AloneInv
<1>7. CASE Tick \/ UNCHANGED vars
  BY <1>7 DEF Tick, vars, sessionVars, AloneInv
<1> QED
  BY <1>2, <1>3, <1>4, <1>5, <1>6, <1>7 DEF Next, CustomerStep, AdminStep

\* While one request is served at a time the bot answers no message of a conversation
\* that is with the admins (receive_update's check of needs_human): only another
\* request's escalation can make it do so, which is what TLC shows with two.  Nothing is
\* said of taps on a carousel, which are answered whatever needs_human says.
THEOREM MessagesUnansweredOneAtATime ==
  ASSUME \A q, r \in Requests : q = r
  PROVE  Spec => SilentWhileHuman
<1>1. Init => AloneInv
  BY DEF Init, AloneInv
<1>2. TypeOK /\ AloneInv /\ [Next]_vars => AloneInv'
  BY AloneStep
<1>3. AloneInv /\ [Next]_vars =>
        [\A r \in Requests : pc[r] = "reply" /\ pc'[r] = "commit" =>
           ~needsHuman[conv[r]] \/ closing[r] # {}]_vars
  BY DEF AloneInv
<1> QED
  BY <1>1, <1>2, <1>3, HandoffTyped, PTL DEF Spec, SilentWhileHuman

-----------------------------------------------------------------------------
(* The hand-off implements the abstract desk.                               *)

\* A step of another request leaves q alone; rows that are stored stay stored, and
\* rows that exist keep their conversation.
LeavesAlone(q) ==
  /\ pc'[q] = pc[q] /\ conv'[q] = conv[q] /\ needs'[q] = needs[q]
  /\ made'[q] = made[q] /\ noted'[q] = noted[q] /\ closing'[q] = closing[q]

RowsStay ==
  \A t \in Threads :
    /\ status[t] \in {"open", "released"} => status'[t] \in {"open", "released"}
    /\ status[t] # "free" => status'[t] # "free" /\ owner'[t] = owner[t] /\ target'[t] = target[t]

\* A request that a step leaves alone serves its conversation as before.
LEMMA AloneServes ==
  ASSUME RoutingInv, NEW q \in Requests, Serving(q), LeavesAlone(q), RowsStay
  PROVE  Serving(q)'
<1>1. /\ noted[q] \cup made[q] \cup closing[q] \subseteq loaded[q]
      /\ loaded[q] \subseteq Threads
      /\ \A t \in loaded[q] : status[t] # "free"
  BY DEF RoutingInv, TypeOK
<1>2. \A t \in noted[q] \cup made[q] \cup closing[q] : target'[t] = target[t]
  BY <1>1 DEF RowsStay
<1>3. \A t \in noted[q] : status[t] \in {"open", "released"} => status'[t] \in {"open", "released"}
  BY <1>1 DEF RowsStay
<1> QED
  BY <1>2, <1>3 DEF Serving, LeavesAlone

\* A step that moves one request and leaves the rows' admins needs only that
\* request to be looked at.
LEMMA OneServes ==
  ASSUME RoutingInv, DeskInv, NEW r \in Requests, Serving(r)', RowsStay,
         \A q \in Requests : q # r => LeavesAlone(q),
         \A t \in Threads : status[t] = "free" /\ status'[t] # "free" => owner'[t] \in Admins
  PROVE  DeskInv'
<1>1. \A t \in Threads : status'[t] # "free" => owner'[t] \in Admins
  BY DEF DeskInv, RowsStay
<1>2. ASSUME NEW q \in Requests, q # r PROVE Serving(q)'
  BY <1>2, AloneServes DEF DeskInv
<1> QED
  BY <1>1, <1>2 DEF DeskInv

\* What a request does to itself while no row is written.
LEMMA SelfServes ==
  ASSUME RoutingInv, DeskInv, NEW r \in Requests, Serving(r)',
         UNCHANGED <<status, owner, target>>,
         \A q \in Requests : q # r => LeavesAlone(q)
  PROVE  DeskInv'
<1>1. RowsStay
  BY DEF RowsStay
<1> QED
  BY <1>1, OneServes

\* Nobody serves at the start.
LEMMA DeskInit == Init => DeskInv
BY DEF Init, DeskInv, Serving

\* A request begins with an empty session.
LEMMA BeginServes ==
  ASSUME RoutingInv, DeskInv, NEW r \in Requests, NEW c \in Conversations,
         CustomerMessage(r, c) \/ CarouselTap(r, c) \/ ReleaseConversation(r, c)
  PROVE  DeskInv'
<1>1. /\ pc \in [Requests -> Steps] /\ conv \in [Requests -> Conversations \cup {NoConversation}]
      /\ needs \in [Requests -> BOOLEAN] /\ needsHuman \in [Conversations -> BOOLEAN]
  BY DEF RoutingInv, TypeOK, Steps
<1>2. /\ UNCHANGED <<status, owner, target, made, noted, closing>> /\ pc[r] = "idle"
  BY DEF CustomerMessage, CarouselTap, ReleaseConversation, Goto, rowVars, sessionVars
<1>3. /\ \A q \in Requests : q # r => pc'[q] = pc[q] /\ conv'[q] = conv[q] /\ needs'[q] = needs[q]
      /\ pc'[r] # "idle"
      /\ pc'[r] \in {"stale", "escalate", "forward"} => needs'[r]
  BY <1>1 DEF CustomerMessage, CarouselTap, ReleaseConversation, Goto
<1>4. made[r] = {} /\ noted[r] = {} /\ closing[r] = {}
  BY <1>2 DEF DeskInv, Serving
<1>5. Serving(r)'
  BY <1>2, <1>3, <1>4 DEF Serving
<1> QED
  BY <1>2, <1>3, <1>5, SelfServes DEF LeavesAlone

\* Reading the open threads: what is to be closed is of the conversation served, and
\* a release comes before anything was inserted.
LEMMA ReadServes ==
  ASSUME RoutingInv, DeskInv, NEW r \in Requests,
         ReleaseIfStale(r) \/ Suppress(r) \/ CloseThreads(r)
  PROVE  DeskInv'
<1>1. /\ pc \in [Requests -> Steps] /\ needs \in [Requests -> BOOLEAN]
      /\ closing \in [Requests -> SUBSET Threads]
  BY DEF RoutingInv, TypeOK, Steps
<1>2. UNCHANGED <<status, owner, target, made, noted, conv>>
  BY DEF ReleaseIfStale, Suppress, CloseThreads, rowVars
<1>3. /\ \A q \in Requests : q # r =>
           pc'[q] = pc[q] /\ needs'[q] = needs[q] /\ closing'[q] = closing[q]
      /\ pc[r] # "idle" /\ pc'[r] \in {"answer", "forward", "commit"}
      /\ closing'[r] = closing[r] \/ closing'[r] = OpenThreads(conv[r])
      /\ pc[r] = "stale" \/ (needs'[r] = needs[r] /\ pc'[r] = "commit")
      /\ needs'[r] = needs[r] \/ pc'[r] = "answer"
  BY <1>1 DEF ReleaseIfStale, Suppress, CloseThreads, Goto
<1>4. \A t \in OpenThreads(conv[r]) : target[t] = conv[r]
  BY DEF OpenThreads
<1>5. Serving(r)
  BY DEF DeskInv
<1>6. Serving(r)'
  BY <1>2, <1>3, <1>4, <1>5 DEF Serving
<1> QED
  BY <1>2, <1>3, <1>6, SelfServes DEF LeavesAlone

\* Steps that leave what the session holds alone.
LEMMA MoveServes ==
  ASSUME RoutingInv, DeskInv, NEW r \in Requests,
         SearchPhoto(r) \/ BotAnswers(r) \/ Escalate(r) \/ NotifyDone(r) \/ SendReply(r)
  PROVE  DeskInv'
<1>1. pc \in [Requests -> Steps] /\ needs \in [Requests -> BOOLEAN]
  BY DEF RoutingInv, TypeOK, Steps
<1>2. UNCHANGED <<status, owner, target, made, noted, closing, conv>>
  BY DEF SearchPhoto, BotAnswers, Escalate, NotifyDone, SendReply, rowVars, sessionVars
<1>3. /\ \A q \in Requests : q # r => pc'[q] = pc[q] /\ needs'[q] = needs[q]
      /\ pc[r] # "idle" /\ pc'[r] \in {"answer", "reply", "escalate", "tell", "commit"}
      /\ pc'[r] = "escalate" => needs'[r]
      /\ needs[r] => needs'[r]
  BY <1>1 DEF SearchPhoto, BotAnswers, Escalate, NotifyDone, SendReply, Goto
<1>4. Serving(r)
  BY DEF DeskInv
<1>5. Serving(r)'
  BY <1>2, <1>3, <1>4 DEF Serving
<1> QED
  BY <1>2, <1>3, <1>5, SelfServes DEF LeavesAlone

\* A notification marks at most the thread it is recorded on.
LEMMA NotifyMarks ==
  ASSUME TypeOK, NEW r \in Requests, NEW a, NEW t \in Threads, NEW held, Notify(r, a, t, held)
  PROVE  /\ \A q \in Requests : q # r => noted'[q] = noted[q]
         /\ noted'[r] \subseteq noted[r] \cup {t}
<1>1. noted' = noted \/ noted' = [noted EXCEPT ![r] = @ \cup {t}]
  BY DEF Notify
<1>2. noted \in [Requests -> SUBSET Threads]
  BY DEF TypeOK
<1> QED
  BY <1>1, <1>2

\* A notification on a thread that is there: it is stored, or the request's own.
LEMMA OnThreadServes ==
  ASSUME RoutingInv, DeskInv, NEW r \in Requests, NEW a \in Admins, NotifyOnThread(r, a)
  PROVE  DeskInv'
<1>1. PICK t \in Found(r, a) : \E held : Notify(r, a, t, held)
  BY DEF NotifyOnThread
<1>2. UNCHANGED <<status, owner, target, pc, conv, needs, made, closing>>
  BY DEF NotifyOnThread, rowVars
<1>3. pc[r] \in {"escalate", "forward"}
  BY DEF NotifyOnThread
<1>4. TypeOK
  BY DEF RoutingInv
<1>5. t \in Threads /\ target[t] = conv[r] /\ (status[t] = "open" \/ t \in made[r])
  BY <1>4 DEF Found, OpenThreads, TypeOK
<1>6. /\ \A q \in Requests : q # r => noted'[q] = noted[q]
      /\ noted'[r] \subseteq noted[r] \cup {t}
  BY <1>1, <1>4, <1>5, NotifyMarks
<1>7. Serving(r)
  BY DEF DeskInv
<1>8. Serving(r)'
  BY <1>2, <1>3, <1>5, <1>6, <1>7 DEF Serving
<1> QED
  BY <1>2, <1>6, <1>8, SelfServes DEF LeavesAlone

\* A notification on a new thread: nobody else knows the row yet.
LEMMA OnNewThreadServes ==
  ASSUME RoutingInv, DeskInv, NEW r \in Requests, NEW a \in Admins, NotifyOnNewThread(r, a)
  PROVE  DeskInv'
<1>1. PICK t \in Threads :
        /\ status[t] = "free"
        /\ status' = [status EXCEPT ![t] = "inserted"]
        /\ owner' = [owner EXCEPT ![t] = a]
        /\ target' = [target EXCEPT ![t] = conv[r]]
        /\ made' = [made EXCEPT ![r] = @ \cup {t}]
        /\ Notify(r, a, t, [copy[r] EXCEPT ![t] = [ids |-> {}, at |-> clock]])
  BY DEF NotifyOnNewThread
<1>2. UNCHANGED <<pc, conv, needs, closing>> /\ pc[r] \in {"escalate", "forward"}
  BY DEF NotifyOnNewThread
<1>3. TypeOK
  BY DEF RoutingInv
<1>4. /\ \A q \in Requests : q # r => noted'[q] = noted[q] /\ made'[q] = made[q]
      /\ noted'[r] \subseteq noted[r] \cup {t}
      /\ made'[r] = made[r] \cup {t}
  <2>1. /\ \A q \in Requests : q # r => noted'[q] = noted[q]
        /\ noted'[r] \subseteq noted[r] \cup {t}
    BY <1>1, <1>3, NotifyMarks
  <2>2. /\ \A q \in Requests : q # r => made'[q] = made[q]
        /\ made'[r] = made[r] \cup {t}
    BY <1>1, <1>3 DEF TypeOK
  <2> QED
    BY <2>1, <2>2
<1>5. /\ status'[t] = "inserted" /\ owner'[t] = a /\ target'[t] = conv[r]
      /\ \A x \in Threads : x # t =>
           status'[x] = status[x] /\ owner'[x] = owner[x] /\ target'[x] = target[x]
  BY <1>1, <1>3 DEF TypeOK
<1>6. /\ noted[r] \cup made[r] \cup closing[r] \subseteq loaded[r]
      /\ loaded[r] \subseteq Threads /\ t \notin loaded[r]
  BY <1>1 DEF RoutingInv, TypeOK
<1>7. Serving(r)
  BY DEF DeskInv
<1>8. Serving(r)'
  <2>1. /\ pc'[r] \notin {"idle", "stale"}
        /\ needs'[r]
    BY <1>2, <1>7 DEF Serving
  <2>2. \A x \in noted'[r] \cup made'[r] \cup closing'[r] : target'[x] = conv'[r]
    BY <1>2, <1>4, <1>5, <1>6, <1>7 DEF Serving
  <2>3. \A x \in noted'[r] : status'[x] \in {"open", "released"} \/ x \in made'[r]
    BY <1>4, <1>5, <1>6, <1>7 DEF Serving
  <2> QED
    BY <2>1, <2>2, <2>3 DEF Serving
<1>9. RowsStay
  BY <1>1, <1>5 DEF RowsStay
<1>10. \A x \in Threads : status[x] = "free" /\ status'[x] # "free" => owner'[x] \in Admins
  BY <1>5
<1> QED
  BY <1>2, <1>4, <1>8, <1>9, <1>10, OneServes DEF LeavesAlone

\* An admin's reply starts from an empty session.
LEMMA ReplyServes ==
  ASSUME RoutingInv, DeskInv, NEW r \in Requests, NEW a \in Admins, NEW m \in MessageIds,
         AdminReply(r, a, m)
  PROVE  DeskInv'
<1>1. /\ UNCHANGED <<status, owner, target, needs, made, noted, closing>>
      /\ pc[r] = "idle" /\ pc' = [pc EXCEPT ![r] = "relay"]
      /\ \E c : conv' = [conv EXCEPT ![r] = c]
  BY DEF AdminReply, Goto, rowVars, sessionVars
<1>2. /\ pc \in [Requests -> Steps] /\ conv \in [Requests -> Conversations \cup {NoConversation}]
  BY DEF RoutingInv, TypeOK, Steps
<1>3. pc'[r] = "relay" /\ \A q \in Requests : q # r => pc'[q] = pc[q] /\ conv'[q] = conv[q]
  BY <1>1, <1>2
<1>4. made[r] = {} /\ noted[r] = {} /\ closing[r] = {}
  BY <1>1 DEF DeskInv, Serving
<1>5. Serving(r)'
  BY <1>1, <1>3, <1>4 DEF Serving
<1> QED
  BY <1>1, <1>3, <1>5, SelfServes DEF LeavesAlone

\* What the end of a request does to the rows: its own insertions are stored or
\* rolled back, and rows it closes were stored.
LEMMA EndRows ==
  ASSUME RoutingInv, NEW r \in Requests, RelayToCustomer(r) \/ Commit(r) \/ Abort(r)
  PROVE  /\ EndRequest(r) /\ UNCHANGED <<owner, target>>
         /\ \A t \in Threads :
              /\ status[t] \in {"open", "released"} => status'[t] \in {"open", "released"}
              /\ status[t] # "free" <=> status'[t] # "free"
<1>1. /\ \A t \in made[r] : status[t] = "inserted"
      /\ \A t \in closing[r] : status[t] \in {"open", "released"}
  BY DEF RoutingInv
<1>2. CASE RelayToCustomer(r)
  BY <1>2 DEF RelayToCustomer, rowVars
<1>3. CASE Commit(r)
  <2>1. \A t \in Threads : status'[t] = StatusAfter(r, t)
    BY <1>3 DEF Commit
  <2> QED
    BY <1>1, <1>3, <2>1 DEF Commit, StatusAfter
<1>4. CASE Abort(r)
  <2>1. \A t \in Threads : status'[t] = IF t \in made[r] THEN "void" ELSE status[t]
    BY <1>4 DEF Abort
  <2> QED
    BY <1>1, <1>4, <2>1 DEF Abort
<1> QED
  BY <1>2, <1>3, <1>4

\* A request that ends serves nobody.
LEMMA EndServes ==
  ASSUME RoutingInv, DeskInv, NEW r \in Requests, RelayToCustomer(r) \/ Commit(r) \/ Abort(r)
  PROVE  DeskInv'
<1>1. /\ EndRequest(r) /\ UNCHANGED <<owner, target>>
      /\ \A t \in Threads :
           /\ status[t] \in {"open", "released"} => status'[t] \in {"open", "released"}
           /\ status[t] # "free" <=> status'[t] # "free"
  BY EndRows
<1>2. TypeOK /\ needs \in [Requests -> BOOLEAN]
  BY DEF RoutingInv, TypeOK
<1>3. /\ pc'[r] = "idle" /\ made'[r] = {} /\ noted'[r] = {} /\ closing'[r] = {}
      /\ \A q \in Requests : q # r => LeavesAlone(q)
  <2>1. \A q \in Requests : q # r => needs'[q] = needs[q]
    BY <1>1, <1>2 DEF EndRequest
  <2> QED
    BY <1>1, <1>2, <2>1, EndEffect DEF LeavesAlone
<1>4. Serving(r)'
  BY <1>3 DEF Serving
<1>5. RowsStay /\ \A t \in Threads : status[t] = "free" /\ status'[t] # "free" => owner'[t] \in Admins
  BY <1>1 DEF RowsStay
<1> QED
  BY <1>3, <1>4, <1>5, OneServes

\* Every step keeps the invariant of the desk.
LEMMA DeskStep == RoutingInv /\ DeskInv /\ [Next]_vars => DeskInv'
<1> SUFFICES ASSUME RoutingInv, DeskInv, [Next]_vars PROVE DeskInv'
  OBVIOUS
<1>1. CASE Tick \/ UNCHANGED vars
  <2>1. UNCHANGED <<status, owner, target, pc, conv, needs, made, noted, closing>>
    BY <1>1 DEF Tick, vars, rowVars, sessionVars
  <2> QED
    BY <2>1 DEF DeskInv, Serving
<1> QED
  BY <1>1, BeginServes, ReadServes, MoveServes, OnThreadServes, OnNewThreadServes, ReplyServes,
     EndServes
  DEF Next, CustomerStep, AdminStep

-----------------------------------------------------------------------------

\* Steps that write no row and no flag, send admins nothing, and leave replies on
\* their way alone are not seen at the desk.
LEMMA DeskStutter ==
  ASSUME TypeOK, TypeOK', UNCHANGED <<needsHuman, about, rowVars>>,
         \A q \in Requests :
           \/ pc[q] # "relay" /\ pc'[q] # "relay"
           \/ pc'[q] = pc[q] /\ conv'[q] = conv[q] /\ answering'[q] = answering[q]
  PROVE  UNCHANGED Desk!vars
<1>1. DeskThreads' = DeskThreads
  BY DEF DeskThreads, ThreadOf, rowVars
<1>2. \A q \in Requests : ReplyOf(q)' = ReplyOf(q)
  BY DEF ReplyOf
<1>3. DeskReplies' = DeskReplies
  BY <1>2 DEF DeskReplies
<1> QED
  BY <1>1, <1>3 DEF Desk!vars

\* A notification is one at the desk, if Telegram takes it; a row just inserted is
\* not yet a thread.
LEMMA DeskNotify ==
  ASSUME RoutingInv, NEW r \in Requests, NEW a \in Admins,
         NotifyOnThread(r, a) \/ NotifyOnNewThread(r, a)
  PROVE  [Desk!Next]_Desk!vars
<1>1. conv[r] \in Conversations
  BY DEF NotifyOnThread, NotifyOnNewThread, RoutingInv, TypeOK
<1>2. about' = about \/ about' = [about EXCEPT ![a] = Append(@, conv[r])]
  BY DEF NotifyOnThread, NotifyOnNewThread, Notify
<1>3. UNCHANGED <<needsHuman, pc, conv, answering, ids>>
  BY DEF NotifyOnThread, NotifyOnNewThread, rowVars
<1>4. \A t \in Threads : ThreadOf(t)' = ThreadOf(t)
  <2>1. CASE NotifyOnThread(r, a)
    BY <2>1 DEF NotifyOnThread, rowVars, ThreadOf
  <2>2. CASE NotifyOnNewThread(r, a)
    <3>1. PICK t \in Threads :
            /\ status[t] = "free"
            /\ status' = [status EXCEPT ![t] = "inserted"]
            /\ owner' = [owner EXCEPT ![t] = a]
            /\ target' = [target EXCEPT ![t] = conv[r]]
      BY <2>2 DEF NotifyOnNewThread
    <3>2. /\ status'[t] = "inserted"
          /\ \A x \in Threads : x # t =>
               status'[x] = status[x] /\ owner'[x] = owner[x] /\ target'[x] = target[x]
      BY <3>1 DEF RoutingInv, TypeOK
    <3> QED
      BY <1>3, <3>1, <3>2 DEF ThreadOf
  <2> QED
    BY <2>1, <2>2
<1>5. DeskThreads' = DeskThreads
  BY <1>4 DEF DeskThreads
<1>6. DeskReplies' = DeskReplies
  BY <1>3 DEF DeskReplies, ReplyOf
<1>7. CASE about' = about
  BY <1>3, <1>5, <1>6, <1>7 DEF Desk!vars
<1>8. CASE about' = [about EXCEPT ![a] = Append(@, conv[r])]
  <2>1. Desk!Notify(a, conv[r])
    BY <1>3, <1>5, <1>6, <1>8 DEF Desk!Notify
  <2> QED
    BY <1>1, <2>1 DEF Desk!Next
<1> QED
  BY <1>2, <1>7, <1>8

\* A reply an admin starts is taken at the desk: an open thread of the admin holds
\* the message, and the message is about the customer the reply goes to.
LEMMA DeskTakesReply ==
  ASSUME RoutingInv, NEW r \in Requests, NEW a \in Admins, NEW m \in MessageIds,
         AdminReply(r, a, m)
  PROVE  Desk!TakeReply(r, a, m) /\ m \in 1..Len(about[a])
<1>1. PICK t \in RepliedThreads(a, m) : conv' = [conv EXCEPT ![r] = target[t]]
  BY DEF AdminReply
<1>2. /\ pc[r] = "idle" /\ pc' = [pc EXCEPT ![r] = "relay"]
      /\ m \in 1..Len(about[a])
      /\ answering' = [answering EXCEPT ![r] = [admin |-> a, message |-> m]]
      /\ UNCHANGED <<needsHuman, status, owner, target, ids, about>>
  BY DEF AdminReply, Goto, rowVars
<1>3. /\ t \in Threads /\ owner[t] = a /\ status[t] = "open" /\ m \in ids[t]
      /\ about[a][m] = target[t]
  BY DEF RepliedThreads, RoutingInv, KnownMessages
<1>4. /\ pc \in [Requests -> Steps]
      /\ conv \in [Requests -> Conversations \cup {NoConversation}]
      /\ answering \in [Requests -> [admin : Admins \cup {NoAdmin}, message : 0..MaxMessage]]
  BY DEF RoutingInv, TypeOK, Steps
<1>5. /\ pc'[r] = "relay" /\ conv'[r] = about[a][m]
      /\ answering'[r].admin = a /\ answering'[r].message = m
      /\ \A q \in Requests : q # r =>
           pc'[q] = pc[q] /\ conv'[q] = conv[q] /\ answering'[q] = answering[q]
  BY <1>1, <1>2, <1>3, <1>4
<1>6. DeskThreads' = DeskThreads
  BY <1>2 DEF DeskThreads, ThreadOf
<1>7. /\ DeskThreads[t].state = "open" /\ DeskThreads[t].admin = a /\ m \in DeskThreads[t].ids
      /\ DeskReplies[r] = Desk!NoReply
  BY <1>2, <1>3 DEF DeskThreads, ThreadOf, DeskReplies, ReplyOf, Desk!NoReply
<1>8. DeskReplies' = [DeskReplies EXCEPT ![r] = [admin |-> a, message |-> m, to |-> about[a][m]]]
  <2>1. ReplyOf(r)' = [admin |-> a, message |-> m, to |-> about[a][m]]
    BY <1>5 DEF ReplyOf
  <2>2. \A q \in Requests : q # r => ReplyOf(q)' = ReplyOf(q)
    BY <1>5 DEF ReplyOf
  <2> QED
    BY <2>1, <2>2 DEF DeskReplies
<1> QED
  BY <1>2, <1>3, <1>6, <1>7, <1>8 DEF Desk!TakeReply

\* A request that ends has no reply on its way; the others' replies stay.
LEMMA DeskEndsReply ==
  ASSUME TypeOK, NEW r \in Requests, EndRequest(r)
  PROVE  DeskReplies' = [DeskReplies EXCEPT ![r] = Desk!NoReply]
<1>1. /\ pc'[r] = "idle"
      /\ \A q \in Requests : q # r =>
           pc'[q] = pc[q] /\ conv'[q] = conv[q] /\ answering'[q] = answering[q]
  BY EndEffect
<1>2. ReplyOf(r)' = Desk!NoReply
  BY <1>1 DEF ReplyOf, Desk!NoReply
<1>3. \A q \in Requests : q # r => ReplyOf(q)' = ReplyOf(q)
  BY <1>1 DEF ReplyOf
<1> QED
  BY <1>2, <1>3 DEF DeskReplies

\* A relay, and a rollback at any point, is the end of a reply: rows rolled back
\* were never threads at the desk.
LEMMA DeskEnds ==
  ASSUME RoutingInv, NEW r \in Requests, RelayToCustomer(r) \/ Abort(r)
  PROVE  Desk!EndReply(r)
<1>1. EndRequest(r) /\ UNCHANGED <<needsHuman, owner, target, ids, about>>
  BY DEF RelayToCustomer, Abort, rowVars
<1>2. DeskReplies' = [DeskReplies EXCEPT ![r] = Desk!NoReply]
  BY <1>1, DeskEndsReply DEF RoutingInv
<1>3. \A t \in Threads : status'[t] = status[t] \/ (status[t] = "inserted" /\ status'[t] = "void")
  BY DEF RelayToCustomer, Abort, rowVars, RoutingInv
<1>4. \A t \in Threads : ThreadOf(t)' = ThreadOf(t)
  BY <1>1, <1>3 DEF ThreadOf
<1>5. DeskThreads' = DeskThreads
  BY <1>4 DEF DeskThreads
<1> QED
  BY <1>1, <1>2, <1>5 DEF Desk!EndReply

\* What a commit does to a thread, as the desk sees it, is one of the desk's moves of
\* a thread of the conversation served; and it opens one only for a conversation the
\* session means to be with the admins.
LEMMA DeskMoves ==
  ASSUME RoutingInv, RoutingInv', DeskInv, NEW r \in Requests, Commit(r), NEW t \in Threads,
         ThreadOf(t)' # ThreadOf(t)
  PROVE  /\ Desk!Moves(ThreadOf(t), ThreadOf(t)', conv[r])
         /\ ThreadOf(t).state = "none" => needs[r]
<1>1. /\ status'[t] = StatusAfter(r, t)
      /\ ids'[t] = IF t \in noted[r] THEN copy[r][t].ids ELSE ids[t]
      /\ UNCHANGED <<owner, target, about>>
  BY DEF Commit
<1>2. Serving(r) /\ (t \in made[r] => status[t] = "inserted")
        /\ (t \in closing[r] => status[t] \in {"open", "released"})
  BY DEF DeskInv, RoutingInv
<1>3. t \in noted[r] \cup made[r] \cup closing[r]
  BY <1>1 DEF StatusAfter, ThreadOf
<1>4. /\ target[t] = conv[r]
      /\ \/ t \in made[r] /\ status[t] = "inserted" /\ status'[t] = "open" /\ needs[r]
         \/ /\ status[t] \in {"open", "released"}
            /\ status'[t] = status[t] \/ (status[t] = "open" /\ status'[t] = "released")
  BY <1>1, <1>2, <1>3 DEF Serving, StatusAfter
<1>5. owner[t] \in Admins
  BY <1>4 DEF DeskInv
<1>6. ids'[t] \subseteq Desk!About(owner[t], conv[r])
  <2>1. KnownMessages(t, ids[t])'
    BY DEF RoutingInv
  <2> QED
    BY <1>1, <1>4, <2>1 DEF KnownMessages, Desk!About
<1>7. ThreadOf(t)' = [state |-> status'[t], admin |-> owner[t], about |-> conv[r], ids |-> ids'[t]]
  BY <1>1, <1>4 DEF ThreadOf
<1>8. CASE status[t] = "inserted" /\ status'[t] = "open" /\ needs[r]
  <2>1. ThreadOf(t).state = "none"
    BY <1>8 DEF ThreadOf
  <2> QED
    BY <1>5, <1>6, <1>7, <1>8, <2>1 DEF Desk!Moves
<1>9. CASE /\ status[t] \in {"open", "released"}
           /\ status'[t] = status[t] \/ (status[t] = "open" /\ status'[t] = "released")
  <2>1. ThreadOf(t) = [state |-> status[t], admin |-> owner[t], about |-> conv[r], ids |-> ids[t]]
    BY <1>4, <1>9 DEF ThreadOf
  <2> QED
    BY <1>5, <1>6, <1>7, <1>9, <2>1 DEF Desk!Moves
<1> QED
  BY <1>4, <1>8, <1>9

\* A commit stores, for one conversation, the flag and its threads.
LEMMA DeskStores ==
  ASSUME RoutingInv, RoutingInv', DeskInv, NEW r \in Requests, Commit(r)
  PROVE  /\ conv[r] \in Conversations /\ FlagAfter(r) \in BOOLEAN
         /\ Desk!Store(conv[r], FlagAfter(r))
<1>1. TypeOK /\ TypeOK' /\ pc[r] = "commit" /\ EndRequest(r) /\ about' = about
      /\ needsHuman' = [needsHuman EXCEPT ![conv[r]] = FlagAfter(r)]
  BY DEF Commit, RoutingInv
<1>2. conv[r] \in Conversations /\ FlagAfter(r) \in BOOLEAN
  BY <1>1 DEF TypeOK, FlagAfter
<1>3. DeskThreads' \in [Threads -> Desk!Rows]
  <2>1. MessageIds \subseteq Nat
    BY HandoffAssumption DEF MessageIds
  <2>2. ASSUME NEW t \in Threads PROVE ThreadOf(t)' \in Desk!Rows
    BY <1>1, <2>1 DEF TypeOK, ThreadOf, Desk!Rows
  <2> QED
    BY <2>2 DEF DeskThreads
<1>4. needs[r] => FlagAfter(r) \/ ~needsHuman[conv[r]]
  BY <1>1, <1>2 DEF FlagAfter, TypeOK
<1>5. \A t \in Threads : /\ DeskThreads[t] = ThreadOf(t)
                         /\ DeskThreads'[t] = ThreadOf(t)'
  BY DEF DeskThreads
<1>6. \A t \in Threads : DeskThreads'[t] # DeskThreads[t] =>
        /\ Desk!Moves(DeskThreads[t], DeskThreads'[t], conv[r])
        /\ DeskThreads[t].state = "none" => FlagAfter(r) \/ ~needsHuman[conv[r]]
  BY <1>4, <1>5, DeskMoves
<1>7. DeskReplies' = DeskReplies
  <2>1. DeskReplies' = [DeskReplies EXCEPT ![r] = Desk!NoReply]
    BY <1>1, DeskEndsReply
  <2>2. DeskReplies[r] = Desk!NoReply
    BY <1>1 DEF DeskReplies, ReplyOf, Desk!NoReply
  <2> QED
    BY <2>1, <2>2 DEF DeskReplies
<1> QED
  BY <1>1, <1>2, <1>3, <1>6, <1>7 DEF Desk!Store

\* Every step is a step of the desk or leaves it alone.
LEMMA DeskSimulates ==
  RoutingInv /\ RoutingInv' /\ DeskInv /\ [Next]_vars => [Desk!Next]_Desk!vars
<1> SUFFICES ASSUME RoutingInv, RoutingInv', DeskInv, [Next]_vars
             PROVE  [Desk!Next]_Desk!vars
  OBVIOUS
<1>1. /\ TypeOK /\ TypeOK' /\ pc \in [Requests -> Steps]
      /\ conv \in [Requests -> Conversations \cup {NoConversation}]
  BY DEF RoutingInv, TypeOK, Steps
<1>2. ASSUME NEW r \in Requests, NEW c \in Conversations,
             CustomerMessage(r, c) \/ CarouselTap(r, c) \/ ReleaseConversation(r, c)
      PROVE  [Desk!Next]_Desk!vars
  <2>1. UNCHANGED <<needsHuman, about, rowVars, answering>>
    BY <1>2 DEF CustomerMessage, CarouselTap, ReleaseConversation
  <2>2. /\ pc[r] # "relay" /\ pc'[r] # "relay"
        /\ \A q \in Requests : q # r => pc'[q] = pc[q] /\ conv'[q] = conv[q]
    BY <1>1, <1>2 DEF CustomerMessage, CarouselTap, ReleaseConversation, Goto
  <2> QED
    BY <1>1, <2>1, <2>2, DeskStutter
<1>3. ASSUME NEW r \in Requests,
             \/ ReleaseIfStale(r) \/ Suppress(r) \/ CloseThreads(r)
             \/ SearchPhoto(r) \/ BotAnswers(r) \/ Escalate(r) \/ NotifyDone(r) \/ SendReply(r)
      PROVE  [Desk!Next]_Desk!vars
  <2>1. UNCHANGED <<needsHuman, about, rowVars, answering, conv>>
    BY <1>3 DEF ReleaseIfStale, Suppress, CloseThreads, SearchPhoto, BotAnswers, Escalate,
                NotifyDone, SendReply
  <2>2. /\ pc[r] # "relay" /\ pc'[r] # "relay"
        /\ \A q \in Requests : q # r => pc'[q] = pc[q]
    BY <1>1, <1>3 DEF ReleaseIfStale, Suppress, CloseThreads, SearchPhoto, BotAnswers, Escalate,
                      NotifyDone, SendReply, Goto
  <2> QED
    BY <1>1, <2>1, <2>2, DeskStutter
<1>4. CASE Tick \/ UNCHANGED vars
  <2>1. UNCHANGED <<needsHuman, about, rowVars, pc, conv, answering>>
    BY <1>4 DEF Tick, vars, rowVars
  <2> QED
    BY <1>1, <2>1, DeskStutter
<1>5. ASSUME NEW r \in Requests, NEW a \in Admins, NEW m \in MessageIds, AdminReply(r, a, m)
      PROVE  [Desk!Next]_Desk!vars
  BY <1>5, DeskTakesReply DEF Desk!Next
<1>6. ASSUME NEW r \in Requests, RelayToCustomer(r) \/ Abort(r)
      PROVE  [Desk!Next]_Desk!vars
  BY <1>6, DeskEnds DEF Desk!Next
<1>7. ASSUME NEW r \in Requests, Commit(r)
      PROVE  [Desk!Next]_Desk!vars
  BY <1>7, DeskStores DEF Desk!Next
<1> QED
  BY <1>2, <1>3, <1>4, <1>5, <1>6, <1>7, DeskNotify DEF Next, CustomerStep, AdminStep

\* The hand-off implements the abstract desk: although requests overlap, sessions
\* hold rows others have changed and any request may roll back, what is stored is
\* about one conversation, threads open and close once, and replies follow messages.
THEOREM HandoffImplementsDesk == Spec => ImplementsDesk
<1>1. Init => Desk!Init
  <2> SUFFICES ASSUME Init PROVE Desk!Init
    OBVIOUS
  <2>1. /\ \A t \in Threads : ThreadOf(t) = Desk!NoThread
        /\ \A r \in Requests : ReplyOf(r) = Desk!NoReply
    BY DEF Init, ThreadOf, ReplyOf, Desk!NoThread, Desk!NoReply
  <2> QED
    BY <2>1 DEF Init, Desk!Init, DeskThreads, DeskReplies
<1>2. Spec => []DeskInv
  BY DeskInit, DeskStep, RoutingSound, PTL DEF Spec
<1> QED
  BY <1>1, <1>2, DeskSimulates, RoutingSound, PTL DEF Spec, ImplementsDesk, Desk!Spec
=============================================================================
