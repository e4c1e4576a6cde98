------------------------------ MODULE AgentsProofs ------------------------------
(***************************************************************************)
(* Machine-checked proofs about agents and their knowledge as a part of    *)
(* Dashboard, for any number of agents, texts and requests in flight.      *)
(***************************************************************************)
EXTENDS Dashboard, TLAPS

\* What a step of the website does to the agents.
AgentsStep ==
  \/ AgentsNext
  \/ \E a \in AgentIds :
       \/ \E b \in Bots : ConnectBot(a, b)
       \/ \E k \in Saves :
            \/ RemoveAgent(k, a)
            \/ \E text \in Texts \cup {Empty} : CreateAgent(k, a, text) \/ UpdateAgent(k, a, text)

\* Of a step of the website, the agents see one of their own or nothing.
LEMMA StepOfAgents ==
  ASSUME [Next]_vars
  PROVE  AgentsStep \/ UNCHANGED agentVars
<1>1. CASE UNCHANGED vars
  BY <1>1 DEF vars
<1>2. CASE Next
  BY <1>2 DEF Next, OwnerAtAgents, AgentsStep
<1> QED
  BY <1>1, <1>2

-----------------------------------------------------------------------------

SaveRecords ==
  [kind : {"idle", "save", "remove"}, step : {"idle", "reread", "delete", "insert", "drop"},
   a : AgentIds \cup {None}, text : Texts \cup {Empty, None}, clean : BOOLEAN]

AgentRows == [text : Texts \cup {Empty, None}, bot : Bots \cup {None}]

Adrifts == [AgentIds -> SUBSET (Texts \cup {Empty})]

\* A request is at an agent until it is idle, in a step of its kind, with a text to
\* insert.
ProperSave(rec) ==
  /\ IF rec.step = "idle" THEN rec.a = None ELSE rec.a \in AgentIds
  /\ rec.step \in {"reread", "insert"} => rec.kind = "save"
  /\ rec.step = "drop" => rec.kind = "remove"
  /\ rec.step = "delete" =>
       rec.kind = "remove" \/ (rec.kind = "save" /\ rec.text \in Texts \cup {Empty})
  /\ rec.step = "insert" => rec.text \in Texts

\* The type invariant; only an agent that exists has a text.
AgentsTyped ==
  /\ AgentsTypeOK
  /\ \A a \in AgentIds : agent[a].text = None => agent[a] = NoAgent
  /\ \A k \in Saves : ProperSave(save[k])

\* No agent, no save: the types hold at the start.
LEMMA AgentsTypedInit == AgentsInit => AgentsTyped
BY AgentsAssumption DEF AgentsInit, AgentsTyped, AgentsTypeOK, NoAgent, NoSave, ProperSave

\* A request begins.
LEMMA StartSaveTyped ==
  ASSUME AgentsTyped, NEW k \in Saves, NEW a \in AgentIds, NEW kind \in {"save", "remove"},
         StartSave(k, kind, a), UNCHANGED <<chunks, rocky>>, agent' \in [AgentIds -> AgentRows],
         adrift' \in Adrifts,
         \A o \in AgentIds : agent'[o].text = None => agent'[o] = NoAgent
  PROVE  AgentsTyped'
<1>1. ASSUME NEW o \in Saves PROVE save'[o] \in SaveRecords /\ ProperSave(save'[o])
  <2>1. save[o] \in SaveRecords /\ ProperSave(save[o])
    BY DEF AgentsTyped, AgentsTypeOK, SaveRecords
  <2>2. CASE o = k
    <3>1. save'[o] = [kind |-> kind, step |-> IF kind = "save" THEN "reread" ELSE "delete",
                      a |-> a, text |-> None, clean |-> At(a) = {}]
      BY <2>2 DEF StartSave
    <3>2. (At(a) = {}) \in BOOLEAN
      OBVIOUS
    <3> QED
      BY <3>1, <3>2 DEF SaveRecords, ProperSave
  <2>3. CASE o # k /\ o \in At(a)
    <3>1. save'[o] = [save[o] EXCEPT !.clean = FALSE]
      BY <2>3 DEF StartSave
    <3>2. [save[o] EXCEPT !.clean = FALSE] \in SaveRecords
      BY <2>1 DEF SaveRecords
    <3> QED
      BY <2>1, <3>1, <3>2 DEF ProperSave, SaveRecords
  <2>4. CASE o # k /\ o \notin At(a)
    BY <2>1, <2>4 DEF StartSave
  <2> QED
    BY <2>2, <2>3, <2>4
<1>2. save' = [o \in Saves |-> save'[o]]
  BY DEF StartSave
<1>3. save' \in [Saves -> SaveRecords]
  BY <1>1, <1>2
<1> QED
  BY <1>1, <1>3 DEF AgentsTyped, AgentsTypeOK, SaveRecords, AgentRows, Adrifts

\* A request ends.
LEMMA EndSaveTyped ==
  ASSUME AgentsTyped, NEW k \in Saves, NEW ok \in BOOLEAN, EndSave(k, ok), save[k].step # "idle",
         agent' \in [AgentIds -> AgentRows], chunks' \in [AgentIds -> SUBSET Texts],
         adrift' \in Adrifts,
         \A o \in AgentIds : agent'[o].text = None => agent'[o] = NoAgent
  PROVE  AgentsTyped'
<1>1. save[k].a \in AgentIds /\ save' = [save EXCEPT ![k] = NoSave]
  BY DEF AgentsTyped, EndSave, ProperSave
<1>2. rocky' \subseteq AgentIds
  BY <1>1 DEF EndSave, AgentsTyped, AgentsTypeOK
<1>3. NoSave \in SaveRecords /\ ProperSave(NoSave)
  BY DEF NoSave, SaveRecords, ProperSave
<1>4. save' \in [Saves -> SaveRecords] /\ \A o \in Saves : ProperSave(save'[o])
  BY <1>1, <1>3 DEF AgentsTyped, AgentsTypeOK, SaveRecords
<1> QED
  BY <1>2, <1>4 DEF AgentsTyped, AgentsTypeOK, SaveRecords, AgentRows, Adrifts

\* A request goes on.
LEMMA MoveSaveTyped ==
  ASSUME AgentsTyped, NEW k \in Saves, NEW rec \in SaveRecords, save' = [save EXCEPT ![k] = rec],
         ProperSave(rec), UNCHANGED <<agent, rocky>>, chunks' \in [AgentIds -> SUBSET Texts],
         adrift' \in Adrifts
  PROVE  AgentsTyped'
BY DEF AgentsTyped, AgentsTypeOK, SaveRecords, Adrifts

\* Calls are given up with a text a request inserts, or as a deletion.
LEMMA AdriftStep ==
  ASSUME AgentsTyped, AgentsStep \/ UNCHANGED agentVars
  PROVE  adrift' \in Adrifts
<1>0. adrift \in Adrifts
  BY DEF AgentsTyped, AgentsTypeOK, Adrifts
<1>1. ASSUME NEW k \in Saves, GiveUp(k) PROVE adrift' \in Adrifts
  <2>1. save[k].step = "insert" => save[k].text \in Texts
    BY DEF AgentsTyped, ProperSave
  <2> QED
    BY <1>0, <1>1, <2>1 DEF GiveUp, Adrifts
<1>2. ASSUME NEW a \in AgentIds, NEW call, LandLate(a, call) PROVE adrift' \in Adrifts
  BY <1>0, <1>2 DEF LandLate, Adrifts
<1>3. ASSUME NEW k \in Saves, DeleteChunks(k) \/ InsertChunks(k) \/ DropAgent(k) \/ Reread(k)
      PROVE  adrift' = adrift
  BY <1>3 DEF DeleteChunks, InsertChunks, DropAgent, Reread
<1> QED
  BY <1>0, <1>1, <1>2, <1>3 DEF AgentsStep, AgentsNext, FailSync, Abandon, RemoveAgent,
     CreateAgent, UpdateAgent, ConnectBot, agentVars

\* Every step of the agents keeps their types.
LEMMA AgentsTypedStep ==
  ASSUME AgentsTyped, AgentsStep \/ UNCHANGED agentVars
  PROVE  AgentsTyped'
<1> USE AgentsAssumption
<1>0. /\ agent \in [AgentIds -> AgentRows] /\ chunks \in [AgentIds -> SUBSET Texts]
      /\ save \in [Saves -> SaveRecords]
      /\ \A a \in AgentIds : agent[a].text = None => agent[a] = NoAgent
      /\ \A k \in Saves : ProperSave(save[k])
  BY DEF AgentsTyped, AgentsTypeOK, AgentRows, SaveRecords
<1>a. adrift' \in Adrifts
  BY AdriftStep
<1>1. CASE UNCHANGED agentVars
  BY <1>1 DEF agentVars, AgentsTyped, AgentsTypeOK
<1>2. ASSUME NEW a \in AgentIds, NEW b \in Bots, ConnectBot(a, b) PROVE AgentsTyped'
  <2>1. /\ agent' = [agent EXCEPT ![a].bot = b] /\ agent[a] # NoAgent
        /\ UNCHANGED <<chunks, save, rocky>>
    BY <1>2 DEF ConnectBot
  <2>2. agent' \in [AgentIds -> AgentRows]
    BY <1>0, <2>1 DEF AgentRows
  <2>3. \A o \in AgentIds : agent'[o].text = None => agent'[o] = NoAgent
    BY <1>0, <2>1 DEF AgentRows
  <2> QED
    BY <1>0, <1>a, <2>1, <2>2, <2>3 DEF AgentsTyped, AgentsTypeOK, AgentRows, Adrifts
<1>3. ASSUME NEW a \in AgentIds, NEW k \in Saves, RemoveAgent(k, a) PROVE AgentsTyped'
  BY <1>a, <1>0, <1>3, StartSaveTyped DEF RemoveAgent
<1>4. ASSUME NEW a \in AgentIds, NEW k \in Saves, NEW text \in Texts \cup {Empty},
             CreateAgent(k, a, text) \/ UpdateAgent(k, a, text)
      PROVE  AgentsTyped'
  <2>1. /\ agent' = [agent EXCEPT ![a].text = text]
        /\ StartSave(k, "save", a) /\ UNCHANGED <<chunks, rocky>>
    BY <1>4 DEF CreateAgent, UpdateAgent
  <2>2. agent' \in [AgentIds -> AgentRows]
    BY <1>0, <2>1 DEF AgentRows
  <2>3. \A o \in AgentIds : agent'[o].text = None => agent'[o] = NoAgent
    BY <1>0, <2>1 DEF AgentRows
  <2> QED
    BY <1>a, <2>1, <2>2, <2>3, StartSaveTyped
<1>5. ASSUME NEW k \in Saves, Reread(k) PROVE AgentsTyped'
  <2> DEFINE a == save[k].a
             rec == [save[k] EXCEPT !.step = "delete", !.text = agent[a].text]
  <2>1. save[k].step = "reread" /\ a \in AgentIds /\ UNCHANGED <<agent, chunks>>
    BY <1>0, <1>5 DEF Reread, ProperSave
  <2>2. CASE agent[a] = NoAgent
    <3>1. EndSave(k, FALSE)
      BY <1>5, <2>2 DEF Reread
    <3> QED
      BY <1>a, <1>0, <2>1, <3>1, EndSaveTyped
  <2>3. CASE agent[a] # NoAgent
    <3>1. save' = [save EXCEPT ![k] = rec] /\ UNCHANGED rocky
      BY <1>5, <2>3 DEF Reread
    <3>2. agent[a].text \in Texts \cup {Empty}
      BY <1>0, <2>1, <2>3 DEF AgentRows
    <3>3. rec \in SaveRecords
      <4> DEFINE first == [save[k] EXCEPT !.step = "delete"]
      <4>1. first \in SaveRecords
        BY <1>0 DEF SaveRecords
      <4>2. rec = [first EXCEPT !.text = agent[a].text]
        BY <1>0 DEF SaveRecords
      <4> HIDE DEF first
      <4> QED
        BY <3>2, <4>1, <4>2 DEF SaveRecords
    <3>4. /\ rec.step = "delete" /\ rec.a \in AgentIds
          /\ rec.kind = "save" /\ rec.text \in Texts \cup {Empty}
      BY <1>0, <2>1, <3>2 DEF SaveRecords, ProperSave
    <3> HIDE DEF rec
    <3>5. ProperSave(rec)
      BY <3>4 DEF ProperSave
    <3> QED
      BY <1>a, <1>0, <2>1, <3>1, <3>3, <3>5, MoveSaveTyped
  <2> QED
    BY <2>2, <2>3
<1>6. ASSUME NEW k \in Saves, DeleteChunks(k) PROVE AgentsTyped'
  <2>1. /\ save[k].step = "delete" /\ save[k].a \in AgentIds /\ UNCHANGED agent
        /\ chunks' = [chunks EXCEPT ![save[k].a] = {}]
    BY <1>0, <1>6 DEF DeleteChunks, ProperSave
  <2>2. chunks' \in [AgentIds -> SUBSET Texts]
    BY <1>0, <2>1
  <2>3. CASE save[k].kind # "remove" /\ save[k].text = Empty
    <3>1. EndSave(k, TRUE)
      BY <1>6, <2>3 DEF DeleteChunks
    <3> QED
      BY <1>a, <1>0, <2>1, <2>2, <3>1, EndSaveTyped
  <2>4. CASE save[k].kind = "remove" \/ save[k].text # Empty
    <3> DEFINE next == IF save[k].kind = "remove" THEN "drop" ELSE "insert"
               rec == [save[k] EXCEPT !.step = next]
    <3>1. save' = [save EXCEPT ![k] = rec] /\ UNCHANGED rocky
      BY <1>6, <2>4 DEF DeleteChunks
    <3>a. next \in {"drop", "insert"}
      OBVIOUS
    <3>2. rec \in SaveRecords
      <4> HIDE DEF next
      <4> QED
        BY <1>0, <3>a DEF SaveRecords
    <3>3. /\ rec.step = next /\ rec.a \in AgentIds /\ rec.kind = save[k].kind
          /\ rec.text = save[k].text
      BY <1>0, <2>1 DEF SaveRecords
    <3>4. save[k].kind = "remove" \/ (save[k].kind = "save" /\ save[k].text \in Texts)
      BY <1>0, <2>1, <2>4 DEF ProperSave, SaveRecords
    <3> HIDE DEF rec
    <3>5. ProperSave(rec)
      BY <3>3, <3>4 DEF ProperSave
    <3> QED
      BY <1>a, <2>1, <2>2, <3>1, <3>2, <3>5, MoveSaveTyped
  <2> QED
    BY <2>3, <2>4
<1>7. ASSUME NEW k \in Saves, InsertChunks(k) PROVE AgentsTyped'
  <2>1. /\ save[k].step = "insert" /\ save[k].a \in AgentIds /\ save[k].text \in Texts
        /\ UNCHANGED agent /\ EndSave(k, TRUE)
    BY <1>0, <1>7 DEF InsertChunks, ProperSave
  <2>2. chunks' \in [AgentIds -> SUBSET Texts]
    BY <1>0, <1>7, <2>1 DEF InsertChunks
  <2> QED
    BY <1>a, <1>0, <2>1, <2>2, EndSaveTyped
<1>8. ASSUME NEW k \in Saves, FailSync(k) PROVE AgentsTyped'
  <2>1. save[k].step \in {"delete", "insert"} /\ UNCHANGED <<agent, chunks>>
    BY <1>8 DEF FailSync
  <2>2. CASE save[k].kind = "remove"
    <3> DEFINE rec == [save[k] EXCEPT !.step = "drop", !.clean = FALSE]
    <3>1. save' = [save EXCEPT ![k] = rec] /\ UNCHANGED rocky
      BY <1>8, <2>2 DEF FailSync
    <3>2. rec \in SaveRecords
      BY <1>0 DEF SaveRecords
    <3>3. rec.step = "drop" /\ rec.a \in AgentIds /\ rec.kind = "remove"
      BY <1>0, <2>1, <2>2 DEF SaveRecords, ProperSave
    <3> HIDE DEF rec
    <3>4. ProperSave(rec)
      BY <3>3 DEF ProperSave
    <3> QED
      BY <1>a, <1>0, <2>1, <3>1, <3>2, <3>4, MoveSaveTyped
  <2>3. CASE save[k].kind # "remove"
    <3>1. EndSave(k, FALSE)
      BY <1>8, <2>3 DEF FailSync
    <3> QED
      BY <1>a, <1>0, <2>1, <3>1, EndSaveTyped
  <2> QED
    BY <2>2, <2>3
<1>9. ASSUME NEW k \in Saves, DropAgent(k) PROVE AgentsTyped'
  <2>1. /\ save[k].step = "drop" /\ EndSave(k, TRUE) /\ UNCHANGED chunks
        /\ agent' = [agent EXCEPT ![save[k].a] = NoAgent]
    BY <1>9 DEF DropAgent
  <2>2. NoAgent \in AgentRows
    BY DEF NoAgent, AgentRows
  <2> QED
    BY <1>a, <1>0, <2>1, <2>2, EndSaveTyped
<1>10. ASSUME NEW k \in Saves, Abandon(k) PROVE AgentsTyped'
  <2>1. save[k].step # "idle" /\ EndSave(k, FALSE) /\ UNCHANGED <<agent, chunks>>
    BY <1>10 DEF Abandon
  <2> QED
    BY <1>0, <1>a, <2>1, EndSaveTyped
<1>11. ASSUME NEW a \in AgentIds, NEW call \in Texts \cup {Empty}, LandLate(a, call)
       PROVE  AgentsTyped'
  <2>1. chunks' = [chunks EXCEPT ![a] = IF call = Empty THEN {} ELSE @ \cup {call}]
        /\ rocky' = rocky \cup {a} /\ UNCHANGED agent
    BY <1>11 DEF LandLate
  <2>2. chunks' \in [AgentIds -> SUBSET Texts]
    BY <1>0, <2>1
  <2>3. ASSUME NEW o \in Saves PROVE save'[o] \in SaveRecords /\ ProperSave(save'[o])
    <3>1. save'[o] = save[o] \/ save'[o] = [save[o] EXCEPT !.clean = FALSE]
      BY <1>11 DEF LandLate
    <3>2. [save[o] EXCEPT !.clean = FALSE] \in SaveRecords
      BY <1>0 DEF SaveRecords
    <3> QED
      BY <1>0, <3>1, <3>2 DEF ProperSave, SaveRecords
  <2>4. save' = [o \in Saves |-> save'[o]]
    BY <1>11 DEF LandLate
  <2>5. save' \in [Saves -> SaveRecords]
    BY <2>3, <2>4
  <2> QED
    BY <1>0, <1>a, <2>1, <2>2, <2>3, <2>5
    DEF AgentsTyped, AgentsTypeOK, SaveRecords, AgentRows, Adrifts
<1> QED
  BY <1>1, <1>2, <1>3, <1>4, <1>5, <1>6, <1>7, <1>8, <1>9, <1>10, <1>11 DEF AgentsStep, AgentsNext

-----------------------------------------------------------------------------

\* How far an undisturbed request is: it has read the agent's text, and since the
\* deletion there is no chunk.
InStep(k) ==
  LET a == save[k].a IN
    /\ save[k].step = "delete" /\ save[k].kind = "save" => save[k].text = agent[a].text
    /\ save[k].step = "insert" => save[k].text = agent[a].text /\ chunks[a] = {}
    /\ save[k].step = "drop" => chunks[a] = {}

\* A request that counts as undisturbed is the only one at its agent.
Alone(k) == \A o \in Saves : save[o].a = save[k].a => o = k

Undisturbed(k) == save[k].step # "idle" /\ save[k].clean

InOrder(a) ==
  a \notin rocky /\ (\A k \in Saves : save[k].a # a) => chunks[a] = {agent[a].text} \ {Empty, None}

SyncInv ==
  /\ AgentsTyped
  /\ \A k \in Saves : Undisturbed(k) => Alone(k) /\ InStep(k)
  /\ \A a \in AgentIds : InOrder(a)

\* What the run checks is the part of the invariant about agents nobody is at.
LEMMA SyncGivesChunks == SyncInv => ChunksFollowText
BY DEF SyncInv, InOrder, ChunksFollowText, At

\* No save is under way at the start.
LEMMA SyncInit == AgentsInit => SyncInv
<1> SUFFICES ASSUME AgentsInit PROVE SyncInv
  OBVIOUS
<1>1. \A k \in Saves : ~Undisturbed(k)
  BY DEF AgentsInit, NoSave, Undisturbed
<1>2. \A a \in AgentIds : InOrder(a)
  BY AgentsAssumption DEF AgentsInit, NoAgent, InOrder
<1> QED
  BY <1>1, <1>2, AgentsTypedInit DEF SyncInv

\* A step of request k at agent a leaves every other request and agent in order.
LEMMA Elsewhere ==
  ASSUME SyncInv, AgentsTyped', NEW k \in Saves, NEW a \in AgentIds,
         save[k].a \in {a, None}, save'[k].a \in {a, None},
         \A o \in Saves \ {k} :
           /\ save'[o].a = save[o].a /\ save'[o].step = save[o].step
           /\ save'[o].kind = save[o].kind /\ save'[o].text = save[o].text
           /\ save'[o].clean => save[o].clean /\ (save[o].step = "idle" \/ save[o].a # a),
         \A b \in AgentIds \ {a} :
           agent'[b].text = agent[b].text /\ chunks'[b] = chunks[b] /\ (b \in rocky' <=> b \in rocky),
         Undisturbed(k)' => Alone(k)' /\ InStep(k)',
         InOrder(a)'
  PROVE  SyncInv'
<1>1. ASSUME NEW o \in Saves \ {k}, Undisturbed(o)' PROVE Alone(o)' /\ InStep(o)'
  <2>1. Undisturbed(o) /\ save[o].a # a
    BY <1>1 DEF Undisturbed
  <2>2. Alone(o) /\ InStep(o) /\ save[o].a \in AgentIds /\ save[o].a # None
    BY <2>1, AgentsAssumption DEF SyncInv, AgentsTyped, ProperSave, Undisturbed
  <2>3. Alone(o)'
    BY <2>1, <2>2 DEF Alone
  <2>4. InStep(o)'
    BY <2>1, <2>2 DEF InStep
  <2> QED
    BY <2>3, <2>4
<1>2. ASSUME NEW b \in AgentIds \ {a} PROVE InOrder(b)'
  <2>1. InOrder(b) /\ b # None
    BY AgentsAssumption DEF SyncInv
  <2>2. (\A o \in Saves : save'[o].a # b) => (\A o \in Saves : save[o].a # b)
    BY <2>1
  <2> QED
    BY <2>1, <2>2 DEF InOrder
<1> QED
  BY <1>1, <1>2 DEF SyncInv

\* A request begins: undisturbed if it is alone.
LEMMA StartSaveSync ==
  ASSUME SyncInv, AgentsTyped', NEW k \in Saves, NEW a \in AgentIds, NEW kind \in {"save", "remove"},
         StartSave(k, kind, a), UNCHANGED <<chunks, rocky>>,
         \A b \in AgentIds \ {a} : agent'[b].text = agent[b].text
  PROVE  SyncInv'
<1>0. save[k].a = None /\ save' \in [Saves -> SaveRecords] /\ save \in [Saves -> SaveRecords]
  BY DEF StartSave, NoSave, SyncInv, AgentsTyped, AgentsTypeOK, SaveRecords
<1>1. save'[k] = [kind |-> kind, step |-> IF kind = "save" THEN "reread" ELSE "delete",
                  a |-> a, text |-> None, clean |-> At(a) = {}]
  BY DEF StartSave
<1>2. ASSUME NEW o \in Saves \ {k}
      PROVE  /\ save'[o].a = save[o].a /\ save'[o].step = save[o].step
             /\ save'[o].kind = save[o].kind /\ save'[o].text = save[o].text
             /\ save'[o].clean => save[o].clean /\ save[o].a # a
  <2>1. save'[o] = IF save[o].a = a THEN [save[o] EXCEPT !.clean = FALSE] ELSE save[o]
    BY DEF StartSave, At
  <2> QED
    BY <1>0, <2>1 DEF SaveRecords
<1>3. ASSUME Undisturbed(k)' PROVE Alone(k)' /\ InStep(k)'
  <2>1. \A o \in Saves : save[o].a # a
    <3>1. save'[k].clean
      BY <1>3 DEF Undisturbed
    <3>2. ASSUME At(a) # {} PROVE ~ save'[k].clean
      <4>1. (At(a) = {}) = FALSE
        BY <3>2
      <4>2. save'[k] = [kind |-> kind, step |-> IF kind = "save" THEN "reread" ELSE "delete",
                        a |-> a, text |-> None, clean |-> FALSE]
        BY <1>1, <4>1
      <4> QED
        BY <4>2
    <3> QED
      BY <3>1, <3>2 DEF At
  <2> QED
    BY <1>1, <1>2, <2>1 DEF Alone, InStep
<1>4. InOrder(a)'
  BY <1>1 DEF InOrder
<1> QED
  BY <1>0, <1>1, <1>2, <1>3, <1>4, Elsewhere

\* Another request counts as undisturbed only if request k is at another agent.
LEMMA OthersAway ==
  ASSUME SyncInv, NEW k \in Saves, save[k].step # "idle", NEW o \in Saves \ {k}, save[o].clean
  PROVE  save[o].step = "idle" \/ save[o].a # save[k].a
BY DEF SyncInv, Alone, Undisturbed

\* A request goes on at its agent.
LEMMA MoveSaveSync ==
  ASSUME SyncInv, AgentsTyped', NEW k \in Saves, NEW rec, save[k].step # "idle",
         save' = [save EXCEPT ![k] = rec], rec.a = save[k].a, UNCHANGED <<agent, rocky>>,
         \A b \in AgentIds \ {save[k].a} : chunks'[b] = chunks[b],
         rec.clean => save[k].clean, Undisturbed(k) /\ rec.clean => InStep(k)'
  PROVE  SyncInv'
<1>0. PICK a \in AgentIds : a = save[k].a
  BY DEF SyncInv, AgentsTyped, ProperSave
<1>1. /\ save'[k] = rec /\ \A o \in Saves \ {k} : save'[o] = save[o]
  BY DEF SyncInv, AgentsTyped, AgentsTypeOK, ProperSave
<1>2. \A o \in Saves \ {k} :
        /\ save'[o].a = save[o].a /\ save'[o].step = save[o].step
        /\ save'[o].kind = save[o].kind /\ save'[o].text = save[o].text
        /\ save'[o].clean => save[o].clean /\ (save[o].step = "idle" \/ save[o].a # a)
  BY <1>0, <1>1, OthersAway
<1>3. ASSUME Undisturbed(k)' PROVE Alone(k)' /\ InStep(k)'
  <2>1. rec.clean /\ Undisturbed(k) /\ Alone(k)
    BY <1>1, <1>3 DEF Undisturbed, SyncInv
  <2>2. Alone(k)'
    BY <1>1, <2>1 DEF Alone
  <2> QED
    BY <2>1, <2>2
<1>4. InOrder(a)'
  BY <1>0, <1>1 DEF InOrder
<1>5. save[k].a \in {a, None} /\ save'[k].a \in {a, None}
  BY <1>0, <1>1
<1>6. \A b \in AgentIds \ {a} :
        agent'[b].text = agent[b].text /\ chunks'[b] = chunks[b] /\ (b \in rocky' <=> b \in rocky)
  BY <1>0
<1> QED
  BY <1>2, <1>3, <1>4, <1>5, <1>6, Elsewhere

\* A request ends: in order after an undisturbed success, and held to nothing after
\* any other end.
LEMMA EndSaveSync ==
  ASSUME SyncInv, AgentsTyped', NEW k \in Saves, NEW ok \in BOOLEAN, save[k].step # "idle",
         EndSave(k, ok),
         \A b \in AgentIds \ {save[k].a} : agent'[b].text = agent[b].text /\ chunks'[b] = chunks[b],
         ok /\ save[k].clean =>
           chunks'[save[k].a] = {agent'[save[k].a].text} \ {Empty, None}
  PROVE  SyncInv'
<1>0. PICK a \in AgentIds : a = save[k].a
  BY DEF SyncInv, AgentsTyped, ProperSave
<1>1. /\ save'[k] = NoSave
      /\ \A o \in Saves \ {k} : save'[o] = save[o]
  BY DEF EndSave, SyncInv, AgentsTyped, AgentsTypeOK, ProperSave
<1>2. \A o \in Saves \ {k} :
        /\ save'[o].a = save[o].a /\ save'[o].step = save[o].step
        /\ save'[o].kind = save[o].kind /\ save'[o].text = save[o].text
        /\ save'[o].clean => save[o].clean /\ (save[o].step = "idle" \/ save[o].a # a)
  BY <1>0, <1>1, OthersAway
<1>3. ~ Undisturbed(k)'
  BY <1>1 DEF Undisturbed, NoSave
<1>4. rocky' = IF ok /\ save[k].clean THEN rocky \ {a} ELSE rocky \cup {a}
  BY <1>0 DEF EndSave
<1>5. InOrder(a)'
  BY <1>0, <1>4 DEF InOrder
<1>6. save[k].a \in {a, None} /\ save'[k].a \in {a, None}
  BY <1>0, <1>1 DEF NoSave
<1>7. \A b \in AgentIds \ {a} :
        agent'[b].text = agent[b].text /\ chunks'[b] = chunks[b] /\ (b \in rocky' <=> b \in rocky)
  BY <1>0, <1>4
<1> QED
  BY <1>2, <1>3, <1>5, <1>6, <1>7, Elsewhere

\* Every step keeps it: the one undisturbed save goes on, any other end marks the agent.
LEMMA SyncStep ==
  ASSUME SyncInv, AgentsStep \/ UNCHANGED agentVars
  PROVE  SyncInv'
<1>0. /\ AgentsTyped' /\ agent \in [AgentIds -> AgentRows] /\ chunks \in [AgentIds -> SUBSET Texts]
      /\ save \in [Saves -> SaveRecords] /\ \A k \in Saves : ProperSave(save[k])
      /\ \A k \in Saves : Undisturbed(k) => InStep(k)
  BY AgentsTypedStep DEF SyncInv, AgentsTyped, AgentsTypeOK, AgentRows, SaveRecords
<1>1. CASE UNCHANGED agentVars
  BY <1>1 DEF agentVars, SyncInv, AgentsTyped, AgentsTypeOK, InOrder, Undisturbed, Alone, InStep
<1>2. ASSUME NEW a \in AgentIds, NEW b \in Bots, ConnectBot(a, b) PROVE SyncInv'
  <2>1. UNCHANGED <<chunks, save, rocky>> /\ \A o \in AgentIds : agent'[o].text = agent[o].text
    BY <1>0, <1>2 DEF ConnectBot, AgentRows
  <2>2. \A k \in Saves : Undisturbed(k)' => Alone(k)' /\ InStep(k)'
    BY <1>0, <2>1 DEF SyncInv, Undisturbed, Alone, InStep, ProperSave
  <2> QED
    BY <1>0, <2>1, <2>2 DEF SyncInv, InOrder
<1>3. ASSUME NEW a \in AgentIds, NEW k \in Saves, RemoveAgent(k, a) PROVE SyncInv'
  BY <1>0, <1>3, StartSaveSync DEF RemoveAgent
<1>4. ASSUME NEW a \in AgentIds, NEW k \in Saves, NEW text \in Texts \cup {Empty},
             CreateAgent(k, a, text) \/ UpdateAgent(k, a, text)
      PROVE  SyncInv'
  <2>1. /\ StartSave(k, "save", a) /\ UNCHANGED <<chunks, rocky>>
        /\ \A b \in AgentIds \ {a} : agent'[b].text = agent[b].text
    BY <1>0, <1>4 DEF CreateAgent, UpdateAgent
  <2> QED
    BY <1>0, <2>1, StartSaveSync
<1>5. ASSUME NEW k \in Saves, Reread(k) PROVE SyncInv'
  <2>1. save[k].step = "reread" /\ save[k].a \in AgentIds /\ UNCHANGED <<agent, chunks>>
    BY <1>0, <1>5 DEF Reread, ProperSave
  <2>2. CASE agent[save[k].a] = NoAgent
    <3>1. EndSave(k, FALSE)
      BY <1>5, <2>2 DEF Reread
    <3> QED
      BY <1>0, <2>1, <3>1, EndSaveSync
  <2>3. CASE agent[save[k].a] # NoAgent
    <3> DEFINE rec == [save[k] EXCEPT !.step = "delete", !.text = agent[save[k].a].text]
    <3>1. save' = [save EXCEPT ![k] = rec] /\ UNCHANGED rocky
      BY <1>5, <2>3 DEF Reread
    <3>2. /\ rec.a = save[k].a /\ rec.clean = save[k].clean
          /\ rec.step = "delete" /\ rec.text = agent[save[k].a].text
      BY <1>0 DEF SaveRecords
    <3> HIDE DEF rec
    <3>3. save'[k] = rec
      BY <1>0, <3>1
    <3>4. InStep(k)'
      BY <2>1, <3>2, <3>3 DEF InStep
    <3> QED
      BY <1>0, <2>1, <3>1, <3>2, <3>4, MoveSaveSync
  <2> QED
    BY <2>2, <2>3
<1>6. ASSUME NEW k \in Saves, DeleteChunks(k) PROVE SyncInv'
  <2>1. /\ save[k].step = "delete" /\ save[k].a \in AgentIds /\ UNCHANGED agent
        /\ chunks' = [chunks EXCEPT ![save[k].a] = {}]
    BY <1>0, <1>6 DEF DeleteChunks, ProperSave
  <2>2. chunks'[save[k].a] = {} /\ \A b \in AgentIds \ {save[k].a} : chunks'[b] = chunks[b]
    BY <1>0, <2>1
  <2>3. Undisturbed(k) /\ save[k].kind = "save" => save[k].text = agent[save[k].a].text
    BY <1>0, <2>1 DEF InStep
  <2>4. CASE save[k].kind # "remove" /\ save[k].text = Empty
    <3>1. EndSave(k, TRUE)
      BY <1>6, <2>4 DEF DeleteChunks
    <3>2. save[k].clean => agent'[save[k].a].text = Empty
      BY <1>0, <2>1, <2>3, <2>4 DEF Undisturbed, ProperSave
    <3>3. save[k].clean => chunks'[save[k].a] = {agent'[save[k].a].text} \ {Empty, None}
      BY <2>2, <3>2
    <3> QED
      BY <1>0, <2>1, <2>2, <3>1, <3>3, EndSaveSync
  <2>5. CASE save[k].kind = "remove" \/ save[k].text # Empty
    <3> DEFINE next == IF save[k].kind = "remove" THEN "drop" ELSE "insert"
               rec == [save[k] EXCEPT !.step = next]
    <3>1. save' = [save EXCEPT ![k] = rec] /\ UNCHANGED rocky
      BY <1>6, <2>5 DEF DeleteChunks
    <3>2. /\ rec.a = save[k].a /\ rec.clean = save[k].clean /\ rec.text = save[k].text
          /\ rec.step = next
      <4> HIDE DEF next
      <4> QED
        BY <1>0 DEF SaveRecords
    <3>3. rec.step = "drop" \/ (rec.step = "insert" /\ save[k].kind = "save")
      BY <1>0, <2>1, <3>2 DEF ProperSave
    <3> HIDE DEF rec
    <3>4. save'[k] = rec
      BY <1>0, <3>1
    <3>5. Undisturbed(k) => InStep(k)'
      BY <2>1, <2>2, <2>3, <3>2, <3>3, <3>4 DEF InStep
    <3> QED
      BY <1>0, <2>1, <2>2, <3>1, <3>2, <3>5, MoveSaveSync
  <2> QED
    BY <2>4, <2>5
<1>7. ASSUME NEW k \in Saves, InsertChunks(k) PROVE SyncInv'
  <2>1. /\ save[k].step = "insert" /\ save[k].a \in AgentIds /\ save[k].text \in Texts
        /\ UNCHANGED agent /\ EndSave(k, TRUE)
        /\ chunks' = [chunks EXCEPT ![save[k].a] = @ \cup {save[k].text}]
    BY <1>0, <1>7 DEF InsertChunks, ProperSave
  <2>2. /\ chunks'[save[k].a] = chunks[save[k].a] \cup {save[k].text}
        /\ \A b \in AgentIds \ {save[k].a} : chunks'[b] = chunks[b]
    BY <1>0, <2>1
  <2>3. ASSUME save[k].clean PROVE chunks'[save[k].a] = {agent'[save[k].a].text} \ {Empty, None}
    <3>1. save[k].text = agent[save[k].a].text /\ chunks[save[k].a] = {}
      BY <1>0, <2>1, <2>3 DEF Undisturbed, InStep
    <3> QED
      BY <2>1, <2>2, <3>1, AgentsAssumption
  <2> QED
    BY <1>0, <2>1, <2>2, <2>3, EndSaveSync
<1>8. ASSUME NEW k \in Saves, FailSync(k) PROVE SyncInv'
  <2>1. save[k].step \in {"delete", "insert"} /\ UNCHANGED <<agent, chunks>>
    BY <1>8 DEF FailSync
  <2>2. CASE save[k].kind = "remove"
    <3> DEFINE rec == [save[k] EXCEPT !.step = "drop", !.clean = FALSE]
    <3>1. save' = [save EXCEPT ![k] = rec] /\ UNCHANGED rocky
      BY <1>8, <2>2 DEF FailSync
    <3>2. rec.a = save[k].a /\ rec.clean = FALSE
      BY <1>0 DEF SaveRecords
    <3> HIDE DEF rec
    <3> QED
      BY <1>0, <2>1, <3>1, <3>2, MoveSaveSync
  <2>3. CASE save[k].kind # "remove"
    <3>1. EndSave(k, FALSE)
      BY <1>8, <2>3 DEF FailSync
    <3> QED
      BY <1>0, <2>1, <3>1, EndSaveSync
  <2> QED
    BY <2>2, <2>3
<1>9. ASSUME NEW k \in Saves, DropAgent(k) PROVE SyncInv'
  <2>1. /\ save[k].step = "drop" /\ save[k].a \in AgentIds /\ EndSave(k, TRUE)
        /\ UNCHANGED chunks /\ agent' = [agent EXCEPT ![save[k].a] = NoAgent]
    BY <1>0, <1>9 DEF DropAgent, ProperSave
  <2>2. /\ agent'[save[k].a].text = None
        /\ \A b \in AgentIds \ {save[k].a} : agent'[b].text = agent[b].text
    BY <1>0, <2>1 DEF NoAgent
  <2>3. save[k].clean => chunks[save[k].a] = {}
    BY <1>0, <2>1 DEF Undisturbed, InStep
  <2> QED
    BY <1>0, <2>1, <2>2, <2>3, EndSaveSync
<1>10. ASSUME NEW k \in Saves, Abandon(k) PROVE SyncInv'
  <2>1. save[k].step # "idle" /\ EndSave(k, FALSE) /\ UNCHANGED <<agent, chunks>>
    BY <1>10 DEF Abandon
  <2> QED
    BY <1>0, <2>1, EndSaveSync
<1>11. ASSUME NEW a \in AgentIds, NEW call \in Texts \cup {Empty}, LandLate(a, call)
       PROVE  SyncInv'
  <2>1. /\ \A b \in AgentIds \ {a} : chunks'[b] = chunks[b]
        /\ rocky' = rocky \cup {a} /\ UNCHANGED agent
    BY <1>0, <1>11 DEF LandLate
  <2>2. ASSUME NEW o \in Saves
        PROVE  /\ save'[o].a = save[o].a /\ save'[o].step = save[o].step
               /\ save'[o].kind = save[o].kind /\ save'[o].text = save[o].text
               /\ save'[o].clean =>
                    save[o].clean /\ (save[o].a # a \/ save[o].step \notin {"insert", "drop"})
    <3>1. save'[o] = IF save[o].a = a /\ save[o].step \in {"insert", "drop"}
                     THEN [save[o] EXCEPT !.clean = FALSE] ELSE save[o]
      BY <1>11 DEF LandLate, At
    <3> QED
      BY <1>0, <3>1 DEF SaveRecords
  <2>3. ASSUME NEW o \in Saves, Undisturbed(o)' PROVE Alone(o)' /\ InStep(o)'
    <3>1. Undisturbed(o) /\ save[o].a \in AgentIds
      BY <1>0, <2>2, <2>3 DEF Undisturbed, ProperSave
    <3>2. Alone(o) /\ InStep(o)
      BY <3>1 DEF SyncInv
    <3>3. save[o].a # a \/ save[o].step \notin {"insert", "drop"}
      BY <2>2, <2>3 DEF Undisturbed
    <3>4. Alone(o)'
      BY <2>2, <3>2 DEF Alone
    <3>5. InStep(o)'
      BY <2>1, <2>2, <3>1, <3>2, <3>3 DEF InStep
    <3> QED
      BY <3>4, <3>5
  <2>4. ASSUME NEW b \in AgentIds PROVE InOrder(b)'
    BY <2>1, <2>2 DEF InOrder, SyncInv
  <2> QED
    BY <1>0, <2>3, <2>4 DEF SyncInv
<1> QED
  BY <1>1, <1>2, <1>3, <1>4, <1>5, <1>6, <1>7, <1>8, <1>9, <1>10, <1>11 DEF AgentsStep, AgentsNext

\* Chunks follow the text (replace_chunks_for_agent), for any number of agents, texts
\* and requests at once: whatever failed, stopped, overlapped or was applied late before,
\* the next save that is alone at the agent and succeeds leaves the chunks of its text.
THEOREM Chunks == Spec => []ChunksFollowText
<1>1. Init => SyncInv
  BY SyncInit DEF Init
<1>2. SyncInv /\ [Next]_vars => SyncInv'
  BY StepOfAgents, SyncStep
<1> QED
  BY <1>1, <1>2, SyncGivesChunks, PTL DEF Spec
=============================================================================
