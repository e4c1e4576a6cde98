--------------------------------- MODULE Agents ---------------------------------
(***************************************************************************)
(* The AI agents of the dashboard (app/agents/router.py) and their         *)
(* knowledge in a second store (app/agents/knowledge.py): the text of an   *)
(* agent is committed here, then its chunks there are deleted, embedded    *)
(* and inserted.  A failure of the second store is swallowed, and a call   *)
(* that was given up (a timeout, a stopped process) may still be applied.  *)
(***************************************************************************)
EXTENDS Website

CONSTANTS
  AgentIds, Bots,
  Texts,      \* knowledge texts that yield chunks
  Empty,      \* the empty text
  Saves       \* requests in flight

ASSUME AgentsAssumption ==
  Empty \notin Texts /\ None \notin Texts \cup {Empty} \cup Bots \cup AgentIds

VARIABLES
  agent,   \* agents: knowledge_text and telegram_bot_id
  chunks,  \* agent_knowledge_chunks of each agent: the texts they come from
  save,    \* per request: the agent it is at, how far it is, the text it syncs, and
           \* whether it has met no failure and no other request at the agent
  adrift,  \* calls to the second store given up and not yet applied there: a text to
           \* insert, or Empty for a deletion
  rocky    \* history: agents whose last sync failed, overlapped another, or was
           \* followed by a call given up before

agentVars == <<agent, chunks, save, adrift, rocky>>

NoAgent == [text |-> None, bot |-> None]
NoSave == [kind |-> "idle", step |-> "idle", a |-> None, text |-> None, clean |-> TRUE]

AgentsInit ==
  /\ agent = [a \in AgentIds |-> NoAgent]
  /\ chunks = [a \in AgentIds |-> {}]
  /\ save = [k \in Saves |-> NoSave]
  /\ adrift = [a \in AgentIds |-> {}]
  /\ rocky = {}

At(a) == {k \in Saves : save[k].a = a}

\* Request k starts at agent a; the two of them overlap.
StartSave(k, kind, a) ==
  /\ save[k] = NoSave
  /\ save' = [o \in Saves |->
       IF o = k THEN [kind |-> kind, step |-> IF kind = "save" THEN "reread" ELSE "delete",
                      a |-> a, text |-> None, clean |-> At(a) = {}]
       ELSE IF o \in At(a) THEN [save[o] EXCEPT !.clean = FALSE] ELSE save[o]]

\* The request is over: an undisturbed success leaves the agent in order.
EndSave(k, ok) ==
  LET a == save[k].a IN
    /\ rocky' = IF ok /\ save[k].clean THEN rocky \ {a} ELSE rocky \cup {a}
    /\ save' = [save EXCEPT ![k] = NoSave]

-----------------------------------------------------------------------------

\* create_agent and update_agent commit the text.  A new agent's UUID is fresh: the
\* second store has nothing under it.
CreateAgent(k, a, text) ==
  /\ agent[a] = NoAgent /\ At(a) = {} /\ chunks[a] = {} /\ adrift[a] = {}
  /\ agent' = [agent EXCEPT ![a].text = text]
  /\ StartSave(k, "save", a)
  /\ UNCHANGED <<chunks, adrift, rocky>>

UpdateAgent(k, a, text) ==
  /\ agent[a] # NoAgent
  /\ agent' = [agent EXCEPT ![a].text = text]
  /\ StartSave(k, "save", a)
  /\ UNCHANGED <<chunks, adrift, rocky>>

\* db.refresh: the text to sync is the row's, which another request may have
\* changed; a row that is gone ends the request.
Reread(k) ==
  LET a == save[k].a IN
    /\ save[k].step = "reread"
    /\ IF agent[a] = NoAgent THEN EndSave(k, FALSE)
       ELSE /\ save' = [save EXCEPT ![k].step = "delete", ![k].text = agent[a].text]
            /\ UNCHANGED rocky
    /\ UNCHANGED <<agent, chunks, adrift>>

\* An empty text returns before the old chunks are deleted.
MutantDeleteChunks(k) ==
  LET a == save[k].a IN
    /\ save[k].step = "delete"
    /\ chunks' = IF save[k].text = Empty THEN chunks ELSE [chunks EXCEPT ![a] = {}]
    /\ IF save[k].kind = "remove"
       THEN save' = [save EXCEPT ![k].step = "drop"] /\ UNCHANGED rocky
       ELSE IF save[k].text = Empty THEN EndSave(k, TRUE)
       ELSE save' = [save EXCEPT ![k].step = "insert"] /\ UNCHANGED rocky
    /\ UNCHANGED <<agent, adrift>>

\* delete_chunks_for_agent; with an empty text that is all.
DeleteChunks(k) ==
  LET a == save[k].a IN
    /\ save[k].step = "delete"
    /\ chunks' = [chunks EXCEPT ![a] = {}]
    /\ IF save[k].kind = "remove"
       THEN save' = [save EXCEPT ![k].step = "drop"] /\ UNCHANGED rocky
       ELSE IF save[k].text = Empty THEN EndSave(k, TRUE)
       ELSE save' = [save EXCEPT ![k].step = "insert"] /\ UNCHANGED rocky
    /\ UNCHANGED <<agent, adrift>>

\* replace_chunks_for_agent: the chunks are embedded and inserted.
InsertChunks(k) ==
  LET a == save[k].a IN
    /\ save[k].step = "insert"
    /\ chunks' = [chunks EXCEPT ![a] = @ \cup {save[k].text}]
    /\ EndSave(k, TRUE)
    /\ UNCHANGED <<agent, adrift>>

\* The request gives its call up: the second store never applies it, or does so later.
GiveUp(k) ==
  \/ UNCHANGED adrift
  \/ /\ save[k].step \in {"delete", "insert"}
     /\ LET call == IF save[k].step = "delete" THEN Empty ELSE save[k].text
        IN adrift' = [adrift EXCEPT ![save[k].a] = @ \cup {call}]

\* The embedding or the second store fails, or its answer takes more than 15 seconds:
\* logged, and a removal goes on.
FailSync(k) ==
  /\ save[k].step \in {"delete", "insert"}
  /\ IF save[k].kind = "remove"
     THEN /\ save' = [save EXCEPT ![k].step = "drop", ![k].clean = FALSE]
          /\ UNCHANGED rocky
     ELSE EndSave(k, FALSE)
  /\ GiveUp(k)
  /\ UNCHANGED <<agent, chunks>>

\* The refresh or the row's delete and commit raise, or the process stops.
Abandon(k) ==
  /\ save[k].step # "idle"
  /\ EndSave(k, FALSE)
  /\ GiveUp(k)
  /\ UNCHANGED <<agent, chunks>>

\* The second store applies a call nobody waits for any more: only a request that has
\* yet to delete the chunks makes up for it.
LandLate(a, call) ==
  /\ call \in adrift[a]
  /\ adrift' = [adrift EXCEPT ![a] = @ \ {call}]
  /\ chunks' = [chunks EXCEPT ![a] = IF call = Empty THEN {} ELSE @ \cup {call}]
  /\ rocky' = rocky \cup {a}
  /\ save' = [o \in Saves |->
       IF o \in At(a) /\ save[o].step \in {"insert", "drop"}
       THEN [save[o] EXCEPT !.clean = FALSE] ELSE save[o]]
  /\ UNCHANGED agent

RemoveAgent(k, a) ==
  /\ agent[a] # NoAgent
  /\ StartSave(k, "remove", a)
  /\ UNCHANGED <<agent, chunks, adrift, rocky>>

DropAgent(k) ==
  /\ save[k].step = "drop"
  /\ agent' = [agent EXCEPT ![save[k].a] = NoAgent]
  /\ EndSave(k, TRUE)
  /\ UNCHANGED <<chunks, adrift>>

\* connect_telegram: telegram_bot_id is unique, a refused commit changes nothing.
ConnectBot(a, b) ==
  /\ agent[a] # NoAgent
  /\ \A o \in AgentIds \ {a} : agent[o].bot # b
  /\ agent' = [agent EXCEPT ![a].bot = b]
  /\ UNCHANGED <<chunks, save, adrift, rocky>>

AgentsNext ==
  \/ \E k \in Saves : \/ Reread(k) \/ DeleteChunks(k) \/ InsertChunks(k) \/ FailSync(k)
                     \/ DropAgent(k) \/ Abandon(k)
  \/ \E a \in AgentIds, call \in Texts \cup {Empty} : LandLate(a, call)

-----------------------------------------------------------------------------
(* Properties.                                                              *)

AgentsTypeOK ==
  /\ agent \in [AgentIds -> [text : Texts \cup {Empty, None}, bot : Bots \cup {None}]]
  /\ chunks \in [AgentIds -> SUBSET Texts]
  /\ save \in [Saves -> [kind : {"idle", "save", "remove"},
       step : {"idle", "reread", "delete", "insert", "drop"}, a : AgentIds \cup {None},
       text : Texts \cup {Empty, None}, clean : BOOLEAN]]
  /\ adrift \in [AgentIds -> SUBSET (Texts \cup {Empty})]
  /\ rocky \subseteq AgentIds

\* With no request under way an agent's chunks are those of its text, and none after
\* the text was cleared or the agent removed.  After a sync that failed, was overlapped,
\* stopped half-way or was followed by a call given up before, the next save that is
\* alone and succeeds puts them right (replace_chunks_for_agent).
ChunksFollowText ==
  \A a \in AgentIds \ rocky : At(a) = {} => chunks[a] = {agent[a].text} \ {Empty, None}
=============================================================================
