-------------------------------- MODULE Dashboard --------------------------------
(***************************************************************************)
(* The website of the shop owners: accounts and sessions, the Instagram    *)
(* connection, agents and automations.  Their handlers meet in the session *)
(* get_current_merchant resolves (app/auth/dependencies.py); otherwise     *)
(* they share no table.  A behaviour works on one topic, so that the       *)
(* topics' states add up and do not multiply.                              *)
(***************************************************************************)
EXTENDS Accounts, InstagramConnect, Agents, Automations

CONSTANTS
  Owner,     \* the merchant of the agents and automations, and of the media picker
  FieldSets, \* bound: the sets of fields a patch names
  Topics     \* bound: what the behaviours are about

ASSUME DashboardAssumption ==
  /\ Owner \in Merchants /\ Passwords # {} /\ Callbacks # {}
  /\ FieldSets \subseteq SUBSET {"link", "media", "active"}
  /\ Topics \subseteq {"accounts", "connect", "refresh", "picker", "agents", "automations"}

VARIABLE topic

vars == <<topic, accountVars, connectVars, agentVars, flowVars>>

\* The owner is verified and has one session.
LoggedIn ==
  /\ account = [e \in Merchants |-> IF e # Owner THEN NoAccount
                 ELSE [password |-> CHOOSE p \in Passwords : TRUE, verified |-> TRUE]]
  /\ codes = [e \in Merchants |-> <<>>]
  /\ sessions = [t \in Tokens |-> IF t = CHOOSE o \in Tokens : TRUE THEN Owner ELSE None]
  /\ revoked = {}
  /\ visit = [v \in Visits |-> NoVisit]

Init ==
  /\ topic \in Topics
  /\ IF topic = "accounts" THEN AccountsInit ELSE LoggedIn
  /\ ConnectInit /\ AgentsInit /\ AutomationsInit
  /\ topic # "connect" => oauth = [s \in States |-> None]

\* Bound: callbacks of the refresh and picker topics do not overlap one another.
OneCallback == CHOOSE k \in Callbacks : TRUE

\* Requests of the agents' router that get_current_merchant lets start.
OwnerAtAgents ==
  /\ SignedIn(Owner)
  /\ \E a \in AgentIds :
       \/ \E b \in Bots : ConnectBot(a, b)
       \/ \E k \in Saves :
            \/ RemoveAgent(k, a)
            \/ \E text \in Texts \cup {Empty} : CreateAgent(k, a, text) \/ UpdateAgent(k, a, text)

\* Requests of the automations' router.
OwnerAtFlows ==
  /\ SignedIn(Owner)
  /\ \/ \E f \in FlowIds : RemoveFlow(f)
     \/ \E k \in Edits, link \in Links, media \in Medias :
          \/ \E t \in Templates : Install(k, t, link, media)
          \/ \E f \in FlowIds, fields \in FieldSets, active \in BOOLEAN :
               Patch(k, f, fields, [NoFlow EXCEPT !.link = link, !.media = media, !.active = active])

Next ==
  /\ UNCHANGED topic
  /\ \/ /\ topic = "accounts"
        /\ AccountsNext
        /\ UNCHANGED <<connectVars, agentVars, flowVars>>
     \/ /\ topic \in {"picker", "agents", "automations"}
        /\ \E t \in Tokens : Logout(t)
        /\ UNCHANGED <<connectVars, agentVars, flowVars>>
     \/ /\ topic = "connect"
        /\ Connecting(Callbacks)
        /\ UNCHANGED <<accountVars, agentVars, flowVars>>
     \/ /\ topic = "refresh"
        /\ Connecting({OneCallback}) \/ Refresher
        /\ UNCHANGED <<accountVars, agentVars, flowVars>>
     \/ /\ topic = "picker"
        /\ Connecting({OneCallback}) \/ Picking \/ (SignedIn(Owner) /\ AskMedia(Owner))
        /\ UNCHANGED <<accountVars, agentVars, flowVars>>
     \/ /\ topic = "agents"
        /\ AgentsNext \/ OwnerAtAgents
        /\ UNCHANGED <<accountVars, connectVars, flowVars>>
     \/ /\ topic = "automations"
        /\ AutomationsNext \/ OwnerAtFlows
        /\ UNCHANGED <<accountVars, connectVars, agentVars>>

Spec == Init /\ [][Next]_vars

-----------------------------------------------------------------------------

\* Every variable has its type: the tables and requests of the four parts.
TypeOK == AccountsTypeOK /\ ConnectTypeOK /\ AgentsTypeOK /\ AutomationsTypeOK
=============================================================================
