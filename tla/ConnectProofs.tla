------------------------------ MODULE ConnectProofs ------------------------------
(***************************************************************************)
(* Machine-checked proofs about the Instagram connection as a part of      *)
(* Dashboard, for any number of merchants, accounts, OAuth states and      *)
(* overlapping callbacks.                                                  *)
(***************************************************************************)
EXTENDS Dashboard, TLAPS

\* What a step of the website does to the connection.
ConnectStep ==
  \/ Connecting(Callbacks) \/ Refresher \/ Picking
  \/ \E m \in Merchants : AskMedia(m)

\* Of a step of the website, the connection sees one of its own or nothing.
LEMMA StepOfConnect ==
  ASSUME [Next]_vars
  PROVE  ConnectStep \/ UNCHANGED connectVars
<1>1. OneCallback \in Callbacks
  BY DashboardAssumption DEF OneCallback
<1>2. Connecting({OneCallback}) => Connecting(Callbacks)
  BY <1>1 DEF Connecting
<1>3. CASE UNCHANGED vars
  BY <1>3 DEF vars
<1>4. CASE Next
  BY <1>2, <1>4, DashboardAssumption DEF Next, ConnectStep
<1> QED
  BY <1>3, <1>4

\* The type invariant with the history variables.
ConnectTyped ==
  /\ ConnectTypeOK
  /\ passed \in [States -> 0..2]
  /\ contested \subseteq States
  /\ raced \subseteq Merchants
  /\ outdated \subseteq Merchants
  /\ \A k \in Callbacks :
       /\ callback[k].step # "idle" => callback[k].m \in Merchants
       /\ callback[k].step = "read" => callback[k].state \in States
       /\ callback[k].step = "store" => callback[k].acc \in IgAccounts
  /\ \A m \in Merchants : fetch[m] # None => fetch[m] \in IgAccounts

\* No callback is under way at the start.
LEMMA ConnectTypedInit == ConnectInit => ConnectTyped
<1> SUFFICES ASSUME ConnectInit PROVE ConnectTyped
  OBVIOUS
<1> QED
  BY WebsiteAssumption, ConnectAssumption
     DEF ConnectInit, ConnectTyped, ConnectTypeOK, NoCallback, NotLoaded, NoRefresh

\* Every step of the connection keeps its types.
LEMMA ConnectTypedStep ==
  ASSUME ConnectTyped, ConnectStep \/ UNCHANGED connectVars
  PROVE  ConnectTyped'
<1> USE WebsiteAssumption, ConnectAssumption DEF ConnectTyped, ConnectTypeOK, rows, picker
<1>1. CASE UNCHANGED connectVars
  BY <1>1 DEF connectVars
<1>2. ASSUME NEW s \in States, ExpireState(s) PROVE ConnectTyped'
  BY <1>2 DEF ExpireState
<1>3. ASSUME NEW s \in States, NEW m \in Merchants, StartConnect(m, s) PROVE ConnectTyped'
  BY <1>3 DEF StartConnect
<1>4. ASSUME NEW k \in Callbacks, NEW s \in States, ReadState(k, s) PROVE ConnectTyped'
  BY <1>4 DEF ReadState, NoCallback
<1>5. ASSUME NEW k \in Callbacks, DropState(k) PROVE ConnectTyped'
  BY <1>5 DEF DropState
<1>6. ASSUME NEW k \in Callbacks, Connect(k) PROVE ConnectTyped'
  BY <1>6 DEF Connect, Store, Written, NoCallback
<1>7. ASSUME NEW k \in Callbacks, FailCallback(k) PROVE ConnectTyped'
  BY <1>7 DEF FailCallback, NoCallback
<1>8. ASSUME NEW k \in Callbacks, NEW acc \in IgAccounts, Exchange(k, acc) PROVE ConnectTyped'
  <2>1. /\ callback[k].step = "exchange"
        /\ callback' = [callback EXCEPT ![k].step = "store", ![k].acc = acc]
        /\ UNCHANGED <<rows, oauth, refresher, picker, passed, contested, raced, outdated>>
    BY <1>8 DEF Exchange
  <2>2. callback'[k] = [callback[k] EXCEPT !.step = "store", !.acc = acc]
    BY <2>1
  <2>3. \A j \in Callbacks \ {k} : callback'[j] = callback[j]
    BY <2>1
  <2> DEFINE Request == [step : {"idle", "read", "exchange", "store"},
                         state : States \cup {None}, m : Merchants \cup {None},
                         old : IgAccounts \cup {None}, acc : IgAccounts \cup {None}]
             first == [callback[k] EXCEPT !.step = "store"]
  <2>4. callback' \in [Callbacks -> Request]
    <3>1. callback[k] \in Request
      OBVIOUS
    <3>2. first \in Request
      BY <3>1
    <3>3. [first EXCEPT !.acc = acc] \in Request
      BY <3>2
    <3>4. callback' = [callback EXCEPT ![k] = [first EXCEPT !.acc = acc]]
      BY <2>1
    <3> HIDE DEF first, Request
    <3>5. callback \in [Callbacks -> Request]
      BY DEF Request
    <3> QED
      BY <3>3, <3>4, <3>5
  <2>5. callback[k].m \in Merchants
    BY <2>1
  <2>6. callback'[k].step = "store" /\ callback'[k].m \in Merchants /\ callback'[k].acc \in IgAccounts
    BY <2>2, <2>5
  <2> QED
    BY <2>1, <2>3, <2>4, <2>6
<1>9. ASSUME StartRefresher PROVE ConnectTyped'
  BY <1>9 DEF StartRefresher, NoRefresh
<1>10. ASSUME StoreRefresh PROVE ConnectTyped'
  BY <1>10 DEF StoreRefresh, NoRefresh, NotLoaded
<1>11. ASSUME FailRefresh PROVE ConnectTyped'
  BY <1>11 DEF FailRefresh, NoRefresh, NotLoaded
<1>12. ASSUME NEW m \in Merchants, Age(m) PROVE ConnectTyped'
  BY <1>12 DEF Age
<1>13. ASSUME NEW m \in Merchants, BeginRefresh(m) PROVE ConnectTyped'
  BY <1>13 DEF BeginRefresh
<1>14. ASSUME NEW m \in Merchants, KeepPage(m) \/ FailFetch(m) \/ ExpirePage(m) \/ AskMedia(m)
       PROVE  ConnectTyped'
  BY <1>14 DEF KeepPage, FailFetch, ExpirePage, AskMedia
<1> QED
  BY <1>1, <1>2, <1>3, <1>4, <1>5, <1>6, <1>7, <1>8, <1>9, <1>10, <1>11, <1>12, <1>13, <1>14
     DEF ConnectStep, Connecting, Refresher, Picking

\* They hold in every reachable state.
LEMMA ConnectTypedAlways == Spec => []ConnectTyped
<1>1. Init => ConnectTyped
  BY ConnectTypedInit DEF Init
<1>2. ConnectTyped /\ [Next]_vars => ConnectTyped'
  BY StepOfConnect, ConnectTypedStep
<1> QED
  BY <1>1, <1>2, PTL DEF Spec

-----------------------------------------------------------------------------
(* One account, one merchant.                                               *)

\* The account column is written by the commit of a callback only.
LEMMA AccountWritten ==
  ASSUME ConnectStep \/ UNCHANGED connectVars
  PROVE  UNCHANGED user \/ \E k \in Callbacks : Connect(k)
BY DEF ConnectStep, connectVars, Connecting, Refresher, Picking, rows,
       ExpireState, StartConnect, ReadState, DropState, FailCallback, Exchange,
       StartRefresher, StoreRefresh, FailRefresh, Age, BeginRefresh,
       KeepPage, FailFetch, ExpirePage, AskMedia

\* A connect takes an account only if no other merchant's row has it, which the unique
\* column decides at the commit and not the check before it.
LEMMA OneMerchantStep ==
  ASSUME ConnectTyped, OneMerchantPerAccount, NEW k \in Callbacks, Connect(k)
  PROVE  OneMerchantPerAccount'
<1> DEFINE m == callback[k].m
           account_id == Written(k)
<1>1. m \in Merchants
  BY DEF ConnectTyped, Connect, Store
<1>2. user' = [user EXCEPT ![m] = account_id]
  BY DEF Connect, Store
<1>3. user \in [Merchants -> IgAccounts \cup {None}]
  BY DEF ConnectTyped, ConnectTypeOK
<1>4. \A n \in Merchants \ {m} : account_id # None => user[n] # account_id
  <2>1. CASE callback[k].acc = callback[k].old
    BY <2>1, <1>1, <1>3 DEF Written, OneMerchantPerAccount
  <2>2. CASE callback[k].acc # callback[k].old
    BY <2>2 DEF Written, Connect
  <2> QED
    BY <2>1, <2>2
<1> HIDE DEF m, account_id
<1> QED
  BY <1>1, <1>2, <1>3, <1>4 DEF OneMerchantPerAccount

\* However many merchants connect however many accounts at once, an account is
\* one merchant's (already_connected and the unique column in oauth_callback).
THEOREM OneMerchant == Spec => []OneMerchantPerAccount
<1>1. Init => OneMerchantPerAccount
  BY DEF Init, ConnectInit, OneMerchantPerAccount
<1>2. ConnectTyped /\ OneMerchantPerAccount /\ [Next]_vars => OneMerchantPerAccount'
  <2> SUFFICES ASSUME ConnectTyped, OneMerchantPerAccount, [Next]_vars
               PROVE  OneMerchantPerAccount'
    OBVIOUS
  <2>1. UNCHANGED user \/ \E k \in Callbacks : Connect(k)
    BY StepOfConnect, AccountWritten
  <2>2. CASE UNCHANGED user
    BY <2>2 DEF OneMerchantPerAccount
  <2> QED
    BY <2>1, <2>2, OneMerchantStep
<1> QED
  BY <1>1, <1>2, ConnectTypedAlways, PTL DEF Spec

-----------------------------------------------------------------------------
(* A state lets one callback pass.                                          *)

Reads(k, s) == callback[k].step = "read" /\ callback[k].state = s

\* A state that let one pass is gone, from Redis and from every callback; a
\* state two callbacks have read is contested.
StateInv ==
  \A s \in States \ contested :
    /\ passed[s] <= 1
    /\ passed[s] = 1 => oauth[s] = None /\ \A k \in Callbacks : ~Reads(k, s)
    /\ \A j, k \in Callbacks : Reads(j, s) /\ Reads(k, s) => j = k

stateVars == <<oauth, callback, passed, contested>>

\* The steps that touch a state or a callback.
LEMMA StateWritten ==
  ASSUME ConnectStep \/ UNCHANGED connectVars
  PROVE  UNCHANGED stateVars \/ Connecting(Callbacks)
BY DEF ConnectStep, connectVars, stateVars, Refresher, Picking,
       StartRefresher, StoreRefresh, FailRefresh, Age, BeginRefresh,
       KeepPage, FailFetch, ExpirePage, AskMedia

\* Every step keeps it: a state goes from Redis to at most one callback that passes.
LEMMA StateInvStep ==
  ASSUME ConnectTyped, StateInv, Connecting(Callbacks)
  PROVE  StateInv'
<1> USE DEF StateInv, Reads
<1>1. ASSUME NEW s \in States, ExpireState(s) PROVE StateInv'
  BY <1>1 DEF ExpireState, ConnectTyped, ConnectTypeOK
<1>2. ASSUME NEW s \in States, NEW m \in Merchants, StartConnect(m, s) PROVE StateInv'
  BY <1>2 DEF StartConnect, ConnectTyped, ConnectTypeOK
<1>3. ASSUME NEW k \in Callbacks, NEW s \in States, ReadState(k, s) PROVE StateInv'
  <2>1. /\ callback' = [callback EXCEPT ![k] = [NoCallback EXCEPT !.step = "read", !.state = s,
                                                                  !.m = oauth[s]]]
        /\ oauth[s] # None /\ UNCHANGED <<oauth, passed>>
    BY <1>3 DEF ReadState
  <2>2. \A t \in States : Reads(k, t)' <=> t = s
    BY <2>1 DEF NoCallback, ConnectTyped, ConnectTypeOK
  <2>3. \A j \in Callbacks \ {k} : \A t \in States : Reads(j, t)' <=> Reads(j, t)
    BY <2>1
  <2>4. /\ contested \subseteq contested'
        /\ s \notin contested' => \A j \in Callbacks : ~Reads(j, s)
    BY <1>3 DEF ReadState
  <2> QED
    BY <2>1, <2>2, <2>3, <2>4 DEF ConnectTyped
<1>4. ASSUME NEW k \in Callbacks, DropState(k) PROVE StateInv'
  <2> DEFINE s == callback[k].state
  <2>1. s \in States /\ Reads(k, s) /\ UNCHANGED contested
    BY <1>4 DEF DropState, ConnectTyped
  <2>2. /\ oauth' = [oauth EXCEPT ![s] = None]
        /\ passed' = [passed EXCEPT ![s] = IF passed[s] < 2 THEN passed[s] + 1 ELSE passed[s]]
    BY <1>4 DEF DropState
  <2>3. \A t \in States : ~Reads(k, t)'
    BY <1>4 DEF DropState, ConnectTyped, ConnectTypeOK
  <2>4. \A j \in Callbacks \ {k} : \A t \in States : Reads(j, t)' <=> Reads(j, t)
    <3>1. \A j \in Callbacks \ {k} : callback'[j] = callback[j]
      BY <1>4 DEF DropState, ConnectTyped, ConnectTypeOK
    <3> QED
      BY <3>1
  <2> HIDE DEF s
  <2>5. s \in contested \/ passed[s] = 0
    BY <2>1 DEF ConnectTyped
  <2> QED
    BY <2>1, <2>2, <2>3, <2>4, <2>5 DEF ConnectTyped, ConnectTypeOK
<1>5. ASSUME NEW k \in Callbacks,
             Connect(k) \/ FailCallback(k) \/ \E acc \in IgAccounts : Exchange(k, acc)
      PROVE  StateInv'
  <2>1. UNCHANGED <<oauth, passed, contested>>
    BY <1>5 DEF Connect, Store, FailCallback, Exchange
  <2>2. \A t \in States : ~Reads(k, t)'
    <3>1. CASE Connect(k) \/ FailCallback(k)
      BY <3>1 DEF Connect, Store, FailCallback, NoCallback, ConnectTyped, ConnectTypeOK
    <3>2. ASSUME NEW acc \in IgAccounts, Exchange(k, acc) PROVE callback'[k].step = "store"
      BY <3>2 DEF Exchange, ConnectTyped, ConnectTypeOK
    <3> QED
      BY <1>5, <3>1, <3>2
  <2>3. \A j \in Callbacks \ {k} : \A t \in States : Reads(j, t)' <=> Reads(j, t)
    <3>1. \A j \in Callbacks \ {k} : callback'[j] = callback[j]
      BY <1>5 DEF Connect, Store, FailCallback, Exchange, ConnectTyped, ConnectTypeOK
    <3> QED
      BY <3>1
  <2> QED
    BY <2>1, <2>2, <2>3
<1> QED
  BY <1>1, <1>2, <1>3, <1>4, <1>5 DEF Connecting

\* An OAuth state is good for one callback, whichever of the overlapping
\* requests gets to delete it (oauth_callback).
THEOREM StateOnce == Spec => []StateUsedOnce
<1>1. Init => StateInv
  BY DEF Init, ConnectInit, StateInv, Reads, NoCallback
<1>2. ConnectTyped /\ StateInv /\ [Next]_vars => StateInv'
  <2> SUFFICES ASSUME ConnectTyped, StateInv, [Next]_vars PROVE StateInv'
    OBVIOUS
  <2>1. CASE UNCHANGED stateVars
    BY <2>1 DEF StateInv, Reads, stateVars
  <2> QED
    BY <2>1, StepOfConnect, StateWritten, StateInvStep
<1>3. StateInv => StateUsedOnce
  BY DEF StateInv, StateUsedOnce
<1> QED
  BY <1>1, <1>2, <1>3, ConnectTypedAlways, PTL DEF Spec

-----------------------------------------------------------------------------
(* The token in the row, and the posts it was used for.                     *)

\* What is needed of the refresh script: as long as no connect has overlapped,
\* it holds the token the row has.
TokenInv ==
  \A m \in Merchants \ raced :
    /\ token[m] = user[m]
    /\ refresher.m = m => refresher.token = token[m]
    /\ m \in refresher.left /\ refresher.loaded[m] # None => refresher.loaded[m] = token[m]

tokenVars == <<user, token, refresher, raced>>

\* The steps that touch an account, a token or the script's copy.
LEMMA TokenWritten ==
  ASSUME ConnectStep \/ UNCHANGED connectVars
  PROVE  UNCHANGED tokenVars \/ Refresher \/ \E k \in Callbacks : Connect(k)
BY DEF ConnectStep, connectVars, tokenVars, rows, Connecting, Picking, ExpireState, StartConnect,
       ReadState, DropState, FailCallback, Exchange, KeepPage, FailFetch, ExpirePage, AskMedia

\* What a commit leaves behind.
LEMMA Stored ==
  ASSUME ConnectTyped, NEW k \in Callbacks, Connect(k)
  PROVE  \E m \in Merchants, acc \in IgAccounts :
           /\ token' = [token EXCEPT ![m] = acc]
           /\ \A n \in Merchants \ {m} :
                user'[n] = user[n] /\ (n \in raced' <=> n \in raced)
           /\ m \notin raced' => user'[m] = acc /\ ~Refreshing(m)
           /\ UNCHANGED <<refresher, page, fetch>>
           /\ outdated \subseteq outdated'
           /\ outdated' \subseteq outdated \cup {m}
           /\ m \notin outdated' => {page[m], fetch[m]} \subseteq {None, acc}
<1> DEFINE m == callback[k].m
           acc == callback[k].acc
<1>1. m \in Merchants /\ acc \in IgAccounts
  BY DEF ConnectTyped, Connect, Store
<1>2. /\ token' = [token EXCEPT ![m] = acc]
      /\ user' = [user EXCEPT ![m] = Written(k)]
      /\ UNCHANGED <<refresher, page, fetch>>
      /\ raced' = IF Refreshing(m) \/ user[m] # callback[k].old THEN raced \cup {m} ELSE raced \ {m}
      /\ outdated' = IF {page[m], fetch[m]} \subseteq {None, acc} THEN outdated
                     ELSE outdated \cup {m}
  BY DEF Connect, Store, picker
<1>3. m \notin raced' => Written(k) = acc /\ ~Refreshing(m)
  BY <1>2 DEF Written
<1>4. user'[m] = Written(k) /\ \A n \in Merchants \ {m} : user'[n] = user[n]
  BY <1>1, <1>2 DEF ConnectTyped, ConnectTypeOK
<1> HIDE DEF m, acc
<1>5. m \notin outdated' => {page[m], fetch[m]} \subseteq {None, acc}
  BY <1>2
<1>6. \A n \in Merchants \ {m} : n \in raced' <=> n \in raced
  BY <1>2
<1> QED
  BY <1>1, <1>2, <1>3, <1>4, <1>5, <1>6

\* Every step keeps it: a connect or a refresh nothing raced writes what belongs together.
LEMMA TokenInvStep ==
  ASSUME ConnectTyped, TokenInv, ConnectStep \/ UNCHANGED connectVars
  PROVE  TokenInv'
<1> USE DEF TokenInv
<1>1. CASE UNCHANGED tokenVars
  BY <1>1 DEF tokenVars
<1>2. ASSUME NEW k \in Callbacks, Connect(k) PROVE TokenInv'
  BY <1>2, Stored DEF Refreshing, ConnectTyped, ConnectTypeOK
<1>3. ASSUME StartRefresher PROVE TokenInv'
  BY <1>3, WebsiteAssumption DEF StartRefresher, NoRefresh, NotLoaded, rows, ConnectTyped, ConnectTypeOK
<1>4. ASSUME StoreRefresh PROVE TokenInv'
  BY <1>4, WebsiteAssumption DEF StoreRefresh, NoRefresh, NotLoaded, ConnectTyped, ConnectTypeOK
<1>5. ASSUME FailRefresh PROVE TokenInv'
  BY <1>5, WebsiteAssumption DEF FailRefresh, NoRefresh, NotLoaded, rows, ConnectTyped, ConnectTypeOK
<1>6. ASSUME NEW m \in Merchants, Age(m) PROVE TokenInv'
  BY <1>6 DEF Age
<1>7. ASSUME NEW m \in Merchants, BeginRefresh(m) PROVE TokenInv'
  BY <1>7 DEF BeginRefresh, rows, ConnectTyped, ConnectTypeOK
<1> QED
  BY <1>1, <1>2, <1>3, <1>4, <1>5, <1>6, <1>7, TokenWritten DEF Refresher

\* It holds in every reachable state.
LEMMA TokenInvAlways == Spec => [](ConnectTyped /\ TokenInv)
<1>1. Init => TokenInv
  BY WebsiteAssumption DEF Init, ConnectInit, TokenInv, NoRefresh, NotLoaded
<1>2. ConnectTyped /\ TokenInv /\ [Next]_vars => TokenInv'
  BY StepOfConnect, TokenInvStep
<1> QED
  BY <1>1, <1>2, ConnectTypedAlways, PTL DEF Spec

\* A connect that overlaps neither the refresh script nor another connect leaves
\* the token and the account of the row together (oauth_callback, main).
THEOREM TokenAndAccount == Spec => []TokenOfAccount
<1>1. TokenInv => TokenOfAccount
  BY DEF TokenInv, TokenOfAccount
<1> QED
  BY <1>1, TokenInvAlways, PTL

\* Both the cached posts and those asked for.
PageInv ==
  \A m \in Merchants \ (outdated \cup raced) : {page[m], fetch[m]} \subseteq {None, token[m]}

\* Every step keeps it: a page asked for before another connect is marked.
LEMMA PageInvStep ==
  ASSUME ConnectTyped, TokenInv, PageInv, ConnectStep \/ UNCHANGED connectVars
  PROVE  PageInv'
<1> USE DEF PageInv, ConnectTyped, ConnectTypeOK
<1>1. CASE UNCHANGED <<token, page, fetch, raced, outdated>>
  BY <1>1
<1>2. ASSUME NEW k \in Callbacks, Connect(k) PROVE PageInv'
  BY <1>2, Stored
<1>3. ASSUME StoreRefresh PROVE PageInv'
  <2>1. /\ token' = [token EXCEPT ![refresher.m] = refresher.token]
        /\ UNCHANGED <<page, fetch, raced, outdated>>
    BY <1>3 DEF StoreRefresh, picker
  <2>2. \A m \in Merchants \ raced : token'[m] = token[m]
    BY <2>1 DEF TokenInv
  <2> QED
    BY <2>1, <2>2
<1>4. ASSUME NEW m \in Merchants, KeepPage(m) PROVE PageInv'
  BY <1>4 DEF KeepPage, rows
<1>5. ASSUME NEW m \in Merchants, FailFetch(m) PROVE PageInv'
  BY <1>5 DEF FailFetch, rows
<1>6. ASSUME NEW m \in Merchants, ExpirePage(m) PROVE PageInv'
  BY <1>6 DEF ExpirePage, rows
<1>7. ASSUME NEW m \in Merchants, AskMedia(m) PROVE PageInv'
  BY <1>7 DEF AskMedia, rows
<1>8. ConnectStep \/ UNCHANGED connectVars =>
        \/ UNCHANGED <<token, page, fetch, raced, outdated>>
        \/ StoreRefresh \/ (\E k \in Callbacks : Connect(k))
        \/ \E m \in Merchants : KeepPage(m) \/ FailFetch(m) \/ ExpirePage(m) \/ AskMedia(m)
  BY DEF ConnectStep, connectVars, rows, picker, Connecting, Refresher, Picking, ExpireState,
         StartConnect, ReadState, DropState, FailCallback, Exchange, StartRefresher, FailRefresh,
         Age, BeginRefresh
<1> QED
  BY <1>1, <1>2, <1>3, <1>4, <1>5, <1>6, <1>7, <1>8

\* The media picker never mixes the posts of two accounts: neither another
\* merchant's, nor, unless it was answered across a reconnect, an earlier one's
\* (list_media and its cache).
THEOREM PageAndAccount == Spec => []PageOfAccount
<1>1. Init => PageInv
  BY DEF Init, ConnectInit, PageInv
<1>2. ConnectTyped /\ TokenInv /\ PageInv /\ [Next]_vars => PageInv'
  BY StepOfConnect, PageInvStep
<1>3. PageInv => PageOfAccount
  BY DEF PageInv, PageOfAccount
<1> QED
  BY <1>1, <1>2, <1>3, TokenInvAlways, PTL DEF Spec
=============================================================================
