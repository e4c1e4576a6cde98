---------------------------- MODULE InstagramConnect ----------------------------
(***************************************************************************)
(* The Instagram account of a merchant: the OAuth connect flow             *)
(* (app/instagram/router.py, start_connect and oauth_callback), the daily  *)
(* refresh of tokens (scripts/refresh_instagram_tokens.py), and the first  *)
(* page of the account's posts, cached for the media picker                *)
(* (app/automations/router.py, list_media).                                *)
(*                                                                         *)
(* A token is named by the Instagram account it is for.                    *)
(***************************************************************************)
EXTENDS Website

CONSTANTS
  IgAccounts,
  States,     \* OAuth state tokens
  Callbacks   \* requests serving the callback

ASSUME ConnectAssumption == None \notin IgAccounts \cup States

VARIABLES
  user,      \* merchants.instagram_user_id
  token,     \* merchants.instagram_access_token
  due,       \* merchants whose token expires within REFRESH_WINDOW
  oauth,     \* Redis: the merchant an OAuth state was issued for
  callback,  \* per request: the state it serves, how far it is, the account the
             \* merchant had when it was loaded, and the one exchanged
  refresher, \* the refresh script: the merchants left to do, their tokens as far as they
             \* are loaded, the merchant it is at and the token it refreshes
  page,      \* Redis ig_media: the account whose posts are cached
  fetch,     \* list_media per merchant: the token it asks with
  passed,    \* history: how many callbacks an OAuth state let pass, counted up to two
  contested, \* history: states that two callbacks had read at once
  raced,     \* history: merchants whose last callback to be stored found another account
             \* in the row than it had loaded, or the refresh of their token under way
  outdated   \* history: merchants reconnected after their page was asked for

connectVars == <<user, token, due, oauth, callback, refresher, page, fetch,
                 passed, contested, raced, outdated>>
rows == <<user, token, due>>
picker == <<page, fetch>>

NoCallback == [step |-> "idle", state |-> None, m |-> None, old |-> None, acc |-> None]
NotLoaded == [m \in Merchants |-> None]
NoRefresh == [left |-> {}, loaded |-> NotLoaded, m |-> None, token |-> None]

\* Merchants may be at Instagram's login page already.
ConnectInit ==
  /\ user = [m \in Merchants |-> None]
  /\ token = [m \in Merchants |-> None]
  /\ due = {}
  /\ oauth \in [States -> Merchants \cup {None}]
  /\ callback = [k \in Callbacks |-> NoCallback]
  /\ refresher = NoRefresh
  /\ page = [m \in Merchants |-> None]
  /\ fetch = [m \in Merchants |-> None]
  /\ passed = [s \in States |-> 0]
  /\ contested = {}
  /\ raced = {}
  /\ outdated = {}

\* The script holds a token of m it has loaded.
Refreshing(m) == refresher.m = m \/ (m \in refresher.left /\ refresher.loaded[m] # None)

-----------------------------------------------------------------------------
(* Connecting.                                                              *)

\* start_connect draws a new state token: the name of one that nothing holds any more.
StartConnect(m, s) ==
  /\ oauth[s] = None
  /\ \A k \in Callbacks : callback[k].state # s
  /\ oauth' = [oauth EXCEPT ![s] = m]
  /\ passed' = [passed EXCEPT ![s] = 0]
  /\ contested' = contested \ {s}
  /\ UNCHANGED <<rows, callback, refresher, picker, raced, outdated>>

ExpireState(s) ==
  /\ oauth[s] # None
  /\ oauth' = [oauth EXCEPT ![s] = None]
  /\ UNCHANGED <<rows, callback, refresher, picker, passed, contested, raced, outdated>>

\* oauth_callback reads the state...
ReadState(k, s) ==
  /\ callback[k] = NoCallback
  /\ oauth[s] # None
  /\ callback' = [callback EXCEPT ![k] =
       [NoCallback EXCEPT !.step = "read", !.state = s, !.m = oauth[s]]]
  /\ contested' = IF \E o \in Callbacks : callback[o].step = "read" /\ callback[o].state = s
                  THEN contested \cup {s} ELSE contested
  /\ UNCHANGED <<rows, oauth, refresher, picker, passed, raced, outdated>>

\* The state stays valid until it expires.
MutantDropState(k) ==
  LET s == callback[k].state IN
    /\ callback[k].step = "read"
    /\ passed' = [passed EXCEPT ![s] = IF @ < 2 THEN @ + 1 ELSE @]
    /\ callback' = [callback EXCEPT ![k].step = "exchange", ![k].state = None,
                                         ![k].old = user[callback[k].m]]
    /\ UNCHANGED <<rows, oauth, refresher, picker, contested, raced, outdated>>

\* ... then deletes it and loads the merchant.
DropState(k) ==
  LET s == callback[k].state IN
    /\ callback[k].step = "read"
    /\ oauth' = [oauth EXCEPT ![s] = None]
    /\ passed' = [passed EXCEPT ![s] = IF @ < 2 THEN @ + 1 ELSE @]
    /\ callback' = [callback EXCEPT ![k].step = "exchange", ![k].state = None,
                                         ![k].old = user[callback[k].m]]
    /\ UNCHANGED <<rows, refresher, picker, contested, raced, outdated>>

\* exchange_code, then the query for another merchant with the account.
Exchange(k, acc) ==
  /\ callback[k].step = "exchange"
  /\ \A m \in Merchants \ {callback[k].m} : user[m] # acc
  /\ callback' = [callback EXCEPT ![k].step = "store", ![k].acc = acc]
  /\ UNCHANGED <<rows, oauth, refresher, picker, passed, contested, raced, outdated>>

\* Account, token and expiry are committed together.
Store(k, account_id) ==
  LET rec == callback[k]
      m == rec.m
  IN /\ rec.step = "store"
     /\ user' = [user EXCEPT ![m] = account_id]
     /\ token' = [token EXCEPT ![m] = rec.acc]
     /\ due' = due \ {m}
     /\ raced' = IF Refreshing(m) \/ user[m] # rec.old THEN raced \cup {m} ELSE raced \ {m}
     /\ outdated' = IF {page[m], fetch[m]} \subseteq {None, rec.acc} THEN outdated
                    ELSE outdated \cup {m}
     /\ callback' = [callback EXCEPT ![k] = NoCallback]
     /\ UNCHANGED <<oauth, refresher, picker, passed, contested>>

\* An account that is the one loaded is not written.
Written(k) ==
  LET rec == callback[k] IN IF rec.acc = rec.old THEN user[rec.m] ELSE rec.acc

\* The column's unique constraint left out.
MutantConnect(k) == Store(k, Written(k))

\* The account is only set the first time.
MutantConnectOnce(k) ==
  LET rec == callback[k] IN
    /\ rec.acc = rec.old \/ \A m \in Merchants \ {rec.m} : user[m] # rec.acc
    /\ Store(k, IF rec.old # None THEN user[rec.m] ELSE rec.acc)

\* instagram_user_id is unique: a commit that writes another merchant's is refused.
Connect(k) ==
  LET rec == callback[k] IN
    /\ rec.acc = rec.old \/ \A m \in Merchants \ {rec.m} : user[m] # rec.acc
    /\ Store(k, Written(k))

\* The exchange fails, the account is taken, or the commit is refused.
FailCallback(k) ==
  /\ callback[k] # NoCallback
  /\ callback' = [callback EXCEPT ![k] = NoCallback]
  /\ UNCHANGED <<rows, oauth, refresher, picker, passed, contested, raced, outdated>>

-----------------------------------------------------------------------------
(* The refresh script.                                                      *)

Age(m) ==
  /\ token[m] # None
  /\ due' = due \cup {m}
  /\ UNCHANGED <<user, token, oauth, callback, refresher, picker, passed, contested, raced, outdated>>

\* main loads the merchants that are due.
StartRefresher ==
  /\ refresher = NoRefresh
  /\ due # {}
  /\ refresher' = [NoRefresh EXCEPT !.left = due,
       !.loaded = [m \in Merchants |-> IF m \in due THEN token[m] ELSE None]]
  /\ UNCHANGED <<rows, oauth, callback, picker, passed, contested, raced, outdated>>

\* A merchant whose attributes a commit has expired is loaded again.
BeginRefresh(m) ==
  /\ refresher.m = None
  /\ m \in refresher.left
  /\ refresher' = [refresher EXCEPT !.m = m, !.loaded[m] = None, !.token =
       IF refresher.loaded[m] = None THEN token[m] ELSE refresher.loaded[m]]
  /\ UNCHANGED <<rows, oauth, callback, picker, passed, contested, raced, outdated>>

\* The new token is written over whatever the row has by now.
StoreRefresh ==
  /\ refresher.m # None
  /\ token' = [token EXCEPT ![refresher.m] = refresher.token]
  /\ due' = due \ {refresher.m}
  /\ refresher' = [NoRefresh EXCEPT !.left = refresher.left \ {refresher.m}]
  /\ UNCHANGED <<user, oauth, callback, picker, passed, contested, raced, outdated>>

\* A token that cannot be refreshed is reported; the others stay as they were loaded.
FailRefresh ==
  /\ refresher.m # None
  /\ LET left == refresher.left \ {refresher.m} IN
       refresher' = IF left = {} THEN NoRefresh
                    ELSE [refresher EXCEPT !.left = left, !.m = None, !.token = None]
  /\ UNCHANGED <<rows, oauth, callback, picker, passed, contested, raced, outdated>>

-----------------------------------------------------------------------------
(* The media picker.                                                        *)

\* list_media after a cache miss.
AskMedia(m) ==
  /\ token[m] # None /\ page[m] = None /\ fetch[m] = None
  /\ fetch' = [fetch EXCEPT ![m] = token[m]]
  /\ UNCHANGED <<rows, oauth, callback, refresher, page, passed, contested, raced, outdated>>

\* A cache key without the merchant.
MutantKeepPage(m) ==
  /\ fetch[m] # None
  /\ page' = [n \in Merchants |-> fetch[m]]
  /\ fetch' = [fetch EXCEPT ![m] = None]
  /\ UNCHANGED <<rows, oauth, callback, refresher, passed, contested, raced, outdated>>

KeepPage(m) ==
  /\ fetch[m] # None
  /\ page' = [page EXCEPT ![m] = fetch[m]]
  /\ fetch' = [fetch EXCEPT ![m] = None]
  /\ UNCHANGED <<rows, oauth, callback, refresher, passed, contested, raced, outdated>>

FailFetch(m) ==
  /\ fetch[m] # None
  /\ fetch' = [fetch EXCEPT ![m] = None]
  /\ outdated' = IF page[m] = None THEN outdated \ {m} ELSE outdated
  /\ UNCHANGED <<rows, oauth, callback, refresher, page, passed, contested, raced>>

ExpirePage(m) ==
  /\ page[m] # None
  /\ page' = [page EXCEPT ![m] = None]
  /\ outdated' = IF fetch[m] = None THEN outdated \ {m} ELSE outdated
  /\ UNCHANGED <<rows, oauth, callback, refresher, fetch, passed, contested, raced>>

Connecting(requests) ==
  \/ \E s \in States : ExpireState(s) \/ \E m \in Merchants : StartConnect(m, s)
  \/ \E k \in requests :
       \/ \E s \in States : ReadState(k, s)
       \/ DropState(k) \/ Connect(k) \/ FailCallback(k)
       \/ \E acc \in IgAccounts : Exchange(k, acc)

Refresher ==
  \/ StartRefresher \/ StoreRefresh \/ FailRefresh
  \/ \E m \in Merchants : Age(m) \/ BeginRefresh(m)

Picking == \E m \in Merchants : KeepPage(m) \/ FailFetch(m) \/ ExpirePage(m)

-----------------------------------------------------------------------------
(* Properties.                                                              *)

ConnectTypeOK ==
  /\ user \in [Merchants -> IgAccounts \cup {None}]
  /\ token \in [Merchants -> IgAccounts \cup {None}]
  /\ due \subseteq {m \in Merchants : token[m] # None}
  /\ oauth \in [States -> Merchants \cup {None}]
  /\ callback \in [Callbacks -> [step : {"idle", "read", "exchange", "store"},
       state : States \cup {None}, m : Merchants \cup {None},
       old : IgAccounts \cup {None}, acc : IgAccounts \cup {None}]]
  /\ refresher \in [left : SUBSET Merchants, loaded : [Merchants -> IgAccounts \cup {None}],
       m : Merchants \cup {None}, token : IgAccounts \cup {None}]
  /\ page \in [Merchants -> IgAccounts \cup {None}]
  /\ fetch \in [Merchants -> IgAccounts \cup {None}]

\* An OAuth state lets one callback pass, unless two had read it at once
\* (oauth_callback's GET and DELETE).
StateUsedOnce == \A s \in States \ contested : passed[s] <= 1

\* A merchant's token is for the account its webhooks are routed by, unless its
\* last connect overlapped a refresh of the old one, or another connect; the next that
\* does not puts it right (oauth_callback, main).
TokenOfAccount == \A m \in Merchants \ raced : token[m] = user[m]

\* No two merchants have one Instagram account, even when both connect it at once
\* (already_connected, and the unique instagram_user_id).
OneMerchantPerAccount ==
  \A m, n \in Merchants : m # n /\ user[m] # None => user[m] # user[n]

\* The media picker shows the posts of the account the merchant's token is for,
\* unless it reconnected since the page was asked for (the key ig_media:<merchant>).
PageOfAccount ==
  \A m \in Merchants \ (outdated \cup raced) : page[m] # None => page[m] = token[m]
=============================================================================
