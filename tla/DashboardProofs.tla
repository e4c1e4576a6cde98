---------------------------- MODULE DashboardProofs ----------------------------
(***************************************************************************)
(* Machine-checked proofs about sign-up, verification codes, login and     *)
(* sessions as a part of Dashboard, for any number of merchants, visits    *)
(* and codes, and, with the typing of the three other parts, the type      *)
(* invariant of the whole website.                                         *)
(***************************************************************************)
EXTENDS ConnectProofs, AgentsProofs, AutomationsProofs, SequenceTheorems

\* What a step of the website does to the accounts.
AccountsStep == AccountsNext \/ \E t \in Tokens : Logout(t)

\* Of a step of the website, accounts see one of their own or nothing.
LEMMA StepOfAccounts ==
  ASSUME [Next]_vars
  PROVE  AccountsStep \/ UNCHANGED accountVars
BY DEF Next, vars, AccountsStep

-----------------------------------------------------------------------------

CodeRecords ==
  [attempts : Nat, age : 0..CODE_TTL, used : BOOLEAN, mailed : BOOLEAN,
   tries : Nat, opened : Nat, contested : BOOLEAN]

AccountRows == [password : Passwords \cup {None}, verified : BOOLEAN]

VisitRecords ==
  [kind : {"idle", "signup", "verify", "login"},
   step : {"idle", "hash", "issue", "insert", "compare", "session"},
   e : Merchants \cup {None}, password : Passwords \cup {None}, fresh : BOOLEAN,
   code : Nat, seen : Nat, right : BOOLEAN, overtaken : BOOLEAN]

\* What a visit's step says of the rest of it.
ProperVisit(rec) ==
  /\ rec.step # "idle" => rec.e \in Merchants
  /\ rec.step \in {"hash", "issue", "insert"} => rec.kind = "signup"
  /\ rec.step = "compare" => rec.kind = "verify"
  /\ IF rec.kind = "verify" THEN rec.e \in Merchants /\ rec.code # 0 ELSE rec.code = 0

CodesTyped == codes \in [Merchants -> Seq(CodeRecords)]

VisitsTyped ==
  /\ account \in [Merchants -> AccountRows]
  /\ visit \in [Visits -> VisitRecords]
  /\ \A v \in Visits : ProperVisit(visit[v])

\* A visit that is not under way is of its type and holds nothing.
LEMMA NoVisitTyped == NoVisit \in VisitRecords /\ ProperVisit(NoVisit)
BY DEF NoVisit, VisitRecords, ProperVisit

\* A visit that closes, and a step that changes one visit.
LEMMA OneVisit ==
  ASSUME VisitsTyped, NEW v \in Visits, NEW rec \in VisitRecords, ProperVisit(rec),
         visit' = [visit EXCEPT ![v] = rec], account' \in [Merchants -> AccountRows]
  PROVE  VisitsTyped'
BY DEF VisitsTyped

\* The records of the visits that begin, and of a sign-up whose details are stored.
LEMMA SignUpRecord ==
  ASSUME NEW v \in Visits, NEW e \in Applicants, NEW pw \in Passwords, SignUp(v, e, pw)
  PROVE  \E rec \in VisitRecords :
           /\ visit' = [visit EXCEPT ![v] = rec] /\ visit[v] = NoVisit
           /\ rec.kind = "signup" /\ rec.step = "hash" /\ rec.e = e /\ rec.code = 0
<1>1. PICK fresh \in BOOLEAN : fresh = (account[e] = NoAccount)
  OBVIOUS
<1>2. PICK rec : rec = [NoVisit EXCEPT !.kind = "signup", !.step = "hash", !.e = e,
                                       !.password = pw, !.fresh = fresh]
  OBVIOUS
<1>3. rec \in VisitRecords /\ rec.kind = "signup" /\ rec.step = "hash" /\ rec.e = e /\ rec.code = 0
  BY <1>2, AccountsAssumption DEF NoVisit, VisitRecords
<1>4. visit' = [visit EXCEPT ![v] = rec] /\ visit[v] = NoVisit
  BY <1>1, <1>2 DEF SignUp, Open
<1> QED
  BY <1>3, <1>4

\* What a log-in holds when its password was right.
LEMMA LoginRecord ==
  ASSUME NEW v \in Visits, NEW e \in Applicants, NEW pw \in Passwords, Login(v, e, pw)
  PROVE  \E rec \in VisitRecords :
           /\ visit' = [visit EXCEPT ![v] = rec] /\ visit[v] = NoVisit
           /\ rec.kind = "login" /\ rec.step = "session" /\ rec.e = e /\ rec.code = 0
<1>1. PICK rec : rec = [NoVisit EXCEPT !.kind = "login", !.step = "session", !.e = e]
  OBVIOUS
<1>2. rec \in VisitRecords /\ rec.kind = "login" /\ rec.step = "session" /\ rec.e = e /\ rec.code = 0
  BY <1>1, AccountsAssumption DEF NoVisit, VisitRecords
<1>3. visit' = [visit EXCEPT ![v] = rec] /\ visit[v] = NoVisit
  BY <1>1 DEF Login, Open
<1> QED
  BY <1>2, <1>3

\* What a verification holds once it has read the code.
LEMMA TryRecord ==
  ASSUME NEW v \in Visits, NEW e \in Applicants, NEW right \in BOOLEAN, CodesTyped,
         TryCode(v, e, right)
  PROVE  \E rec \in VisitRecords :
           /\ visit' = [visit EXCEPT ![v] = rec] /\ visit[v] = NoVisit
           /\ rec.kind = "verify" /\ rec.step = "compare" /\ rec.e = e
           /\ rec.code = Len(codes[e]) /\ rec.code # 0 /\ rec.seen = Latest(e).attempts
<1>1. /\ e \in Merchants /\ Len(codes[e]) \in Nat \ {0} /\ Latest(e) \in CodeRecords
  BY AccountsAssumption DEF TryCode, CodesTyped, Latest
<1>2. Latest(e).attempts \in Nat
  BY <1>1 DEF CodeRecords
<1>3. PICK rec : rec = [NoVisit EXCEPT !.kind = "verify", !.step = "compare", !.e = e,
                          !.code = Len(codes[e]), !.seen = Latest(e).attempts, !.right = right]
  OBVIOUS
<1>4. /\ rec \in VisitRecords /\ rec.kind = "verify" /\ rec.step = "compare" /\ rec.e = e
      /\ rec.code = Len(codes[e]) /\ rec.seen = Latest(e).attempts
  BY <1>1, <1>2, <1>3 DEF NoVisit, VisitRecords
<1>5. visit' = [visit EXCEPT ![v] = rec] /\ visit[v] = NoVisit
  BY <1>3 DEF TryCode, Open
<1> QED
  BY <1>1, <1>4, <1>5

\* What a sign-up holds once its account is stored.
LEMMA StoredRecord ==
  ASSUME NEW v \in Visits, StoreSignUp(v), visit[v].e \in Merchants
  PROVE  \E rec \in VisitRecords :
           /\ visit' = [visit EXCEPT ![v] = rec]
           /\ rec.kind = "signup" /\ rec.step = "issue" /\ rec.e = visit[v].e /\ rec.code = 0
<1>1. PICK e \in Merchants : e = visit[v].e
  OBVIOUS
<1>2. PICK rec : rec = [NoVisit EXCEPT !.kind = "signup", !.step = "issue", !.e = e]
  OBVIOUS
<1>3. rec \in VisitRecords /\ rec.kind = "signup" /\ rec.step = "issue" /\ rec.e = e /\ rec.code = 0
  BY <1>2 DEF NoVisit, VisitRecords
<1>4. visit' = [visit EXCEPT ![v] = rec]
  BY <1>1, <1>2 DEF StoreSignUp
<1> QED
  BY <1>1, <1>3, <1>4

\* What a visit holds when its code was the right one.
LEMMA VerifyRecord ==
  ASSUME visit \in [Visits -> VisitRecords], NEW v \in Visits, Verify(v)
  PROVE  /\ visit'[v] \in VisitRecords /\ visit'[v].step = "session"
         /\ visit'[v].kind = visit[v].kind /\ visit'[v].e = visit[v].e
         /\ visit'[v].code = visit[v].code
<1> DEFINE Kept(rec) == /\ rec \in VisitRecords /\ rec.step = "session"
                        /\ rec.kind = visit[v].kind /\ rec.e = visit[v].e
                        /\ rec.code = visit[v].code
           one == [visit[v] EXCEPT !.step = "session"]
           two == [one EXCEPT !.seen = 0]
           three == [two EXCEPT !.right = FALSE]
<1>1. visit'[v] = three
  BY DEF Verify
<1>2. Kept(one)
  BY DEF VisitRecords
<1> HIDE DEF one
<1>3. Kept(two)
  BY <1>2 DEF VisitRecords
<1> HIDE DEF two
<1>4. Kept(three)
  BY <1>3 DEF VisitRecords
<1> QED
  BY <1>1, <1>4

\* The website starts with no visit and with typed accounts.
LEMMA VisitsTypedInit == Init => VisitsTyped
<1> SUFFICES ASSUME Init PROVE VisitsTyped
  OBVIOUS
<1>1. account \in [Merchants -> AccountRows]
  <2>1. NoAccount \in AccountRows
    BY DEF NoAccount, AccountRows
  <2>2. [password |-> CHOOSE p \in Passwords : TRUE, verified |-> TRUE] \in AccountRows
    <3>1. (CHOOSE p \in Passwords : TRUE) \in Passwords
      BY DashboardAssumption
    <3> QED
      BY <3>1 DEF AccountRows
  <2> QED
    BY <2>1, <2>2 DEF Init, AccountsInit, LoggedIn
<1>2. visit = [v \in Visits |-> NoVisit]
  BY DEF Init, AccountsInit, LoggedIn
<1> QED
  BY <1>1, <1>2, NoVisitTyped DEF VisitsTyped

\* Every step of the accounts keeps the types of accounts and visits.
LEMMA VisitsTypedStep ==
  ASSUME VisitsTyped, CodesTyped, AccountsStep \/ UNCHANGED accountVars
  PROVE  VisitsTyped'
<1> USE AccountsAssumption
<1>0. /\ account \in [Merchants -> AccountRows] /\ visit \in [Visits -> VisitRecords]
      /\ \A v \in Visits : ProperVisit(visit[v])
  BY DEF VisitsTyped
<1>1. CASE UNCHANGED accountVars
  BY <1>1 DEF accountVars, VisitsTyped
<1>2. CASE TickCodes \/ \E t \in Tokens : Logout(t)
  BY <1>2 DEF TickCodes, Logout, VisitsTyped
<1>3. ASSUME NEW v \in Visits, Close(v), UNCHANGED account PROVE VisitsTyped'
  BY <1>0, <1>3, NoVisitTyped, OneVisit DEF Close
<1>4. ASSUME NEW v \in Visits, NEW e \in Applicants, NEW pw \in Passwords, SignUp(v, e, pw)
      PROVE  VisitsTyped'
  <2>1. e \in Merchants /\ UNCHANGED account
    BY <1>4 DEF SignUp
  <2>2. PICK rec \in VisitRecords : 
          /\ visit' = [visit EXCEPT ![v] = rec]
          /\ rec.kind = "signup" /\ rec.step = "hash" /\ rec.e = e /\ rec.code = 0
    BY <1>4, SignUpRecord
  <2> QED
    BY <1>0, <2>1, <2>2, OneVisit DEF ProperVisit
<1>5. ASSUME NEW v \in Visits, NEW e \in Applicants, NEW pw \in Passwords, Login(v, e, pw)
      PROVE  VisitsTyped'
  <2>1. e \in Merchants /\ UNCHANGED account
    BY <1>5 DEF Login
  <2>2. PICK rec \in VisitRecords : 
          /\ visit' = [visit EXCEPT ![v] = rec]
          /\ rec.kind = "login" /\ rec.step = "session" /\ rec.e = e /\ rec.code = 0
    BY <1>5, LoginRecord
  <2> QED
    BY <1>0, <2>1, <2>2, OneVisit DEF ProperVisit
<1>6. ASSUME NEW v \in Visits, NEW e \in Applicants, NEW right \in BOOLEAN, TryCode(v, e, right)
      PROVE  VisitsTyped'
  <2>1. e \in Merchants /\ UNCHANGED account
    BY <1>6 DEF TryCode
  <2>2. PICK rec \in VisitRecords : 
          /\ visit' = [visit EXCEPT ![v] = rec]
          /\ rec.kind = "verify" /\ rec.step = "compare" /\ rec.e = e /\ rec.code # 0
    BY <1>6, TryRecord
  <2> QED
    BY <1>0, <2>1, <2>2, OneVisit DEF ProperVisit
<1>7. ASSUME NEW v \in Visits, StoreSignUp(v) PROVE VisitsTyped'
  <2>1. /\ visit[v].step = "hash" /\ account' = [account EXCEPT ![visit[v].e].password = visit[v].password]
    BY <1>7 DEF StoreSignUp
  <2>2. visit[v].e \in Merchants /\ visit[v].password \in Passwords \cup {None}
    BY <1>0, <2>1 DEF ProperVisit, VisitRecords
  <2>3. account' \in [Merchants -> AccountRows]
    BY <1>0, <2>1, <2>2 DEF AccountRows
  <2> QED
    BY <1>7, <2>2, <2>3, StoredRecord, OneVisit DEF ProperVisit
<1>8. ASSUME NEW v \in Visits, IssueCode(v), ~ Close(v) PROVE VisitsTyped'
  <2> DEFINE rec == [visit[v] EXCEPT !.step = "insert"]
  <2>1. visit' = [visit EXCEPT ![v] = rec] /\ visit[v].step = "issue" /\ UNCHANGED account
    BY <1>8 DEF IssueCode
  <2>2. rec \in VisitRecords
    BY <1>0 DEF VisitRecords
  <2>3. /\ rec.step = "insert" /\ rec.e = visit[v].e /\ rec.kind = visit[v].kind
        /\ rec.code = visit[v].code
    BY <1>0 DEF VisitRecords
  <2> HIDE DEF rec
  <2>4. ProperVisit(rec)
    BY <1>0, <2>1, <2>3 DEF ProperVisit
  <2> QED
    BY <1>0, <2>1, <2>2, <2>4, OneVisit
<1>9. ASSUME NEW v \in Visits, StoreTry(v), ~ Close(v) PROVE VisitsTyped'
  <2>1. visit[v].step = "compare" /\ Verify(v)
    BY <1>9 DEF StoreTry
  <2>2. account' \in [Merchants -> AccountRows]
    BY <1>0, <2>1 DEF Verify, AccountRows
  <2>3. ASSUME NEW o \in Visits PROVE visit'[o] \in VisitRecords /\ ProperVisit(visit'[o])
    <3>1. CASE o = v
      BY <1>0, <2>1, <3>1, VerifyRecord DEF ProperVisit
    <3>2. CASE o # v
      <4>1. PICK over \in BOOLEAN : visit'[o] = [visit[o] EXCEPT !.overtaken = over]
        BY <1>0, <2>1, <3>2 DEF Verify, VisitRecords
      <4>2. /\ visit'[o] \in VisitRecords /\ visit'[o].step = visit[o].step
            /\ visit'[o].e = visit[o].e /\ visit'[o].kind = visit[o].kind
            /\ visit'[o].code = visit[o].code
        BY <1>0, <4>1 DEF VisitRecords
      <4> QED
        BY <1>0, <4>2 DEF ProperVisit
    <3> QED
      BY <3>1, <3>2
  <2>4. visit' = [o \in Visits |-> visit'[o]]
    BY <2>1 DEF Verify
  <2> QED
    BY <2>2, <2>3, <2>4 DEF VisitsTyped
<1>10. ASSUME NEW v \in Visits,
              FailVisit(v) \/ OpenSession(v) \/ \E mailed \in BOOLEAN : InsertCode(v, mailed)
       PROVE  Close(v) /\ UNCHANGED account
  BY <1>10 DEF FailVisit, OpenSession, InsertCode
<1>11. ASSUME NEW v \in Visits, IssueCode(v) \/ StoreTry(v), Close(v) PROVE VisitsTyped'
  <2>1. visit'[v] = NoVisit
    BY <1>0, <1>11 DEF Close
  <2>2. UNCHANGED account
    <3>1. ~ Verify(v)
      BY <1>0, <2>1, VerifyRecord DEF NoVisit
    <3> QED
      BY <1>11, <3>1 DEF IssueCode, StoreTry
  <2> QED
    BY <1>3, <1>11, <2>2
<1> QED
  BY <1>1, <1>2, <1>3, <1>4, <1>5, <1>6, <1>7, <1>8, <1>9, <1>10, <1>11
     DEF AccountsStep, AccountsNext

-----------------------------------------------------------------------------
(* The codes: their types, and a step that changes one of them.             *)

\* A step that writes one code leaves the others, and how many there are.
LEMMA OneCode ==
  ASSUME CodesTyped, NEW e \in Merchants, NEW k \in 1..Len(codes[e]), NEW c \in CodeRecords,
         codes' = [codes EXCEPT ![e] = [codes[e] EXCEPT ![k] = c]]
  PROVE  /\ CodesTyped'
         /\ \A m \in Merchants :
              /\ Len(codes'[m]) = Len(codes[m])
              /\ \A j \in 1..Len(codes[m]) : codes'[m][j] = IF m = e /\ j = k THEN c ELSE codes[m][j]
<1>1. codes[e] \in Seq(CodeRecords)
  BY DEF CodesTyped
<1>2. PICK s : s = [codes[e] EXCEPT ![k] = c]
  OBVIOUS
<1>3. /\ s \in Seq(CodeRecords) /\ Len(s) = Len(codes[e])
      /\ \A j \in 1..Len(codes[e]) : s[j] = IF j = k THEN c ELSE codes[e][j]
  BY <1>1, <1>2
<1>4. codes' = [codes EXCEPT ![e] = s]
  BY <1>2
<1>5. codes' \in [Merchants -> Seq(CodeRecords)]
  BY <1>3, <1>4 DEF CodesTyped
<1> QED
  BY <1>3, <1>4, <1>5 DEF CodesTyped

\* A code that differs in a count or a mark.
LEMMA CodeFields ==
  ASSUME NEW c \in CodeRecords, NEW n \in Nat
  PROVE  /\ [c EXCEPT !.contested = TRUE] \in CodeRecords
         /\ [c EXCEPT !.used = TRUE] \in CodeRecords
         /\ [c EXCEPT !.opened = n] \in CodeRecords
BY DEF CodeRecords

\* What a wrong attempt does to a code: one more is counted, and nothing else.
LEMMA WrongCode ==
  ASSUME NEW c \in CodeRecords, NEW n \in Nat
  PROVE  /\ Wrong(c, n) \in CodeRecords
         /\ Wrong(c, n).attempts = n + 1
         /\ Wrong(c, n).tries = IF c.contested THEN c.tries ELSE c.tries + 1
         /\ Wrong(c, n).used = c.used /\ Wrong(c, n).opened = c.opened
         /\ Wrong(c, n).contested = c.contested
<1>1. PICK t \in Nat : t = IF c.contested THEN c.tries ELSE c.tries + 1
  BY DEF CodeRecords
<1>2. PICK one : one = [c EXCEPT !.attempts = n + 1]
  OBVIOUS
<1>3. /\ one \in CodeRecords /\ one.attempts = n + 1 /\ one.tries = c.tries /\ one.used = c.used
      /\ one.opened = c.opened /\ one.contested = c.contested
  BY <1>2 DEF CodeRecords
<1>4. Wrong(c, n) = [one EXCEPT !.tries = t]
  BY <1>1, <1>2, <1>3 DEF Wrong
<1> QED
  BY <1>1, <1>3, <1>4 DEF CodeRecords

-----------------------------------------------------------------------------
(* The password of a verified account.                                      *)

\* A sign-up under way for an account that is verified knows it was overtaken.
Overtaken ==
  \A v \in Visits :
    visit[v].step = "hash" /\ account[visit[v].e].verified => visit[v].overtaken

\* A step that changes one visit and verifies no account.
LEMMA OvertakenByOne ==
  ASSUME VisitsTyped, VisitsTyped', Overtaken, NEW v \in Visits, NEW rec \in VisitRecords,
         visit' = [visit EXCEPT ![v] = rec], rec.step = "hash" => ~ account[rec.e].verified,
         \A e \in Merchants : account'[e].verified = account[e].verified
  PROVE  Overtaken'
<1> SUFFICES ASSUME NEW o \in Visits, visit'[o].step = "hash", account'[visit'[o].e].verified
             PROVE  visit'[o].overtaken
  BY DEF Overtaken
<1>1. visit'[o].e \in Merchants
  BY DEF VisitsTyped, ProperVisit
<1>2. account[visit'[o].e].verified
  BY <1>1
<1>3. o # v /\ visit'[o] = visit[o]
  BY <1>2 DEF VisitsTyped
<1> QED
  BY <1>2, <1>3 DEF Overtaken

\* Every step keeps it: a verification marks every sign-up that is between its check
\* and its commit.
LEMMA OvertakenStep ==
  ASSUME VisitsTyped, VisitsTyped', CodesTyped, Overtaken, AccountsStep \/ UNCHANGED accountVars
  PROVE  Overtaken'
<1> USE AccountsAssumption
<1>0. /\ account \in [Merchants -> AccountRows] /\ visit \in [Visits -> VisitRecords]
      /\ \A v \in Visits : ProperVisit(visit[v])
  BY DEF VisitsTyped
<1>1. CASE UNCHANGED accountVars \/ TickCodes \/ \E t \in Tokens : Logout(t)
  BY <1>1 DEF accountVars, TickCodes, Logout, Overtaken
<1>2. ASSUME NEW v \in Visits, Close(v), UNCHANGED account PROVE Overtaken'
  <2>1. NoVisit \in VisitRecords /\ NoVisit.step # "hash"
    BY NoVisitTyped DEF NoVisit
  <2> QED
    BY <1>2, <2>1, OvertakenByOne DEF Close
<1>3. ASSUME NEW v \in Visits, NEW e \in Applicants, NEW pw \in Passwords, SignUp(v, e, pw)
      PROVE  Overtaken'
  <2>1. ~ account[e].verified /\ UNCHANGED account
    BY <1>3 DEF SignUp
  <2>2. PICK rec \in VisitRecords : visit' = [visit EXCEPT ![v] = rec] /\ rec.e = e
    BY <1>3, SignUpRecord
  <2> QED
    BY <2>1, <2>2, OvertakenByOne
<1>4. ASSUME NEW v \in Visits, NEW e \in Applicants,
             (\E pw \in Passwords : Login(v, e, pw)) \/ (\E right \in BOOLEAN : TryCode(v, e, right))
      PROVE  Overtaken'
  <2>1. UNCHANGED account
    BY <1>4 DEF Login, TryCode
  <2>2. PICK rec \in VisitRecords : visit' = [visit EXCEPT ![v] = rec] /\ rec.step # "hash"
    BY <1>4, LoginRecord, TryRecord
  <2> QED
    BY <2>1, <2>2, OvertakenByOne
<1>5. ASSUME NEW v \in Visits, StoreSignUp(v) PROVE Overtaken'
  <2>1. visit[v].e \in Merchants /\ account' = [account EXCEPT ![visit[v].e].password = visit[v].password]
    BY <1>0, <1>5 DEF StoreSignUp, ProperVisit
  <2>2. \A e \in Merchants : account'[e].verified = account[e].verified
    BY <1>0, <2>1 DEF AccountRows
  <2>3. PICK rec \in VisitRecords : visit' = [visit EXCEPT ![v] = rec] /\ rec.step # "hash"
    BY <1>5, <2>1, StoredRecord
  <2> QED
    BY <2>2, <2>3, OvertakenByOne
<1>6. ASSUME NEW v \in Visits, IssueCode(v), ~ Close(v) PROVE Overtaken'
  <2>1. PICK rec : rec = [visit[v] EXCEPT !.step = "insert"]
    OBVIOUS
  <2>2. visit' = [visit EXCEPT ![v] = rec] /\ UNCHANGED account
    BY <1>6, <2>1 DEF IssueCode
  <2>3. rec \in VisitRecords /\ rec.step = "insert"
    BY <1>0, <2>1 DEF VisitRecords
  <2> QED
    BY <2>2, <2>3, OvertakenByOne
<1>7. ASSUME NEW v \in Visits, StoreTry(v), ~ Close(v) PROVE Overtaken'
  <2>1. Verify(v)
    BY <1>7 DEF StoreTry
  <2> SUFFICES ASSUME NEW o \in Visits, visit'[o].step = "hash", account'[visit'[o].e].verified
               PROVE  visit'[o].overtaken
    BY DEF Overtaken
  <2>2. o # v
    BY <1>0, <2>1, VerifyRecord
  <2>3. PICK over \in BOOLEAN :
          /\ visit'[o] = [visit[o] EXCEPT !.overtaken = over]
          /\ over = (visit[o].overtaken \/ (visit[o].step = "hash" /\ visit[o].e = visit[v].e))
    BY <1>0, <2>1, <2>2 DEF Verify, VisitRecords
  <2>4. /\ visit'[o].overtaken = over /\ visit'[o].e = visit[o].e
        /\ visit'[o].step = visit[o].step
    BY <1>0, <2>3 DEF VisitRecords
  <2>5. visit[o].e \in Merchants /\ (visit[o].e # visit[v].e => account[visit[o].e].verified)
    BY <1>0, <2>1, <2>4 DEF Verify, ProperVisit
  <2> QED
    BY <2>3, <2>4, <2>5 DEF Overtaken
<1>8. ASSUME NEW v \in Visits,
             FailVisit(v) \/ OpenSession(v) \/ \E mailed \in BOOLEAN : InsertCode(v, mailed)
      PROVE  Close(v) /\ UNCHANGED account
  BY <1>8 DEF FailVisit, OpenSession, InsertCode
<1>9. ASSUME NEW v \in Visits, IssueCode(v) \/ StoreTry(v), Close(v) PROVE UNCHANGED account
  <2>1. ~ Verify(v)
    BY <1>0, <1>9, VerifyRecord DEF Close, NoVisit
  <2> QED
    BY <1>9, <2>1 DEF IssueCode, StoreTry
<1> QED
  BY <1>1, <1>2, <1>3, <1>4, <1>5, <1>6, <1>7, <1>8, <1>9 DEF AccountsStep, AccountsNext

-----------------------------------------------------------------------------
(* What becomes of a code while no two visits have it at once.              *)

\* The visits that have a code, and the code, as far as they have come.
Uncontested(e, k) ==
  LET c == codes[e][k] IN
    /\ c.tries = c.attempts /\ c.tries <= MAX_VERIFY_ATTEMPTS /\ c.opened <= 1
    /\ c.opened > 0 => c.used /\ Trying(e, k) = {}
    /\ \A v \in Trying(e, k) :
         /\ Trying(e, k) = {v}
         /\ visit[v].step = "compare" =>
              visit[v].seen = c.attempts /\ c.attempts < MAX_VERIFY_ATTEMPTS /\ ~c.used
         /\ visit[v].step = "session" => c.used /\ c.opened = 0

CodesInv ==
  \A e \in Merchants : \A k \in 1..Len(codes[e]) :
    ~codes[e][k].contested => Uncontested(e, k)

\* A visit has a code that exists.
CodesExist ==
  \A v \in Visits : visit[v].kind = "verify" => visit[v].code \in 1..Len(codes[visit[v].e])

AccountsInv == VisitsTyped /\ CodesTyped /\ CodesExist /\ Overtaken /\ CodesInv

\* No code, no visit at the start.
LEMMA InvInit == Init => AccountsInv
<1> SUFFICES ASSUME Init PROVE AccountsInv
  OBVIOUS
<1>1. codes = [e \in Merchants |-> <<>>] /\ visit = [v \in Visits |-> NoVisit]
  BY DEF Init, AccountsInit, LoggedIn
<1>2. VisitsTyped
  BY VisitsTypedInit
<1>3. CodesTyped /\ CodesInv
  BY <1>1 DEF CodesTyped, CodesInv
<1>4. Overtaken /\ CodesExist
  BY <1>1 DEF Overtaken, CodesExist, NoVisit
<1> QED
  BY <1>2, <1>3, <1>4 DEF AccountsInv

\* A code no visit of which goes on keeps what is said of it: its age may change, and
\* visits may leave it.
LEMMA CodeLeftAlone ==
  ASSUME NEW e \in Merchants, NEW k \in Nat, Uncontested(e, k), Trying(e, k)' \subseteq Trying(e, k),
         codes'[e][k].attempts = codes[e][k].attempts, codes'[e][k].tries = codes[e][k].tries,
         codes'[e][k].used = codes[e][k].used, codes'[e][k].opened = codes[e][k].opened,
         \A v \in Trying(e, k)' : visit'[v].step = visit[v].step /\ visit'[v].seen = visit[v].seen
  PROVE  Uncontested(e, k)'
<1>1. ASSUME NEW v \in Trying(e, k)' PROVE Trying(e, k)' = {v}
  BY <1>1 DEF Uncontested
<1> QED
  BY <1>1 DEF Uncontested

\* A step that changes one visit, which is at no code afterwards, and no code but age.
LEMMA VisitElsewhere ==
  ASSUME AccountsInv, NEW v \in Visits, NEW rec \in VisitRecords, rec.kind # "verify",
         visit' = [visit EXCEPT ![v] = rec],
         NEW e \in Merchants, NEW k \in 1..Len(codes[e]), codes'[e][k] = codes[e][k],
         ~codes[e][k].contested
  PROVE  Uncontested(e, k)'
<1>1. visit'[v] = rec /\ \A o \in Visits \ {v} : visit'[o] = visit[o]
  BY DEF AccountsInv, VisitsTyped
<1>2. \A o \in Trying(e, k)' : o \in Trying(e, k) /\ visit'[o] = visit[o]
  BY <1>1 DEF Trying
<1>3. Uncontested(e, k) /\ k \in Nat
  BY DEF AccountsInv, CodesInv, CodesTyped
<1> QED
  BY <1>2, <1>3, CodeLeftAlone

\* The same for all codes, and for the visits.
LEMMA VisitLeaves ==
  ASSUME AccountsInv, NEW v \in Visits, NEW rec \in VisitRecords, rec.kind # "verify",
         visit' = [visit EXCEPT ![v] = rec], UNCHANGED codes
  PROVE  CodesTyped' /\ CodesExist' /\ CodesInv'
<1>1. CodesTyped' /\ CodesExist'
  BY DEF AccountsInv, VisitsTyped, CodesTyped, CodesExist
<1>2. CodesInv'
  BY VisitElsewhere DEF CodesInv
<1> QED
  BY <1>1, <1>2

\* Time passes: only ages change.
LEMMA TickCodesInv ==
  ASSUME AccountsInv, TickCodes
  PROVE  CodesTyped' /\ CodesExist' /\ CodesInv'
<1>1. UNCHANGED visit
  BY DEF TickCodes
<1>2. ASSUME NEW e \in Merchants
      PROVE  /\ codes'[e] \in Seq(CodeRecords) /\ Len(codes'[e]) = Len(codes[e])
             /\ \A k \in 1..Len(codes[e]) :
                  LET c == codes[e][k]
                      d == codes'[e][k]
                  IN /\ d.attempts = c.attempts /\ d.tries = c.tries /\ d.used = c.used
                     /\ d.opened = c.opened /\ d.contested = c.contested
  <2>1. codes[e] \in Seq(CodeRecords) /\ Len(codes[e]) \in Nat
    BY DEF AccountsInv, CodesTyped
  <2>2. CASE codes'[e] = codes[e]
    BY <2>1, <2>2
  <2>3. CASE codes'[e] # codes[e]
    <3> DEFINE k == Len(codes[e])
    <3>1. codes'[e] = [codes[e] EXCEPT ![k].age = @ + 1] /\ codes[e] # <<>>
      BY <2>3 DEF TickCodes
    <3>2. k \in 1..Len(codes[e]) /\ codes[e][k] \in CodeRecords
      BY <2>1, <3>1
    <3>3. PICK n \in 0..CODE_TTL : n = codes[e][k].age + 1
      <4>1. codes[e][k].age # CODE_TTL
        BY <2>3 DEF TickCodes, Latest
      <4> QED
        BY <3>2, <4>1, AccountsAssumption DEF CodeRecords
    <3>4. PICK d : d = [codes[e][k] EXCEPT !.age = n]
      OBVIOUS
    <3>5. /\ d \in CodeRecords
          /\ d.attempts = codes[e][k].attempts /\ d.tries = codes[e][k].tries
          /\ d.used = codes[e][k].used /\ d.opened = codes[e][k].opened
          /\ d.contested = codes[e][k].contested
      BY <3>2, <3>4 DEF CodeRecords
    <3>6. codes'[e] = [codes[e] EXCEPT ![k] = d]
      BY <3>1, <3>3, <3>4
    <3> HIDE DEF k
    <3> QED
      BY <2>1, <3>2, <3>5, <3>6
  <2> QED
    BY <2>2, <2>3
<1>3. CodesTyped'
  BY <1>2 DEF TickCodes, CodesTyped
<1>4. CodesExist'
  BY <1>1, <1>2 DEF CodesExist, AccountsInv, VisitsTyped, ProperVisit
<1>5. ASSUME NEW e \in Merchants, NEW k \in 1..Len(codes[e]), ~codes[e][k].contested
      PROVE  Uncontested(e, k)'
  <2>1. Uncontested(e, k) /\ k \in Nat
    BY <1>5 DEF AccountsInv, CodesInv, CodesTyped
  <2>2. Trying(e, k)' = Trying(e, k)
    BY <1>1 DEF Trying
  <2> QED
    BY <1>1, <1>2, <2>1, <2>2, CodeLeftAlone
<1>6. CodesInv'
  BY <1>2, <1>5 DEF CodesInv
<1> QED
  BY <1>3, <1>4, <1>6

\* A code is added: no visit has it yet.
LEMMA InsertCodeInv ==
  ASSUME AccountsInv, NEW v \in Visits, NEW mailed \in BOOLEAN, InsertCode(v, mailed)
  PROVE  CodesTyped' /\ CodesExist' /\ CodesInv'
<1>0. /\ visit \in [Visits -> VisitRecords] /\ \A o \in Visits : ProperVisit(visit[o])
      /\ codes \in [Merchants -> Seq(CodeRecords)]
  BY DEF AccountsInv, VisitsTyped, CodesTyped
<1>1. PICK e \in Merchants : e = visit[v].e
  BY <1>0 DEF InsertCode, ProperVisit
<1>2. PICK n \in Nat : n = Len(codes[e]) + 1
  BY <1>0
<1>3. /\ codes' = [codes EXCEPT ![e] = Append(@, NewCode(mailed))]
      /\ visit' = [visit EXCEPT ![v] = NoVisit]
  BY <1>1 DEF InsertCode, Close
<1>4. /\ NewCode(mailed) \in CodeRecords
      /\ NewCode(mailed).tries = 0 /\ NewCode(mailed).attempts = 0 /\ NewCode(mailed).opened = 0
  BY AccountsAssumption DEF NewCode, CodeRecords
<1>5. /\ CodesTyped'
      /\ \A m \in Merchants \ {e} : codes'[m] = codes[m]
      /\ Len(codes'[e]) = n /\ codes'[e][n] = NewCode(mailed)
      /\ \A k \in 1..Len(codes[e]) : codes'[e][k] = codes[e][k]
  BY <1>0, <1>2, <1>3, <1>4 DEF CodesTyped
<1>6. NoVisit \in VisitRecords /\ NoVisit.kind # "verify"
  BY NoVisitTyped DEF NoVisit
<1>7. CodesExist'
  BY <1>0, <1>2, <1>3, <1>5, <1>6 DEF CodesExist, AccountsInv, ProperVisit
<1>8. \A m \in Merchants : \A k \in 1..Len(codes[m]) : codes'[m][k] = codes[m][k]
  BY <1>5
<1>9. \A m \in Merchants : \A k \in 1..Len(codes[m]) :
        ~codes[m][k].contested => Uncontested(m, k)'
  BY <1>3, <1>6, <1>8, VisitElsewhere
<1>10. Uncontested(e, n)'
  <2>1. Trying(e, n)' = {}
    BY <1>0, <1>2, <1>3, <1>6 DEF Trying, CodesExist, AccountsInv
  <2> QED
    BY <1>4, <1>5, <2>1, AccountsAssumption DEF Uncontested
<1>11. CodesInv'
  <2> SUFFICES ASSUME NEW m \in Merchants, NEW k \in 1..Len(codes'[m]), ~codes'[m][k].contested
               PROVE  Uncontested(m, k)'
    BY DEF CodesInv
  <2>1. CASE m = e /\ k = n
    BY <1>10, <2>1
  <2>2. CASE m # e \/ k # n
    <3>1. k \in 1..Len(codes[m])
      BY <1>0, <1>2, <1>5, <2>2
    <3> QED
      BY <1>8, <1>9, <3>1
  <2> QED
    BY <2>1, <2>2
<1> QED
  BY <1>5, <1>7, <1>11

\* A step that changes one code: every other code is left alone.
LEMMA CodeChanges ==
  ASSUME AccountsInv, NEW e \in Merchants, NEW k \in 1..Len(codes[e]), NEW c \in CodeRecords,
         codes' = [codes EXCEPT ![e] = [codes[e] EXCEPT ![k] = c]],
         ~c.contested => Uncontested(e, k)',
         \A o \in Visits :
           visit'[o].kind = "verify" /\ (visit'[o].e # e \/ visit'[o].code # k) =>
             /\ visit[o].kind = "verify" /\ visit[o].e = visit'[o].e
             /\ visit[o].code = visit'[o].code
             /\ visit[o].step = visit'[o].step /\ visit[o].seen = visit'[o].seen,
         \A o \in Visits : visit'[o].kind = "verify" => visit'[o].e \in Merchants
  PROVE  CodesTyped' /\ CodesExist' /\ CodesInv'
<1>1. /\ CodesTyped'
      /\ \A m \in Merchants :
           /\ Len(codes'[m]) = Len(codes[m])
           /\ \A j \in 1..Len(codes[m]) : codes'[m][j] = IF m = e /\ j = k THEN c ELSE codes[m][j]
  BY OneCode DEF AccountsInv
<1>2. CodesExist'
  BY <1>1 DEF CodesExist, AccountsInv
<1>3. ASSUME NEW m \in Merchants, NEW j \in 1..Len(codes[m]), m # e \/ j # k,
             ~codes[m][j].contested
      PROVE  Uncontested(m, j)'
  <2>1. codes'[m][j] = codes[m][j]
    BY <1>1, <1>3
  <2>2. Uncontested(m, j) /\ j \in Nat
    BY <1>3 DEF AccountsInv, CodesInv, CodesTyped
  <2>3. \A o \in Trying(m, j)' :
          o \in Trying(m, j) /\ visit'[o].step = visit[o].step /\ visit'[o].seen = visit[o].seen
    BY <1>3 DEF Trying
  <2> QED
    BY <2>1, <2>2, <2>3, CodeLeftAlone
<1>4. CodesInv'
  <2> SUFFICES ASSUME NEW m \in Merchants, NEW j \in 1..Len(codes'[m]), ~codes'[m][j].contested
               PROVE  Uncontested(m, j)'
    BY DEF CodesInv
  <2>1. j \in 1..Len(codes[m])
    BY <1>1
  <2>2. CASE m = e /\ j = k
    BY <1>1, <2>1, <2>2
  <2>3. CASE m # e \/ j # k
    BY <1>1, <1>3, <2>1, <2>3
  <2> QED
    BY <2>2, <2>3
<1> QED
  BY <1>1, <1>2, <1>4

\* A visit takes the last code up.
LEMMA TryCodeInv ==
  ASSUME AccountsInv, NEW v \in Visits, NEW e \in Applicants, NEW right \in BOOLEAN, TryCode(v, e, right)
  PROVE  CodesTyped' /\ CodesExist' /\ CodesInv'
<1>0. /\ visit \in [Visits -> VisitRecords] /\ \A o \in Visits : ProperVisit(visit[o])
      /\ codes \in [Merchants -> Seq(CodeRecords)] /\ e \in Merchants /\ CodesTyped
  BY AccountsAssumption DEF AccountsInv, VisitsTyped, CodesTyped
<1>1. PICK k \in 1..Len(codes[e]) : k = Len(codes[e])
  BY <1>0 DEF TryCode
<1>2. PICK c \in CodeRecords : c = codes[e][k]
  BY <1>0, <1>1
<1>3. Latest(e) = c
  BY <1>1, <1>2 DEF Latest
<1>4. ~c.used /\ c.attempts < MAX_VERIFY_ATTEMPTS
  BY <1>3 DEF TryCode, Usable
<1>5. PICK rec \in VisitRecords :
        /\ visit' = [visit EXCEPT ![v] = rec] /\ visit[v] = NoVisit
        /\ rec.kind = "verify" /\ rec.step = "compare" /\ rec.e = e
        /\ rec.code = k /\ rec.seen = c.attempts
  BY <1>0, <1>1, <1>3, TryRecord
<1>6. /\ visit'[v] = rec /\ visit[v].kind # "verify" /\ \A o \in Visits \ {v} : visit'[o] = visit[o]
  BY <1>0, <1>5 DEF NoVisit
<1>7. PICK d \in CodeRecords :
        /\ codes' = [codes EXCEPT ![e] = [codes[e] EXCEPT ![k] = d]]
        /\ d = IF Trying(e, k) = {} THEN c ELSE [c EXCEPT !.contested = TRUE]
  <2>1. CASE Trying(e, k) = {}
    <3>1. codes' = codes
      BY <1>1, <2>1 DEF TryCode
    <3>2. codes = [codes EXCEPT ![e] = [codes[e] EXCEPT ![k] = c]]
      BY <1>0, <1>2
    <3> QED
      BY <2>1, <3>1, <3>2
  <2>2. CASE Trying(e, k) # {}
    <3>1. codes' = [codes EXCEPT ![e][k].contested = TRUE]
      BY <1>1, <2>2 DEF TryCode
    <3>2. [c EXCEPT !.contested = TRUE] \in CodeRecords
      BY DEF CodeRecords
    <3> QED
      BY <1>2, <2>2, <3>1, <3>2
  <2> QED
    BY <2>1, <2>2
<1>8. ASSUME ~d.contested PROVE Uncontested(e, k)'
  <2>1. Trying(e, k) = {} /\ d = c
    <3>1. [c EXCEPT !.contested = TRUE].contested = TRUE
      BY DEF CodeRecords
    <3> QED
      BY <1>7, <1>8, <3>1
  <2>2. Trying(e, k)' = {v}
    BY <1>5, <1>6, <2>1 DEF Trying
  <2>3. Uncontested(e, k)
    <3>1. d = codes[e][k]
      BY <1>2, <2>1
    <3>2. ~codes[e][k].contested
      BY ONLY <1>8, <3>1
    <3> QED
      BY <1>0, <3>2 DEF AccountsInv, CodesInv
  <2>4. codes'[e][k] = c
    BY <1>0, <1>7, <2>1
  <2>5. c.opened = 0
    BY <1>2, <1>4, <2>3 DEF Uncontested, CodeRecords
  <2> QED
    BY <1>2, <1>4, <1>5, <1>6, <2>2, <2>3, <2>4, <2>5 DEF Uncontested
<1>9. \A o \in Visits : visit'[o].kind = "verify" => visit'[o].e \in Merchants
  BY <1>0, <1>5, <1>6 DEF ProperVisit
<1>10. \A o \in Visits :
         visit'[o].kind = "verify" /\ (visit'[o].e # e \/ visit'[o].code # k) =>
           /\ visit[o].kind = "verify" /\ visit[o].e = visit'[o].e
           /\ visit[o].code = visit'[o].code
           /\ visit[o].step = visit'[o].step /\ visit[o].seen = visit'[o].seen
  BY <1>5, <1>6
<1> QED
  BY <1>0, <1>7, <1>8, <1>9, <1>10, CodeChanges

\* An attempt is stored: a wrong one is counted, the right one uses the code.
LEMMA StoreTryInv ==
  ASSUME AccountsInv, VisitsTyped', NEW v \in Visits, StoreTry(v)
  PROVE  CodesTyped' /\ CodesExist' /\ CodesInv'
<1>0. /\ visit \in [Visits -> VisitRecords] /\ \A o \in Visits : ProperVisit(visit[o])
      /\ codes \in [Merchants -> Seq(CodeRecords)]
      /\ visit' \in [Visits -> VisitRecords] /\ \A o \in Visits : ProperVisit(visit'[o])
  BY DEF AccountsInv, VisitsTyped, CodesTyped
<1>1. visit[v].step = "compare" /\ visit[v].kind = "verify"
  BY <1>0 DEF StoreTry, ProperVisit
<1>2. PICK e \in Merchants : e = visit[v].e
  BY <1>0, <1>1 DEF ProperVisit
<1>3. PICK k \in 1..Len(codes[e]) : k = visit[v].code
  BY <1>1, <1>2 DEF AccountsInv, CodesExist
<1>4. PICK c \in CodeRecords : c = codes[e][k]
  BY <1>0
<1>5. PICK seen \in Nat : seen = visit[v].seen
  BY <1>0 DEF VisitRecords
<1>6. v \in Trying(e, k)
  BY <1>1, <1>2, <1>3 DEF Trying
<1>7. ASSUME ~c.contested
      PROVE  /\ Uncontested(e, k) /\ Trying(e, k) = {v} /\ seen = c.attempts
             /\ c.attempts < MAX_VERIFY_ATTEMPTS /\ ~c.used /\ c.opened = 0
             /\ c.tries = c.attempts
  <2>1. ~codes[e][k].contested
    BY ONLY <1>4, <1>7
  <2>2. Uncontested(e, k)
    BY <2>1 DEF AccountsInv, CodesInv
  <2> QED
    BY <1>1, <1>4, <1>5, <1>6, <2>2 DEF Uncontested, CodeRecords
<1>8. CASE visit[v].right
  <2>1. Verify(v) /\ codes' = [codes EXCEPT ![e][k].used = TRUE]
    BY <1>2, <1>3, <1>8 DEF StoreTry
  <2>2. PICK d : d = [c EXCEPT !.used = TRUE]
    OBVIOUS
  <2>3. /\ d \in CodeRecords /\ d.used = TRUE /\ d.attempts = c.attempts /\ d.tries = c.tries
        /\ d.opened = c.opened /\ d.contested = c.contested
    BY <2>2 DEF CodeRecords
  <2>4. codes' = [codes EXCEPT ![e] = [codes[e] EXCEPT ![k] = d]]
    BY <1>4, <2>1, <2>2
  <2>5. /\ visit'[v].kind = "verify" /\ visit'[v].e = e /\ visit'[v].code = k
        /\ visit'[v].step = "session"
    BY <1>0, <1>1, <1>2, <1>3, <2>1, VerifyRecord
  <2>6. ASSUME NEW o \in Visits \ {v}
        PROVE  /\ visit'[o].kind = visit[o].kind /\ visit'[o].e = visit[o].e
               /\ visit'[o].code = visit[o].code /\ visit'[o].step = visit[o].step
               /\ visit'[o].seen = visit[o].seen
    <3>1. PICK over \in BOOLEAN : visit'[o] = [visit[o] EXCEPT !.overtaken = over]
      BY <1>0, <2>1 DEF Verify, VisitRecords
    <3> QED
      BY <1>0, <3>1 DEF VisitRecords
  <2>7. ASSUME ~d.contested PROVE Uncontested(e, k)'
    <3>1. ~c.contested
      BY ONLY <2>3, <2>7
    <3>2. Trying(e, k)' = {v}
      BY <1>7, <2>5, <2>6, <3>1 DEF Trying
    <3>3. codes'[e][k] = d
      BY <1>0, <2>4
    <3>4. /\ d.tries = d.attempts /\ d.tries <= MAX_VERIFY_ATTEMPTS /\ d.opened = 0 /\ d.used
      BY <1>7, <2>3, <3>1, AccountsAssumption DEF CodeRecords
    <3> QED
      BY <2>5, <3>2, <3>3, <3>4 DEF Uncontested
  <2>8. \A o \in Visits :
          visit'[o].kind = "verify" /\ (visit'[o].e # e \/ visit'[o].code # k) =>
            /\ visit[o].kind = "verify" /\ visit[o].e = visit'[o].e
            /\ visit[o].code = visit'[o].code
            /\ visit[o].step = visit'[o].step /\ visit[o].seen = visit'[o].seen
    BY <2>5, <2>6
  <2>9. \A o \in Visits : visit'[o].kind = "verify" => visit'[o].e \in Merchants
    BY <1>0 DEF ProperVisit
  <2> QED
    BY <2>3, <2>4, <2>7, <2>8, <2>9, CodeChanges
<1>9. CASE ~visit[v].right
  <2>1. /\ visit' = [visit EXCEPT ![v] = NoVisit]
        /\ codes' = [codes EXCEPT ![e][k] = Wrong(@, seen)]
    BY <1>2, <1>3, <1>5, <1>9 DEF StoreTry, Close
  <2>2. PICK d : d = Wrong(c, seen)
    OBVIOUS
  <2>3. /\ d \in CodeRecords /\ d.attempts = seen + 1
        /\ d.tries = IF c.contested THEN c.tries ELSE c.tries + 1
        /\ d.used = c.used /\ d.opened = c.opened /\ d.contested = c.contested
    BY <2>2, WrongCode
  <2>4. codes' = [codes EXCEPT ![e] = [codes[e] EXCEPT ![k] = d]]
    BY <1>4, <2>1, <2>2
  <2>5. /\ visit'[v].kind # "verify" /\ \A o \in Visits \ {v} : visit'[o] = visit[o]
    BY <1>0, <2>1 DEF NoVisit
  <2>6. ASSUME ~d.contested PROVE Uncontested(e, k)'
    <3>1. ~c.contested
      BY ONLY <2>3, <2>6
    <3>2. Trying(e, k)' = {}
      BY <1>7, <2>5, <3>1 DEF Trying
    <3>3. codes'[e][k] = d
      BY <1>0, <2>4
    <3>4. d.attempts = c.attempts + 1 /\ d.tries = c.attempts + 1 /\ d.opened = 0
      BY <1>7, <2>3, <3>1
    <3>5. c.attempts \in Nat /\ c.attempts < MAX_VERIFY_ATTEMPTS
      BY <1>7, <3>1 DEF CodeRecords
    <3> QED
      BY <3>2, <3>3, <3>4, <3>5, AccountsAssumption DEF Uncontested
  <2>7. \A o \in Visits :
          visit'[o].kind = "verify" /\ (visit'[o].e # e \/ visit'[o].code # k) =>
            /\ visit[o].kind = "verify" /\ visit[o].e = visit'[o].e
            /\ visit[o].code = visit'[o].code
            /\ visit[o].step = visit'[o].step /\ visit[o].seen = visit'[o].seen
    BY <2>5
  <2>8. \A o \in Visits : visit'[o].kind = "verify" => visit'[o].e \in Merchants
    BY <1>0 DEF ProperVisit
  <2> QED
    BY <2>3, <2>4, <2>6, <2>7, <2>8, CodeChanges
<1> QED
  BY <1>8, <1>9

\* A session is opened: the code it was opened with, if any, is left.
LEMMA OpenSessionInv ==
  ASSUME AccountsInv, NEW v \in Visits, OpenSession(v)
  PROVE  CodesTyped' /\ CodesExist' /\ CodesInv'
<1>0. /\ visit \in [Visits -> VisitRecords] /\ \A o \in Visits : ProperVisit(visit[o])
      /\ codes \in [Merchants -> Seq(CodeRecords)]
  BY DEF AccountsInv, VisitsTyped, CodesTyped
<1>1. visit[v].step = "session" /\ visit' = [visit EXCEPT ![v] = NoVisit]
  BY DEF OpenSession, Close
<1>2. NoVisit \in VisitRecords /\ NoVisit.kind # "verify"
  BY NoVisitTyped DEF NoVisit
<1>3. CASE visit[v].code = 0
  <2>1. UNCHANGED codes
    BY <1>3 DEF OpenSession
  <2> QED
    BY <1>1, <1>2, <2>1, VisitLeaves
<1>4. CASE visit[v].code # 0
  <2>1. visit[v].kind = "verify"
    BY <1>0, <1>4 DEF ProperVisit
  <2>2. PICK e \in Merchants : e = visit[v].e
    BY <1>0, <2>1 DEF ProperVisit
  <2>3. PICK k \in 1..Len(codes[e]) : k = visit[v].code
    BY <2>1, <2>2 DEF AccountsInv, CodesExist
  <2>4. PICK c \in CodeRecords : c = codes[e][k]
    BY <1>0
  <2>5. v \in Trying(e, k)
    BY <2>1, <2>2, <2>3 DEF Trying
  <2>6. PICK n \in Nat : n = IF c.contested THEN c.opened ELSE c.opened + 1
    BY DEF CodeRecords
  <2>7. PICK d : d = [c EXCEPT !.opened = n]
    OBVIOUS
  <2>8. /\ d \in CodeRecords /\ d.opened = n /\ d.attempts = c.attempts /\ d.tries = c.tries
        /\ d.used = c.used /\ d.contested = c.contested
    BY <2>7 DEF CodeRecords
  <2>9. codes' = [codes EXCEPT ![e] = [codes[e] EXCEPT ![k] = d]]
    <3>1. codes' = [codes EXCEPT ![e][k].opened = IF codes[e][k].contested THEN @ ELSE @ + 1]
      BY <1>4, <2>2, <2>3 DEF OpenSession
    <3> QED
      BY <2>4, <2>6, <2>7, <3>1
  <2>10. visit'[v].kind # "verify" /\ \A o \in Visits \ {v} : visit'[o] = visit[o]
    BY <1>0, <1>1, <1>2
  <2>11. ASSUME ~d.contested PROVE Uncontested(e, k)'
    <3>1. ~c.contested
      BY ONLY <2>8, <2>11
    <3>2. ~codes[e][k].contested
      BY ONLY <2>4, <3>1
    <3>3. Uncontested(e, k) /\ Trying(e, k) = {v}
      BY <2>5, <3>2 DEF AccountsInv, CodesInv, Uncontested
    <3>4. Trying(e, k)' = {}
      BY <2>10, <3>3 DEF Trying
    <3>5. codes'[e][k] = d
      BY <1>0, <2>9
    <3>6. c.used /\ c.opened = 0 /\ c.tries = c.attempts /\ c.tries <= MAX_VERIFY_ATTEMPTS
      BY <1>1, <2>4, <2>5, <3>3 DEF Uncontested
    <3>7. d.used /\ d.opened = 1 /\ d.tries = d.attempts /\ d.tries <= MAX_VERIFY_ATTEMPTS
      BY <2>6, <2>8, <3>1, <3>6
    <3> QED
      BY <3>4, <3>5, <3>7 DEF Uncontested
  <2>12. \A o \in Visits :
           visit'[o].kind = "verify" /\ (visit'[o].e # e \/ visit'[o].code # k) =>
             /\ visit[o].kind = "verify" /\ visit[o].e = visit'[o].e
             /\ visit[o].code = visit'[o].code
             /\ visit[o].step = visit'[o].step /\ visit[o].seen = visit'[o].seen
    BY <2>10
  <2>13. \A o \in Visits : visit'[o].kind = "verify" => visit'[o].e \in Merchants
    BY <1>0, <2>10 DEF ProperVisit
  <2> QED
    BY <2>8, <2>9, <2>11, <2>12, <2>13, CodeChanges
<1> QED
  BY <1>3, <1>4

-----------------------------------------------------------------------------

\* Every step of the accounts keeps their invariant.
LEMMA InvStep ==
  ASSUME AccountsInv, AccountsStep \/ UNCHANGED accountVars
  PROVE  AccountsInv'
<1>0. VisitsTyped' /\ Overtaken'
  BY VisitsTypedStep, OvertakenStep DEF AccountsInv
<1>1. ASSUME UNCHANGED <<codes, visit>> PROVE CodesTyped' /\ CodesExist' /\ CodesInv'
  <2>1. CodesInv'
    <3> SUFFICES ASSUME NEW e \in Merchants, NEW k \in 1..Len(codes[e]), ~codes[e][k].contested
                 PROVE  Uncontested(e, k)'
      BY <1>1 DEF CodesInv
    <3>1. Uncontested(e, k) /\ Trying(e, k)' = Trying(e, k)
      BY <1>1 DEF AccountsInv, CodesInv, Trying
    <3> QED
      BY <1>1, <3>1 DEF Uncontested
  <2> QED
    BY <1>1, <2>1 DEF AccountsInv, CodesTyped, CodesExist
<1>2. ASSUME NEW v \in Visits, Close(v), UNCHANGED codes
      PROVE  CodesTyped' /\ CodesExist' /\ CodesInv'
  <2>1. NoVisit \in VisitRecords /\ NoVisit.kind # "verify"
    BY NoVisitTyped DEF NoVisit
  <2> QED
    BY <1>2, <2>1, VisitLeaves DEF Close
<1>3. ASSUME NEW v \in Visits,
             (\E e \in Applicants, pw \in Passwords : SignUp(v, e, pw) \/ Login(v, e, pw)) \/ StoreSignUp(v)
      PROVE  CodesTyped' /\ CodesExist' /\ CodesInv'
  <2>1. UNCHANGED codes
    BY <1>3 DEF SignUp, Login, StoreSignUp
  <2>2. StoreSignUp(v) => visit[v].e \in Merchants
    BY DEF StoreSignUp, AccountsInv, VisitsTyped, ProperVisit
  <2>3. PICK rec \in VisitRecords : visit' = [visit EXCEPT ![v] = rec] /\ rec.kind # "verify"
    BY <1>3, <2>2, SignUpRecord, LoginRecord, StoredRecord
  <2> QED
    BY <2>1, <2>3, VisitLeaves
<1>4. ASSUME NEW v \in Visits, IssueCode(v), ~ Close(v)
      PROVE  CodesTyped' /\ CodesExist' /\ CodesInv'
  <2>1. PICK rec : rec = [visit[v] EXCEPT !.step = "insert"]
    OBVIOUS
  <2>2. visit' = [visit EXCEPT ![v] = rec] /\ visit[v].step = "issue" /\ UNCHANGED codes
    BY <1>4, <2>1 DEF IssueCode
  <2>3. rec \in VisitRecords /\ rec.kind # "verify"
    BY <2>1, <2>2 DEF AccountsInv, VisitsTyped, ProperVisit, VisitRecords
  <2> QED
    BY <2>2, <2>3, VisitLeaves
<1>5. ASSUME NEW v \in Visits, FailVisit(v) \/ (IssueCode(v) /\ Close(v))
      PROVE  CodesTyped' /\ CodesExist' /\ CodesInv'
  BY <1>2, <1>5 DEF FailVisit, IssueCode
<1>6. CodesTyped' /\ CodesExist' /\ CodesInv'
  BY <1>0, <1>1, <1>3, <1>4, <1>5, TickCodesInv, InsertCodeInv, TryCodeInv, StoreTryInv,
     OpenSessionInv
     DEF AccountsStep, AccountsNext, accountVars, Logout
<1> QED
  BY <1>0, <1>6 DEF AccountsInv

\* It holds in every reachable state.
LEMMA InvAlways == Spec => []AccountsInv
<1>1. AccountsInv /\ [Next]_vars => AccountsInv'
  BY StepOfAccounts, InvStep
<1> QED
  BY <1>1, InvInit, PTL DEF Spec

\* Wrong attempts are counted (verify_code), for any number of visits: a code no two
\* visits had at once answers at most MAX_VERIFY_ATTEMPTS of them.
THEOREM Attempts == Spec => []AttemptsCounted
<1>1. AccountsInv => AttemptsCounted
  BY DEF AccountsInv, CodesInv, Uncontested, AttemptsCounted
<1> QED
  BY <1>1, InvAlways, PTL

\* A code is good for one session (consumed_at), for any number of visits, unless two
\* of them had it at once.
THEOREM CodeOnce == Spec => []CodeSpentOnce
<1>1. AccountsInv => CodeSpentOnce
  BY DEF AccountsInv, CodesInv, Uncontested, CodeSpentOnce
<1> QED
  BY <1>1, InvAlways, PTL

\* A step that changes the password of a verified account is the last of a sign-up
\* that was overtaken.
LEMMA PasswordStep ==
  ASSUME AccountsInv, AccountsStep, NEW e \in Merchants, account[e].verified,
         \A v \in Visits : visit[v].overtaken => visit[v].e # e
  PROVE  account'[e].password = account[e].password
<1>0. account \in [Merchants -> AccountRows]
  BY DEF AccountsInv, VisitsTyped
<1>1. ASSUME NEW v \in Visits, StoreSignUp(v) PROVE account'[e].password = account[e].password
  <2>1. visit[v].e # e
    BY <1>1 DEF StoreSignUp, AccountsInv, Overtaken
  <2> QED
    BY <1>0, <1>1, <2>1 DEF StoreSignUp
<1>2. ASSUME NEW v \in Visits, StoreTry(v) PROVE account'[e].password = account[e].password
  <2>1. UNCHANGED account \/ account' = [account EXCEPT ![visit[v].e].verified = TRUE]
    BY <1>2 DEF StoreTry, Verify
  <2>2. PICK row : row = [account[e] EXCEPT !.verified = TRUE]
    OBVIOUS
  <2>3. row.password = account[e].password
    BY <1>0, <2>2 DEF AccountRows
  <2>4. account'[e] = account[e] \/ account'[e] = row
    BY <1>0, <2>1, <2>2
  <2> QED
    BY <2>3, <2>4
<1>3. CASE UNCHANGED account
  BY <1>3
<1>4. (\E v \in Visits : StoreSignUp(v) \/ StoreTry(v)) \/ UNCHANGED account
  BY DEF AccountsStep, AccountsNext, TickCodes, SignUp, Login, TryCode, IssueCode, FailVisit,
     InsertCode, OpenSession, Logout
<1> QED
  BY <1>1, <1>2, <1>3, <1>4

\* A verified account keeps its password (start_signup), for any number of visits: only
\* a sign-up that was under way when the account was verified changes it.
THEOREM Password == Spec => PasswordStays
<1>1. AccountsInv /\ [Next]_vars =>
        [\A e \in Merchants :
           account[e].verified /\ (\A v \in Visits : visit[v].overtaken => visit[v].e # e) =>
             account'[e].password = account[e].password]_account
  BY StepOfAccounts, PasswordStep DEF accountVars
<1> QED
  BY <1>1, InvAlways, PTL DEF Spec, PasswordStays

-----------------------------------------------------------------------------
(* The type invariant of the website.                                       *)

\* A token that was drawn stays its merchant's, and only such tokens are revoked.
SessionsTyped ==
  /\ sessions \in [Tokens -> Merchants \cup {None}]
  /\ revoked \subseteq {t \in Tokens : sessions[t] # None}

\* Who is logged in at the start is a merchant.
LEMMA SessionsInit == Init => SessionsTyped
<1> SUFFICES ASSUME Init PROVE SessionsTyped
  OBVIOUS
<1>1. revoked = {}
  BY DEF Init, AccountsInit, LoggedIn
<1>2. sessions \in [Tokens -> Merchants \cup {None}]
  BY DashboardAssumption DEF Init, AccountsInit, LoggedIn
<1> QED
  BY <1>1, <1>2 DEF SessionsTyped

\* Every step keeps the sessions' types: one is opened for the visit's account.
LEMMA SessionsStep ==
  ASSUME SessionsTyped, VisitsTyped, AccountsStep \/ UNCHANGED accountVars
  PROVE  SessionsTyped'
<1>1. ASSUME NEW v \in Visits, OpenSession(v) PROVE SessionsTyped'
  <2>1. PICK t \in Tokens : sessions[t] = None /\ sessions' = [sessions EXCEPT ![t] = visit[v].e]
    <3>1. PICK t : t = CHOOSE o \in {u \in Tokens : sessions[u] = None} : TRUE
      OBVIOUS
    <3>2. t \in {u \in Tokens : sessions[u] = None}
      BY <1>1, <3>1 DEF OpenSession
    <3>3. sessions' = [sessions EXCEPT ![t] = visit[v].e]
      BY <1>1, <3>1 DEF OpenSession
    <3> QED
      BY <3>2, <3>3
  <2>2. visit[v].e \in Merchants /\ revoked' = revoked
    BY <1>1 DEF OpenSession, VisitsTyped, ProperVisit
  <2>3. visit[v].e # None
    BY <2>2, WebsiteAssumption
  <2> QED
    BY <2>1, <2>2, <2>3 DEF SessionsTyped
<1>2. ASSUME NEW t \in Tokens, Logout(t) PROVE SessionsTyped'
  BY <1>2 DEF Logout, SessionsTyped
<1>3. ASSUME UNCHANGED <<sessions, revoked>> PROVE SessionsTyped'
  BY <1>3 DEF SessionsTyped
<1> QED
  BY <1>1, <1>2, <1>3
     DEF AccountsStep, AccountsNext, accountVars, TickCodes, SignUp, Login, TryCode, StoreSignUp,
         IssueCode, StoreTry, FailVisit, InsertCode

\* Invariant and sessions give the types TLC checks.
LEMMA AccountsTypes == AccountsInv /\ SessionsTyped => AccountsTypeOK
<1> SUFFICES ASSUME AccountsInv, SessionsTyped PROVE AccountsTypeOK
  OBVIOUS
<1>1. account \in [Merchants -> [password : Passwords \cup {None}, verified : BOOLEAN]]
  BY DEF AccountsInv, VisitsTyped, AccountRows
<1>2. \A e \in Merchants : \A k \in 1..Len(codes[e]) : codes[e][k] \in CodeRecords
  BY DEF AccountsInv, CodesTyped
<1> QED
  BY <1>1, <1>2 DEF SessionsTyped, AccountsTypeOK, CodeRecords

\* Every table and request of the website has its type: accounts, codes and sessions,
\* connections, agents and flows, in whatever order the handlers commit.
THEOREM WebsiteTyped == Spec => []TypeOK
<1> DEFINE Typed == AccountsInv /\ SessionsTyped /\ AgentsTyped
<1>1. Init => Typed
  BY InvInit, SessionsInit, AgentsTypedInit DEF Init
<1>2. Typed /\ [Next]_vars => Typed'
  BY StepOfAccounts, InvStep, SessionsStep, StepOfAgents, AgentsTypedStep DEF AccountsInv
<1>3. Typed /\ ConnectTyped /\ AutomationsInv => TypeOK
  BY AccountsTypes, AutomationsTypes DEF AgentsTyped, ConnectTyped, TypeOK
<1> HIDE DEF Typed
<1>4. Spec => []Typed
  BY <1>1, <1>2, PTL DEF Spec
<1> QED
  BY <1>3, <1>4, ConnectTypedAlways, AutomationsAlways, PTL
=============================================================================
