-------------------------------- MODULE Accounts --------------------------------
(***************************************************************************)
(* Sign-up, login and sessions of the website (app/auth/service.py): a     *)
(* sign-up stores the owner's details and mails a code, the code verifies  *)
(* the account and opens a session, login opens further ones, logout       *)
(* revokes one.                                                            *)
(*                                                                         *)
(* A visit is one HTTP request; its reads and its commits are separate     *)
(* steps, so visits overlap.  Codes of an account are kept in the order    *)
(* they were created; only the last one is ever looked at.                 *)
(***************************************************************************)
EXTENDS Website, Sequences

CONSTANTS
  Passwords, Tokens,
  Applicants,              \* bound: the merchants who sign up and log in
  Visits,                  \* requests in flight
  MAX_VERIFY_ATTEMPTS,
  RESEND_COOLDOWN, CODE_TTL,  \* in ticks
  MaxCodes                 \* bound: codes of an account

ASSUME AccountsAssumption ==
  /\ MAX_VERIFY_ATTEMPTS \in Nat /\ MaxCodes \in Nat
  /\ RESEND_COOLDOWN \in Nat /\ CODE_TTL \in Nat /\ RESEND_COOLDOWN <= CODE_TTL
  /\ Applicants \subseteq Merchants /\ None \notin Passwords \cup Tokens

VARIABLES
  account,   \* merchants: the password and whether email_verified_at is set
  codes,     \* email_verification_codes, oldest first, with their history
  sessions,  \* web_sessions: whose a token is, None while it is not drawn
  revoked,   \* tokens with revoked_at
  visit      \* per request: what it does, and what it has read

accountVars == <<account, codes, sessions, revoked, visit>>

\* overtaken is history: the account was verified while the sign-up was under way.
NoAccount == [password |-> None, verified |-> FALSE]
NoVisit == [kind |-> "idle", step |-> "idle", e |-> None, password |-> None,
            fresh |-> FALSE, code |-> 0, seen |-> 0, right |-> FALSE,
            overtaken |-> FALSE]

\* tries, opened and contested are history: wrong codes answered, sessions opened by
\* the code, and whether two visits had it at once.
NewCode(mailed) ==
  [attempts |-> 0, age |-> 0, used |-> FALSE, mailed |-> mailed,
   tries |-> 0, opened |-> 0, contested |-> FALSE]

AccountsInit ==
  /\ account = [e \in Merchants |-> NoAccount]
  /\ codes = [e \in Merchants |-> <<>>]
  /\ sessions = [t \in Tokens |-> None]
  /\ revoked = {}
  /\ visit = [v \in Visits |-> NoVisit]

Latest(e) == codes[e][Len(codes[e])]

Trying(e, k) == {v \in Visits : visit[v].kind = "verify" /\ visit[v].e = e /\ visit[v].code = k}

Open(v, rec) ==
  /\ visit[v] = NoVisit
  /\ visit' = [visit EXCEPT ![v] = rec]
Close(v) == visit' = [visit EXCEPT ![v] = NoVisit]

-----------------------------------------------------------------------------
(* Sign-up.                                                                 *)

\* The check for AlreadyRegistered left out.
MutantSignUp(v, e, pw) ==
  /\ Open(v, [NoVisit EXCEPT !.kind = "signup", !.step = "hash", !.e = e,
                             !.password = pw, !.fresh = account[e] = NoAccount])
  /\ UNCHANGED <<account, codes, sessions, revoked>>

\* start_signup: only a verified account blocks it; then the password is hashed.
SignUp(v, e, pw) ==
  /\ ~account[e].verified
  /\ Open(v, [NoVisit EXCEPT !.kind = "signup", !.step = "hash", !.e = e,
                             !.password = pw, !.fresh = account[e] = NoAccount])
  /\ UNCHANGED <<account, codes, sessions, revoked>>

\* The details are committed: an insert meets the unique email, an update does not
\* look at the row again.
StoreSignUp(v) ==
  LET e == visit[v].e IN
    /\ visit[v].step = "hash"
    /\ visit[v].fresh => account[e] = NoAccount
    /\ account' = [account EXCEPT ![e].password = visit[v].password]
    /\ visit' = [visit EXCEPT ![v] = [NoVisit EXCEPT !.kind = "signup", !.step = "issue", !.e = e]]
    /\ UNCHANGED <<codes, sessions, revoked>>

\* _issue_code: ResendTooSoon while the last code is unused and young.
TooSoon(e) == codes[e] # <<>> /\ ~Latest(e).used /\ Latest(e).age < RESEND_COOLDOWN

IssueCode(v) ==
  /\ visit[v].step = "issue"
  /\ IF TooSoon(visit[v].e) THEN Close(v)
     ELSE visit' = [visit EXCEPT ![v].step = "insert"]
  /\ UNCHANGED <<account, codes, sessions, revoked>>

\* The code is committed before it is mailed.
InsertCode(v, mailed) ==
  LET e == visit[v].e IN
    /\ visit[v].step = "insert"
    /\ Len(codes[e]) < MaxCodes
    /\ codes' = [codes EXCEPT ![e] = Append(@, NewCode(mailed))]
    /\ Close(v)
    /\ UNCHANGED <<account, sessions, revoked>>

-----------------------------------------------------------------------------
(* Verification, login, logout.                                             *)

\* One attempt too many.
MutantUsable(code) == ~code.used /\ code.attempts <= MAX_VERIFY_ATTEMPTS /\ code.age < CODE_TTL

Usable(code) == ~code.used /\ code.attempts < MAX_VERIFY_ATTEMPTS /\ code.age < CODE_TTL

\* verify_code reads the last code; the right one is known only from the mail.
TryCode(v, e, right) ==
  LET k == Len(codes[e]) IN
    /\ k > 0
    /\ Usable(Latest(e))
    /\ right => Latest(e).mailed
    /\ Open(v, [NoVisit EXCEPT !.kind = "verify", !.step = "compare", !.e = e,
                               !.code = k, !.seen = Latest(e).attempts, !.right = right])
    /\ codes' = IF Trying(e, k) = {} THEN codes ELSE [codes EXCEPT ![e][k].contested = TRUE]
    /\ UNCHANGED <<account, sessions, revoked>>

\* The count that was read plus one; the history of a contested code ends.
Wrong(code, seen) ==
  [code EXCEPT !.attempts = seen + 1, !.tries = IF code.contested THEN @ ELSE @ + 1]

\* email_verified_at is set, whatever else is under way for the account.
Verify(v) ==
  LET e == visit[v].e IN
    /\ account' = [account EXCEPT ![e].verified = TRUE]
    /\ visit' = [o \in Visits |->
         IF o = v THEN [visit[o] EXCEPT !.step = "session", !.seen = 0, !.right = FALSE]
         ELSE [visit[o] EXCEPT !.overtaken = @ \/ (visit[o].step = "hash" /\ visit[o].e = e)]]

\* The code is not marked as consumed.
MutantStoreTry(v) ==
  LET rec == visit[v] IN
    /\ rec.step = "compare"
    /\ IF rec.right
       THEN Verify(v) /\ UNCHANGED codes
       ELSE /\ codes' = [codes EXCEPT ![rec.e][rec.code] = Wrong(@, rec.seen)]
            /\ Close(v)
            /\ UNCHANGED account
    /\ UNCHANGED <<sessions, revoked>>

\* A wrong code writes the count it read plus one; the right one verifies the account.
StoreTry(v) ==
  LET rec == visit[v] IN
    /\ rec.step = "compare"
    /\ IF rec.right
       THEN /\ codes' = [codes EXCEPT ![rec.e][rec.code].used = TRUE]
            /\ Verify(v)
       ELSE /\ codes' = [codes EXCEPT ![rec.e][rec.code] = Wrong(@, rec.seen)]
            /\ Close(v)
            /\ UNCHANGED account
    /\ UNCHANGED <<sessions, revoked>>

Login(v, e, pw) ==
  /\ account[e].verified /\ account[e].password = pw
  /\ Open(v, [NoVisit EXCEPT !.kind = "login", !.step = "session", !.e = e])
  /\ UNCHANGED <<account, codes, sessions, revoked>>

\* _create_session, in a transaction of its own, with a token never drawn before.
OpenSession(v) ==
  LET rec == visit[v]
      free == {t \in Tokens : sessions[t] = None}
      t == CHOOSE t \in free : TRUE
  IN
    /\ rec.step = "session"
    /\ free # {}
    /\ sessions' = [sessions EXCEPT ![t] = rec.e]
    /\ codes' = IF rec.code = 0 THEN codes
                ELSE [codes EXCEPT ![rec.e][rec.code].opened =
                        IF codes[rec.e][rec.code].contested THEN @ ELSE @ + 1]
    /\ Close(v)
    /\ UNCHANGED <<account, revoked>>

\* Whatever the cookie says.
MutantLogout(t) ==
  /\ revoked' = revoked \cup {t}
  /\ UNCHANGED <<account, codes, sessions, visit>>

\* revoke_session, and a session that expires.
Logout(t) ==
  /\ sessions[t] # None
  /\ revoked' = revoked \cup {t}
  /\ UNCHANGED <<account, codes, sessions, visit>>

\* resolve_session finds the account of a live session.
SignedIn(e) == \E t \in Tokens \ revoked : sessions[t] = e

FailVisit(v) ==
  /\ visit[v] # NoVisit
  /\ Close(v)
  /\ UNCHANGED <<account, codes, sessions, revoked>>

\* The age of a code that is used, or not the last, is never asked for.
TickCodes ==
  /\ codes' = [e \in Merchants |->
       IF codes[e] = <<>> \/ Latest(e).used \/ Latest(e).age = CODE_TTL THEN codes[e]
       ELSE [codes[e] EXCEPT ![Len(codes[e])].age = @ + 1]]
  /\ UNCHANGED <<account, sessions, revoked, visit>>

AccountsNext ==
  \/ TickCodes
  \/ \E v \in Visits :
       \/ \E e \in Applicants, pw \in Passwords : SignUp(v, e, pw) \/ Login(v, e, pw)
       \/ \E e \in Applicants, right \in BOOLEAN : TryCode(v, e, right)
       \/ StoreSignUp(v) \/ IssueCode(v) \/ StoreTry(v) \/ FailVisit(v)
       \/ \E mailed \in BOOLEAN : InsertCode(v, mailed)
       \/ OpenSession(v)

-----------------------------------------------------------------------------
(* Properties.                                                              *)

AccountsTypeOK ==
  /\ account \in [Merchants -> [password : Passwords \cup {None}, verified : BOOLEAN]]
  /\ \A e \in Merchants : \A k \in 1..Len(codes[e]) :
       codes[e][k] \in [attempts : Nat, age : 0..CODE_TTL, used : BOOLEAN, mailed : BOOLEAN,
                        tries : Nat, opened : Nat, contested : BOOLEAN]
  /\ sessions \in [Tokens -> Merchants \cup {None}]
  /\ revoked \subseteq {t \in Tokens : sessions[t] # None}

\* A code answers at most MAX_VERIFY_ATTEMPTS wrong attempts and counts every one,
\* unless two visits held it at once (verify_code's read, compare, add and commit).
AttemptsCounted ==
  \A e \in Merchants : \A k \in 1..Len(codes[e]) :
    ~codes[e][k].contested =>
      codes[e][k].tries = codes[e][k].attempts /\ codes[e][k].tries <= MAX_VERIFY_ATTEMPTS

\* A code opens one session at most, unless two visits held it at once: not after
\* its session could not be stored, and not again once it was used (consumed_at).
CodeSpentOnce ==
  \A e \in Merchants : \A k \in 1..Len(codes[e]) : ~codes[e][k].contested => codes[e][k].opened <= 1

\* A verified account keeps its password: only a sign-up that was under way when the
\* account was verified can still change it (start_signup's AlreadyRegistered).
PasswordStays ==
  [][\A e \in Merchants :
       account[e].verified /\ (\A v \in Visits : visit[v].overtaken => visit[v].e # e) =>
         account'[e].password = account[e].password]_account
=============================================================================
