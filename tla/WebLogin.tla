------------------------------ MODULE WebLogin ------------------------------
(***************************************************************************)
(* How a browser is let into the web chat (internal/webchat): the page     *)
(* shows a code, a member of a workshop sends it to the bot from the       *)
(* private chat, and the browser that polls is given a fresh credential.   *)
(* Logins and sessions are rows; every action is one statement or one      *)
(* transaction of the process, in any order, together with whatever        *)
(* happens to the workshops.                                               *)
(***************************************************************************)
EXTENDS Identity

CONSTANTS
  Browser,
  Login,         \* codes, each created at most once
  Session,       \* web_sessions.id is AUTOINCREMENT: no session has the id of another
  MaxAttempts,   \* wrong codes until a login is blocked, 5 in the code
  None,          \* no such row yet, no cookie, no credential
  Deleted        \* the row was cleaned up; neither codes nor ids come twice

ASSUME AttemptsAssumption == MaxAttempts \in Nat \ {0}
ASSUME NoneAssumption == {None, Deleted} \cap (Browser \cup Login \cup Session) = {}

VARIABLES
  login,         \* pending_web_logins
  session,       \* web_sessions
  cookie         \* the two cookies each browser holds

loginVars == <<login, session, cookie>>

LoginRow == [browser : Browser, expired : BOOLEAN, attempts : 0 .. MaxAttempts,
             status : {"pending", "confirmed", "consumed", "blocked"},
             session : Session \cup {None}]
\* token is the browser that holds the credential; by and of are the login it was
\* opened by and the browser that login was shown to, which the rows do not keep.
SessionRow == [user : User, token : Browser \cup {None}, expired : BOOLEAN,
               revoked : BOOLEAN, by : Login, of : Browser]

ASSUME RowsAssumption ==
  None # Deleted /\ {None, Deleted} \cap (LoginRow \cup SessionRow) = {}

LoginTypeOK ==
  /\ login \in [Login -> LoginRow \cup {None, Deleted}]
  /\ session \in [Session -> SessionRow \cup {None, Deleted}]
  /\ cookie \in [Browser -> [login : Login \cup {None}, session : Session \cup {None}]]

-----------------------------------------------------------------------------
\* ExistingTelegramUser: somebody who may read some workshop.
Existing(u) == Available(member, u) # {}

HasLogin(l) == l # None /\ login[l] \notin {None, Deleted}
HasSession(s) == s # None /\ session[s] \notin {None, Deleted}
Live(s) == HasSession(s) /\ ~session[s].expired /\ ~session[s].revoked

\* Authenticate: the credential is that of a live session whose user still is
\* somebody's member.
Authenticated(b, s) == Live(s) /\ session[s].token = b /\ Existing(session[s].user)

Waits(l) ==
  /\ HasLogin(l) /\ login[l].status = "pending"
  /\ ~login[l].expired /\ login[l].attempts < MaxAttempts

\* The page of a browser that is not logged in: a reload replaces only the login
\* that still waits for its confirmation.
OpenChat(b) ==
  /\ ~Authenticated(b, cookie[b].session)
  /\ \E l \in Login :
       /\ login[l] = None
       /\ login' = [k \in Login |->
            IF k = l THEN [browser |-> b, expired |-> FALSE, attempts |-> 0,
                           status |-> "pending", session |-> None]
            ELSE IF k = cookie[b].login /\ HasLogin(k) /\ login[k].status = "pending"
            THEN [login[k] EXCEPT !.status = "blocked"]
            ELSE login[k]]
       /\ cookie' = [cookie EXCEPT ![b].login = l]
  /\ UNCHANGED session

\* A code of the right beginning that is not the code.
ConfirmWrong(u, l) ==
  /\ Existing(u) /\ Waits(l)
  /\ login' = [login EXCEPT ![l].attempts = @ + 1,
       ![l].status = IF login[l].attempts + 1 >= MaxAttempts THEN "blocked" ELSE @]
  /\ UNCHANGED <<session, cookie>>

\* Variant TLC must refute: whether the code was confirmed already is not looked at.
ConfirmLoginAgain(u, l) ==
  /\ Existing(u)
  /\ HasLogin(l) /\ ~login[l].expired /\ login[l].attempts < MaxAttempts
  /\ \E s \in Session :
       /\ session[s] = None
       /\ session' = [session EXCEPT ![s] =
            [user |-> u, token |-> None, expired |-> FALSE, revoked |-> FALSE,
             by |-> l, of |-> login[l].browser]]
       /\ login' = [login EXCEPT ![l].status = "confirmed", ![l].session = s]
  /\ UNCHANGED cookie

ConfirmLogin(u, l) ==
  /\ Existing(u) /\ Waits(l)
  /\ \E s \in Session :
       /\ session[s] = None
       /\ session' = [session EXCEPT ![s] =
            [user |-> u, token |-> None, expired |-> FALSE, revoked |-> FALSE,
             by |-> l, of |-> login[l].browser]]
       /\ login' = [login EXCEPT ![l].status = "confirmed", ![l].session = s]
  /\ UNCHANGED cookie

\* Complete and the reply of poll: the session is given a new credential unless it
\* was revoked, the login is used up, and the cookie is set only if the credential
\* authenticates.
Complete(b) ==
  LET l == cookie[b].login IN
  /\ HasLogin(l) /\ login[l].browser = b
  /\ login[l].status = "confirmed" /\ ~login[l].expired
  /\ login' = [login EXCEPT ![l].status = "consumed"]
  /\ LET s == login[l].session IN
     /\ session' = IF session[s].revoked THEN session ELSE [session EXCEPT ![s].token = b]
     /\ cookie' = IF Live(s) /\ Existing(session[s].user)
                  THEN [cookie EXCEPT ![b] = [login |-> None, session |-> s]]
                  ELSE cookie

Logout(b) ==
  /\ Authenticated(b, cookie[b].session)
  /\ session' = [session EXCEPT ![cookie[b].session].revoked = TRUE]
  /\ cookie' = [cookie EXCEPT ![b].session = None]
  /\ UNCHANGED login

ExpireLogin(l) ==
  /\ HasLogin(l) /\ ~login[l].expired
  /\ login' = [login EXCEPT ![l].expired = TRUE]
  /\ UNCHANGED <<session, cookie>>

ExpireSession(s) ==
  /\ HasSession(s) /\ ~session[s].expired
  /\ session' = [session EXCEPT ![s].expired = TRUE]
  /\ UNCHANGED <<login, cookie>>

\* Cleanup: the second statement takes the logins of the sessions with it.
CleanupLogins ==
  /\ login' = [l \in Login |-> IF HasLogin(l) /\ login[l].expired THEN Deleted ELSE login[l]]
  /\ UNCHANGED <<session, cookie>>

Stale(s) == HasSession(s) /\ ~Live(s)

CleanupSessions ==
  /\ session' = [s \in Session |-> IF Stale(s) THEN Deleted ELSE session[s]]
  /\ login' = [l \in Login |->
       IF HasLogin(l) /\ login[l].session # None /\ Stale(login[l].session) THEN Deleted
       ELSE login[l]]
  /\ UNCHANGED cookie

LoginStep ==
  \/ \E b \in Browser : OpenChat(b) \/ Complete(b) \/ Logout(b)
  \/ \E u \in User, l \in Login : ConfirmWrong(u, l) \/ ConfirmLogin(u, l)
  \/ \E l \in Login : ExpireLogin(l)
  \/ \E s \in Session : ExpireSession(s)
  \/ CleanupLogins \/ CleanupSessions

LoginInit ==
  /\ login = [l \in Login |-> None]
  /\ session = [s \in Session |-> None]
  /\ cookie = [b \in Browser |-> [login |-> None, session |-> None]]

-----------------------------------------------------------------------------
(* A code lets in once and only its own browser: no two sessions come from   *)
(* one code, the credential of a session is only ever given to the browser   *)
(* that was shown the code, and a code that was replaced, guessed at too     *)
(* often or not yet confirmed has opened nothing.                            *)
CodeOpensOnce ==
  \A s \in Session : HasSession(s) =>
    /\ session[s].token \in {None, session[s].of}
    /\ \A t \in Session \ {s} : HasSession(t) => session[t].by # session[s].by
    /\ HasLogin(session[s].by) =>
         login[session[s].by].status \in {"confirmed", "consumed"}
    /\ \A b \in Browser : cookie[b].session = s => session[s].of = b
=============================================================================
