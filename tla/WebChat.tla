------------------------------ MODULE WebChat ------------------------------
(***************************************************************************)
(* The requests of the web chat (internal/webchat), from the POST to the   *)
(* answer, and the handler of the bot that works on them under the         *)
(* application lock (internal/telegram).  The handler gives the lock away  *)
(* around every call of a model and takes it back afterwards, so that      *)
(* everybody else's presses come in between; the page logs out, cancels    *)
(* and cleans up without that lock; and the process may die at any point.  *)
(***************************************************************************)
EXTENDS WebLogin

CONSTANTS
  Request,       \* request ids, each stored at most once
  Key,           \* values of the Idempotency-Key header
  NoKey,         \* the header is empty
  MaxYield       \* bound of the instance on model calls of a handler

ASSUME KeyAssumption == NoKey \notin Key /\ MaxYield \in Nat

VARIABLES
  request,       \* web_requests
  message,       \* web_messages the handlers wrote
  job,           \* the goroutines of accepted requests, Runtime and Service.jobs
  posting,       \* the POST each session has in progress
  lock,          \* the request whose handler holds Bot.applicationMu
  up,            \* the process runs
  entered        \* the requests whose handler began to work, with session and key

chatVars == <<request, message, job, posting, lock, up, entered>>
webVars == <<identityVars, loginVars, chatVars>>

Status == {"QUEUED", "RUNNING", "COMPLETED", "FAILED", "CANCELLED"}
Unfinished == {"QUEUED", "RUNNING"}
RequestRow == [session : Session, key : Key \cup {NoKey}, user : User,
               workshop : Workshop, status : Status]
\* An answer is stored under a workshop.
Message == [request : Request, workshop : Workshop]
\* stored: the row is committed, Submit has not been called.  user, session and
\* workshop are those of the message.Inbound; shows is the workshop the handler has
\* read and as its role there then; kept is what Yield saved.
Job == [at : {"stored", "pending", "started", "working", "yielded", "delivering"},
        session : Session, user : User, workshop : Workshop,
        done : BOOLEAN, yields : 0 .. MaxYield,
        shows : Workshop, as : MemberRole \cup {"NONE"},
        kept : [workshop : Workshop, role : MemberRole \cup {"NONE"}]]

ASSUME NoRequestAssumption ==
  {None, Deleted} \cap (Request \cup Key \cup {NoKey} \cup RequestRow \cup Job) = {}

ChatTypeOK ==
  /\ LoginTypeOK
  /\ request \in [Request -> RequestRow \cup {None, Deleted}]
  /\ message \subseteq Message
  /\ job \in [Request -> Job \cup {None}]
  /\ posting \in [Session -> Key \cup {NoKey, None}]
  /\ lock \in Request \cup {None}
  /\ up \in BOOLEAN
  /\ entered \subseteq Request \X Session \X (Key \cup {NoKey})

-----------------------------------------------------------------------------
HasRequest(r) == request[r] \notin {None, Deleted}
Is(r, at) == job[r] # None /\ job[r].at = at
UserOf(r) == job[r].user
SessionOf(r) == job[r].session
Busy(u) == \E r \in Request : /\ job[r] # None /\ UserOf(r) = u
                              /\ job[r].at \notin {"stored", "pending"}

\* The SELECT role of Yield and resume, of whatever status the row is.
RoleOf(u, w) == IF member[w][u] = NoRow THEN "NONE" ELSE member[w][u].role

-----------------------------------------------------------------------------
\* action, the POST: the session is authenticated, then the body is read.
BeginPost(b, k) ==
  LET s == cookie[b].session IN
  /\ up /\ Authenticated(b, s)
  /\ posting[s] = None
  /\ posting' = [posting EXCEPT ![s] = k]
  /\ UNCHANGED <<identityVars, loginVars, request, message, job, lock, up, entered>>

\* Variant TLC must refute: a key whose request has ended may be used again.
KeyInUse(s, k) ==
  \E r \in Request : /\ HasRequest(r) /\ request[r].session = s /\ request[r].key = k
                     /\ request[r].status \in Unfinished

KeyUsed(s, k) == \E r \in Request : HasRequest(r) /\ request[r].session = s /\ request[r].key = k

\* Under admissionMu: a key that is stored is answered from its row, as is a POST
\* that is refused; neither changes anything.
Answered(s) ==
  /\ up /\ posting[s] # None
  /\ \A r \in Request : ~Is(r, "stored")
  /\ posting' = [posting EXCEPT ![s] = None]
  /\ UNCHANGED <<identityVars, loginVars, request, message, job, lock, up, entered>>

Store(s) ==
  /\ up /\ posting[s] # None /\ HasSession(s)
  /\ \A r \in Request : ~Is(r, "stored")
  /\ posting[s] \in Key => ~KeyUsed(s, posting[s])
  /\ LET u == session[s].user IN
     /\ active[u] \in Available(member, u)
     /\ \E r \in Request :
          /\ request[r] = None
          /\ request' = [request EXCEPT ![r] =
               [session |-> s, key |-> posting[s], user |-> u, workshop |-> active[u],
                status |-> "QUEUED"]]
          /\ job' = [job EXCEPT ![r] =
               [at |-> "stored", session |-> s, user |-> u, workshop |-> active[u],
                done |-> FALSE, yields |-> 0, shows |-> active[u], as |-> "NONE",
                kept |-> [workshop |-> active[u], role |-> "NONE"]]]
  /\ posting' = [posting EXCEPT ![s] = None]
  /\ UNCHANGED <<identityVars, loginVars, message, lock, up, entered>>

Goes(r, to) == job' = [job EXCEPT ![r].at = to]

\* Submit accepts: the job and its entry in Service.jobs come together.
Accept(r) ==
  /\ Is(r, "stored")
  /\ Goes(r, "pending")
  /\ UNCHANGED <<identityVars, loginVars, request, message, posting, lock, up, entered>>

\* Submit refuses for a limit: the row is taken back, so that the key is free.
Refuse(r) ==
  /\ Is(r, "stored")
  /\ request' = [request EXCEPT ![r] = Deleted]
  /\ job' = [job EXCEPT ![r] = None]
  /\ UNCHANGED <<identityVars, loginVars, message, posting, lock, up, entered>>

-----------------------------------------------------------------------------
\* Runtime and handler.

Put(r, status) ==
  request' = IF HasRequest(r) THEN [request EXCEPT ![r].status = status] ELSE request

\* dispatch: one request of a person at a time.
Start(r) ==
  /\ Is(r, "pending")
  /\ ~Busy(UserOf(r))
  /\ Goes(r, "started") /\ Put(r, "RUNNING")
  /\ UNCHANGED <<identityVars, loginVars, message, posting, lock, up, entered>>

\* finish: an end whose context is done counts as cancelled.
Ends(r, status) ==
  /\ Put(r, IF job[r].done THEN "CANCELLED" ELSE status)
  /\ job' = [job EXCEPT ![r] = None]
  /\ lock' = IF lock = r THEN None ELSE lock
  /\ UNCHANGED <<member, invite, joined, asked, loginVars, message, posting, up, entered>>

\* The goroutine of a context that ends takes its job from the queue.
Abandon(r) ==
  /\ Is(r, "pending") /\ job[r].done
  /\ Ends(r, "CANCELLED")
  /\ UNCHANGED active

\* What the closure, inboundUser and resume ask before the selected workshop is
\* resolved: no end yet, the session is live, w may be read.
Reaches(r, w) ==
  /\ ~job[r].done /\ Live(SessionOf(r))
  /\ MayIn(UserOf(r), w, "workshop.read")

Admits(r) ==
  /\ Reaches(r, job[r].workshop)
  /\ Resolved(member, active, UserOf(r)) = job[r].workshop

Enter(r) ==
  /\ Is(r, "started") /\ lock = None
  /\ Admits(r)
  /\ lock' = r
  /\ job' = [job EXCEPT ![r].at = "working", ![r].shows = job[r].workshop,
                        ![r].as = RoleOf(UserOf(r), job[r].workshop)]
  /\ active' = [active EXCEPT ![UserOf(r)] = job[r].workshop]
  /\ entered' = entered \cup {<<r, SessionOf(r), request[r].key>>}
  /\ UNCHANGED <<member, invite, joined, asked, loginVars, request, message, posting, up>>

\* Only the selection is looked at under the lock.
TurnedAway(r) ==
  /\ Is(r, "started")
  /\ Reaches(r, job[r].workshop) => lock = None
  /\ ~Admits(r)
  /\ Ends(r, "FAILED")
  /\ IF Reaches(r, job[r].workshop) THEN Home(member, active, UserOf(r)) ELSE UNCHANGED active

\* Yield, around a call of a model or of a marketplace.  A request has a workshop.
Yield(r) ==
  /\ lock = r /\ job[r].at = "working" /\ job[r].yields < MaxYield
  /\ LET w == Resolved(member, active, UserOf(r)) IN
     /\ job' = [job EXCEPT ![r].at = "yielded", ![r].yields = @ + 1,
                           ![r].kept = [workshop |-> w, role |-> RoleOf(UserOf(r), w)]]
     /\ active' = [active EXCEPT ![UserOf(r)] = w]
  /\ lock' = None
  /\ UNCHANGED <<member, invite, joined, asked, loginVars, request, message, posting, up, entered>>

\* Variant TLC must refute: the rights are compared, the selected workshop is not.
SameContextAnywhere(r) ==
  /\ Reaches(r, job[r].kept.workshop)
  /\ RoleOf(UserOf(r), job[r].kept.workshop) = job[r].kept.role

\* What resume asks: everything but the lock is as it was.
SameContext(r) ==
  /\ Reaches(r, job[r].kept.workshop)
  /\ Resolved(member, active, UserOf(r)) = job[r].kept.workshop
  /\ RoleOf(UserOf(r), job[r].kept.workshop) = job[r].kept.role

Resume(r) ==
  /\ lock = None /\ Is(r, "yielded")
  /\ SameContext(r)
  /\ lock' = r /\ Goes(r, "working")
  /\ Home(member, active, UserOf(r))
  /\ UNCHANGED <<member, invite, joined, asked, loginVars, request, message, posting, up, entered>>

\* The handler returns the error of resume.
ResumeDenied(r) ==
  /\ lock = None /\ Is(r, "yielded")
  /\ ~SameContext(r)
  /\ Ends(r, "FAILED")
  /\ IF Reaches(r, job[r].kept.workshop) THEN Home(member, active, UserOf(r)) ELSE UNCHANGED active

\* A confirmation of this request selects another workshop and shows its home.
Switch(r) ==
  /\ lock = r /\ job[r].at = "working"
  /\ \E w \in Available(member, UserOf(r)) :
       /\ active' = [active EXCEPT ![UserOf(r)] = w]
       /\ job' = [job EXCEPT ![r].shows = w, ![r].as = RoleOf(UserOf(r), w)]
  /\ UNCHANGED <<member, invite, joined, asked, loginVars, request, message, posting, lock, up, entered>>

\* deliverWeb and Deliver: the label is the workshop selected now; the session is
\* read before the message is inserted, and may be logged out in between.
Deliver(r) ==
  /\ lock = r /\ job[r].at = "working"
  /\ Live(SessionOf(r)) /\ active[UserOf(r)] \in Available(member, UserOf(r))
  /\ Goes(r, "delivering")
  /\ UNCHANGED <<identityVars, loginVars, request, message, posting, lock, up, entered>>

Insert(r) ==
  /\ lock = r /\ job[r].at = "delivering" /\ HasSession(SessionOf(r))
  /\ message' = message \cup
       {[request |-> r, workshop |-> active[UserOf(r)]]}
  /\ Goes(r, "working")
  /\ UNCHANGED <<identityVars, loginVars, request, posting, lock, up, entered>>

\* The handler returns, or its delivery fails.
Return(r) ==
  /\ lock = r
  /\ Ends(r, "COMPLETED") \/ Ends(r, "FAILED")
  /\ UNCHANGED active

\* cancelRequest of the session's own page, or the timeout of the request.
CancelRequest(r) ==
  /\ job[r] # None /\ job[r].at # "stored" /\ ~job[r].done
  /\ job' = [job EXCEPT ![r].done = TRUE]
  /\ UNCHANGED <<identityVars, loginVars, request, message, posting, lock, up, entered>>

-----------------------------------------------------------------------------
\* Presses in Telegram by people without a request in progress, while no handler
\* holds the lock; confirmations that wait are explored in Identity.  /start needs
\* no turn: it resolves the workshop of a person whose request is yielded.
Elsewhere ==
  /\ up /\ lock = None
  /\ \/ \E u \in User : /\ ~Busy(u)
                        /\ \E b \in Offered(u) : InContext(u, b) /\ Operation(u, b)
                        /\ UNCHANGED asked
     \/ \E u \in User : ActiveWorkshop(u)
  /\ UNCHANGED <<loginVars, chatVars>>

\* Logins, logouts and cleanups run beside the handlers; what a deleted session
\* has is deleted with it.
Page ==
  /\ up /\ LoginStep
  /\ request' = [r \in Request |->
       IF HasRequest(r) /\ session'[request[r].session] = Deleted THEN Deleted ELSE request[r]]
  /\ message' = {x \in message : request'[x.request] # Deleted}
  /\ UNCHANGED <<identityVars, job, posting, lock, up, entered>>

\* The process dies between any two steps.
Crash ==
  /\ up /\ up' = FALSE
  /\ job' = [r \in Request |-> None]
  /\ posting' = [s \in Session |-> None]
  /\ lock' = None
  /\ UNCHANGED <<identityVars, loginVars, request, message, entered>>

\* Variant TLC must refute: the next start ends only what was running.
RestartRunning ==
  /\ ~up /\ up' = TRUE
  /\ request' = [r \in Request |->
       IF HasRequest(r) /\ request[r].status = "RUNNING"
       THEN [request[r] EXCEPT !.status = "CANCELLED"] ELSE request[r]]
  /\ UNCHANGED <<identityVars, loginVars, message, job, posting, lock, entered>>

\* The recovery of main, before the listener is opened.
Restart ==
  /\ ~up /\ up' = TRUE
  /\ request' = [r \in Request |->
       IF HasRequest(r) /\ request[r].status \in Unfinished
       THEN [request[r] EXCEPT !.status = "CANCELLED"] ELSE request[r]]
  /\ UNCHANGED <<identityVars, loginVars, message, job, posting, lock, entered>>

Handler(r) ==
  \/ Accept(r) \/ Refuse(r) \/ Start(r) \/ Abandon(r) \/ Enter(r) \/ TurnedAway(r)
  \/ Resume(r) \/ ResumeDenied(r) \/ Insert(r) \/ Return(r)

WebNext ==
  \/ \E b \in Browser, k \in Key \cup {NoKey} : BeginPost(b, k)
  \/ \E s \in Session : Answered(s) \/ Store(s)
  \/ \E r \in Request : \/ Handler(r) \/ Yield(r) \/ Switch(r) \/ Deliver(r)
                        \/ CancelRequest(r)
  \/ Elsewhere \/ Page \/ Crash \/ Restart

ChatInit ==
  /\ request = [r \in Request |-> None]
  /\ message = {}
  /\ job = [r \in Request |-> None]
  /\ posting = [s \in Session |-> None]
  /\ lock = None
  /\ up = TRUE
  /\ entered = {}

WebSpec == IdentityInit /\ LoginInit /\ ChatInit /\ [][WebNext]_webVars
-----------------------------------------------------------------------------
(* A key runs once: whatever a client repeats, after a refusal, a lost       *)
(* reply, a cancellation or a restart, the handler does not begin twice for  *)
(* one key of a session.                                                     *)
KeyRunsOnce ==
  \A x, y \in entered : x[2] = y[2] /\ x[3] = y[3] /\ x[3] # NoKey => x = y

(* No request is shown as waiting or running that nobody works on: while the *)
(* process runs every unfinished row has its job, and the rows a crash left  *)
(* are ended before the page is served again.                                *)
UnfinishedIsWorkedOn ==
  up => \A r \in Request :
          HasRequest(r) /\ request[r].status \in Unfinished => job[r] # None

(* The rows of the chat have their types, and UnfinishedIsWorkedOn, across   *)
(* cancellations, a crash and a restart (requests.go, RecoverInterrupted).   *)
RequestsAgree == ChatTypeOK /\ UnfinishedIsWorkedOn

(* What was read before the lock was given away still holds after it: a      *)
(* handler that works does so for a person who has that workshop selected,   *)
(* with the role they had when the handler read it, so that an answer is     *)
(* stored under the workshop it is about.                                    *)
ContextKept ==
  \A r \in Request : lock = r =>
    /\ active[UserOf(r)] = job[r].shows
    /\ MayIn(UserOf(r), job[r].shows, "workshop.read")
    /\ RoleOf(UserOf(r), job[r].shows) = job[r].as
=============================================================================
