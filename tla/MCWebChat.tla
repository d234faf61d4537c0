----------------------------- MODULE MCWebChat -----------------------------
(***************************************************************************)
(* Instances of WebChat for TLC.  The workshops are there: the first person *)
(* owns one, the second works in it and in some cases owns the other.      *)
(***************************************************************************)
EXTENDS WebChat, TLC

CONSTANTS u1, u2, w1, w2, s1, b1, l1

VARIABLE scene

Staffed ==
  [w \in Workshop |-> [u \in User |->
     IF w = w1 THEN [role |-> IF u = u1 THEN "OWNER" ELSE "EMPLOYEE", status |-> "active"]
     ELSE IF u = u2 THEN [role |-> "OWNER", status |-> "active"] ELSE NoRow]]
OneStaffed == [Staffed EXCEPT ![w2] = [u \in User |-> NoRow]]

\* The second person joined the first workshop by an invitation for one.
StartStaffed ==
  /\ active = [u \in User |-> w1]
  /\ invite = [i \in Invite |->
       [workshop |-> w1, role |-> "EMPLOYEE", max |-> 1, used |-> 1,
        status |-> "used", expired |-> FALSE]]
  /\ joined = Invite \X {u2}
  /\ asked = [u \in User |-> Nothing]
  /\ ChatInit

\* The second person is logged in; the code is used up and cleaned away.
LoggedIn ==
  /\ login = [l \in Login |-> Deleted]
  /\ session = [s \in Session |->
       IF s = s1 THEN [user |-> u2, token |-> b1, expired |-> FALSE, revoked |-> FALSE,
                       by |-> l1, of |-> b1]
       ELSE Deleted]
  /\ cookie = [b \in Browser |-> [login |-> None, session |-> IF b = b1 THEN s1 ELSE None]]

\* people: nothing exists yet, and workshops are founded and joined.
\* logins: nobody is logged in yet, and nothing is asked in the chat.
\* asking: two requests of a person of one workshop.
\* moving: one request of a person who has two workshops.
WebSceneInit ==
  /\ StartStaffed
  /\ \/ scene = "logins" /\ member = OneStaffed /\ LoginInit
     \/ scene = "asking" /\ member = OneStaffed /\ LoggedIn
     \/ scene = "moving" /\ member = Staffed /\ LoggedIn
SceneInit ==
  \/ WebSceneInit
  \/ scene = "people" /\ IdentityInit /\ LoginInit /\ ChatInit

Scene ==
  /\ scene \in {"logins", "asking"} => \A w \in Workshop, u \in User :
                           \/ member[w][u] = OneStaffed[w][u]
                           \/ [member[w][u] EXCEPT !.status = "active"] = OneStaffed[w][u]
  /\ scene = "logins" => /\ posting = [s \in Session |-> None]
                         /\ up
  /\ scene = "people" => /\ Founded(w2) => Founded(w1)
                         /\ Founded(w1) => member[w1][u1] # NoRow
  /\ scene = "moving" => Cardinality({r \in Request : request[r] # None}) <= 1

\* Nothing leaves the scene.
Within == Scene'

SceneNext ==
  /\ UNCHANGED scene
  /\ \/ scene # "people" /\ WebNext
     \/ scene = "people" /\ IdentityNext /\ UNCHANGED <<loginVars, chatVars>>
SceneSpec == SceneInit /\ [][SceneNext]_<<webVars, scene>>

Interchangeable ==
  Permutations(Request) \cup Permutations(Browser) \cup Permutations(Login)
    \cup Permutations(Session)

-----------------------------------------------------------------------------
(* Nobody is moved to another workshop unasked (MovedByChoice of Identity,   *)
(* for the scene in which confirmations wait: ActiveWorkshop, setActive).    *)
MovedOnlyByChoice ==
  [][scene = "people" => \A u \in User : Chosen(u)]_identityVars
=============================================================================
