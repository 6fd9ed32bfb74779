----------------------------- MODULE WebSessions -----------------------------
(***************************************************************************)
(* What the application knows of HTTP sessions: OnlinePool, which registers *)
(* the session of a user, and LoginInterceptor, which lets a request for a *)
(* guarded address pass when its session says who is logged in.  The pool  *)
(* is a Hashtable, so one get, put or remove is one step; the interceptor  *)
(* reads the session once to decide and once more to write its refusal.    *)
(*                                                                         *)
(* Who logs in and out, and when the container lets a session expire, is   *)
(* not in this code: SetUserinfo changes a session at any moment.          *)
(***************************************************************************)
CONSTANTS
  Users,     \* values of "userid"
  Sessions,  \* HTTP sessions
  Requests,  \* threads that serve requests, each in one call at a time
  NoSession  \* null: no entry in the pool, or a map without "session"

ASSUME NoSessionAssumption == NoSession \notin Sessions

VARIABLES
  userPool,  \* OnlinePool.userPool
  userinfo,  \* what the attribute "userinfo" of a session holds
  call,      \* the call each thread is in, and how its last one ended
  seen       \* history: what the entry a call reads, or its session, has been since it began

vars == <<userPool, userinfo, call, seen>>

Registered == Sessions \cup {NoSession}

\* No attribute, an empty map, a map without a login name, and one with it.
Infos == {"none", "empty", "nameless", "named"}

Steps == {"idle", "second", "check", "refuse"}

Ends == {"none", "done", "throws", "true", "false", "handled", "passed", "refused0", "refused1"}

TypeOK ==
  /\ userPool \in [Users -> Registered]
  /\ userinfo \in [Sessions -> Infos]
  /\ call \in [Requests -> [at : Steps, user : Users, session : Registered, end : Ends]]
  /\ seen \in [Requests -> SUBSET (Registered \cup Infos)]

Init ==
  /\ userPool = [u \in Users |-> NoSession]
  /\ userinfo = [s \in Sessions |-> "none"]
  /\ call \in [Requests -> {[at |-> "idle", user |-> u, session |-> NoSession, end |-> "none"] : u \in Users}]
  /\ seen = [r \in Requests |-> {}]

-----------------------------------------------------------------------------
(* A call of thread r goes on to a step, or ends in "idle". *)

Goto(r, step, u, s, end) ==
  call' = [call EXCEPT ![r] = [at |-> step, user |-> u, session |-> s, end |-> end]]

Idle(r) == call[r].at = "idle"

\* What a call in progress has to read next.
Sees(r) ==
  IF call[r].at = "second" THEN {userPool'[call[r].user]}
  ELSE IF call[r].at \in {"check", "refuse"} THEN {userinfo'[call[r].session]} ELSE {}

\* The histories of the calls in progress follow the pool and the sessions.
Witness == seen' = [r \in Requests |-> seen[r] \cup Sees(r)]

\* A call begins its history with what it reads first.
Begins(r, first) == seen' = [q \in Requests |-> IF q = r THEN first ELSE seen[q] \cup Sees(q)]

-----------------------------------------------------------------------------
(* OnlinePool. *)

\* Mutant of Put: the user stored for the session.
PutUser(u, s) == userPool' = [userPool EXCEPT ![u] = u]

Put(u, s) == userPool' = [userPool EXCEPT ![u] = s]

\* A map without a session throws before it changes anything.
ModifyUserInPool(r, u, s) ==
  /\ Idle(r)
  /\ IF s = NoSession
     THEN Goto(r, "idle", u, NoSession, "throws") /\ UNCHANGED userPool
     ELSE Goto(r, "idle", u, NoSession, "done") /\ Put(u, s)
  /\ UNCHANGED userinfo
  /\ Begins(r, {})

RemoveUserInPool(r, u) ==
  /\ Idle(r)
  /\ Goto(r, "idle", u, NoSession, "done")
  /\ userPool' = [userPool EXCEPT ![u] = NoSession]
  /\ UNCHANGED userinfo
  /\ Begins(r, {})

\* Mutants of AfterFirst: the first get not compared with null; compared the other way.
AfterFirstAny(entry) == "second"
AfterFirstInverted(entry) == IF entry = NoSession THEN "second" ELSE "idle"

\* existUserInPollBySession: where the first get leads.
AfterFirst(entry) == IF entry = NoSession THEN "idle" ELSE "second"

ExistFirst(r, u, s) ==
  /\ Idle(r)
  /\ Goto(r, AfterFirst(userPool[u]), u, s, "false")
  /\ UNCHANGED <<userPool, userinfo>>
  /\ Begins(r, {userPool[u]})

Same(entry, s) == entry = s

\* existUserInPollBySession: the entry is fetched again for the comparison.
ExistSecond(r) ==
  /\ call[r].at = "second"
  /\ LET u == call[r].user
         s == call[r].session
     IN  Goto(r, "idle", u, s, IF Same(userPool[u], s) THEN "true" ELSE "false")
  /\ UNCHANGED <<userPool, userinfo>>
  /\ Witness

-----------------------------------------------------------------------------
(* LoginInterceptor, registered by WebConfig for every address but a few. *)

\* The addresses WebConfig excludes do not reach preHandle; of the others it looks at
\* those that contain one of its guarded paths.
PreHandle(r, s, excluded, guarded) ==
  /\ Idle(r)
  /\ UNCHANGED <<userPool, userinfo>>
  /\ IF guarded /\ ~excluded
     THEN Goto(r, "check", call[r].user, s, "none") /\ Begins(r, {userinfo[s]})
     ELSE Goto(r, "idle", call[r].user, NoSession, "passed") /\ Begins(r, {})

\* The map is there, is not empty and has a login name.
LoggedIn(info) == info = "named"

Check(r) ==
  /\ call[r].at = "check"
  /\ LET s == call[r].session
     IN  IF LoggedIn(userinfo[s])
         THEN Goto(r, "idle", call[r].user, s, "handled")
         ELSE Goto(r, "refuse", call[r].user, s, "none")
  /\ UNCHANGED <<userPool, userinfo>>
  /\ Witness

\* Mutant of SessionStatus: the status of a result that has read no session.
SessionStatusZero(info) == "refused0"

\* The constructor of Result reads the session again for its sessionstatus.
SessionStatus(info) == IF info \in {"nameless", "named"} THEN "refused1" ELSE "refused0"

Refuse(r) ==
  /\ call[r].at = "refuse"
  /\ LET s == call[r].session
     IN  Goto(r, "idle", call[r].user, s, SessionStatus(userinfo[s]))
  /\ UNCHANGED <<userPool, userinfo>>
  /\ Witness

-----------------------------------------------------------------------------
\* A login, a logout, or the expiry of a session (its next request gets a new one,
\* which holds nothing): the pool is not told.
SetUserinfo(s, info) ==
  /\ userinfo' = [userinfo EXCEPT ![s] = info]
  /\ UNCHANGED <<userPool, call>>
  /\ Witness

Pool(r) ==
  \/ \E u \in Users : \/ RemoveUserInPool(r, u)
                      \/ \E s \in Registered : ModifyUserInPool(r, u, s) \/ ExistFirst(r, u, s)
  \/ ExistSecond(r)

Interceptor(r) ==
  \/ \E s \in Sessions, excluded \in BOOLEAN, guarded \in BOOLEAN : PreHandle(r, s, excluded, guarded)
  \/ Check(r) \/ Refuse(r)

Next ==
  \/ \E r \in Requests : Pool(r) \/ Interceptor(r)
  \/ \E s \in Sessions, info \in Infos : SetUserinfo(s, info)

Spec == Init /\ [][Next]_vars
-----------------------------------------------------------------------------
\* existUserInPollBySession answers true only for what the user's entry has been while it
\* ran, and for a user it has found in the pool.  (For a map without a session that is
\* both: an entry removed between the two gets makes null equal null.)
TrueWasRegistered ==
  \A r \in Requests :
    Idle(r) /\ call[r].end = "true" => call[r].session \in seen[r] /\ seen[r] \cap Sessions # {}

\* ... and never answers false for a session that has been registered all the while.
SteadySessionConfirmed ==
  \A r \in Requests :
    Idle(r) /\ call[r].end = "false" => ~(call[r].session # NoSession /\ seen[r] = {call[r].session})

\* The refusal, "please log in", is of a session that at a moment of the call named no user,
\* and its session status is that of another: where it says that there is a session, there was
\* one without a login name, or one with a name came or went while the call ran.
RefusalExplained ==
  \A r \in Requests :
    /\ call[r].end = "refused1" =>
         "nameless" \in seen[r] \/ ("named" \in seen[r] /\ seen[r] \cap {"none", "empty"} # {})
    /\ call[r].end = "refused0" => seen[r] \cap {"none", "empty"} # {}
=============================================================================
