---------------------------- MODULE WebSocketPool ----------------------------
(***************************************************************************)
(* WebSocketServer's handlers and the registry in WebSocketUtils that maps *)
(* a user to the session last opened for it.  The registry is a            *)
(* ConcurrentHashMap: one get, put or remove is one step, and the calls    *)
(* that make several of them are split at each.                            *)
(*                                                                         *)
(* The servlet container is external: it runs the handlers of one session  *)
(* one after the other (onOpen, at most one onError, onClose) and those of *)
(* different sessions concurrently.                                        *)
(***************************************************************************)
EXTENDS Naturals

CONSTANTS
  Users,      \* values of the path parameter userId
  Sessions,   \* one connection each
  Threads,    \* application threads that call WebSocketUtils
  UserOf,     \* the userId a connection was opened with
  Null        \* the map has no entry

ASSUME UserOfAssumption == UserOf \in [Sessions -> Users]
ASSUME NullAssumption == Null \notin Sessions

VARIABLES
  clients,    \* the static map of WebSocketUtils
  conn,       \* where each connection stands: its handler's next step or its state
  call,       \* the call each application thread is in, and how its last one ended
  overlapped, \* history: sessions alive together with another one of their user
  steady      \* history: the session of the called user that has been open,
              \* and its only one, since the call of a thread began

vars == <<clients, conn, call, overlapped, steady>>

ConnStates == {"new", "exist", "evict", "put", "open", "closing", "errored", "closed"}
CallSteps  == {"idle", "send2", "sendText", "kick2", "close"}
Outcomes   == {"none", "true", "false", "npe", "dead", "kicked"}

TypeOK ==
  /\ clients \in [Users -> Sessions \cup {Null}]
  /\ conn \in [Sessions -> ConnStates]
  /\ call \in [Threads -> [at : CallSteps, user : Users, got : Sessions \cup {Null},
                           end : Outcomes]]
  /\ overlapped \subseteq Sessions
  /\ steady \in [Threads -> Sessions \cup {Null}]

Init ==
  /\ clients = [u \in Users |-> Null]
  /\ conn = [s \in Sessions |-> "new"]
  /\ call \in [Threads -> {[at |-> "idle", user |-> u, got |-> Null, end |-> "none"] : u \in Users}]
  /\ overlapped = {}
  /\ steady = [t \in Threads |-> Null]

-----------------------------------------------------------------------------
\* A connection is alive from the first step of its onOpen to the end of its onClose.
Alive(s) == conn[s] \notin {"new", "closed"}

Rivals(s) == {r \in Sessions \ {s} : UserOf[r] = UserOf[s] /\ Alive(r)}

\* The steady witness of a call in progress is lost when it stops being open and alone.
KeepSteady ==
  steady' = [t \in Threads |->
               IF call[t].at = "idle" THEN steady[t]
               ELSE IF steady[t] # Null /\ conn'[steady[t]] = "open" /\ steady[t] \notin overlapped'
                    THEN steady[t] ELSE Null]

Step(s, from, to) == conn[s] \in from /\ conn' = [conn EXCEPT ![s] = to]

\* Mutants of Put: the user id stored for the session; an entry never replaced.
PutUser(u, s) == clients' = [clients EXCEPT ![u] = u]
PutIfAbsent(u, s) == clients' = [clients EXCEPT ![u] = IF @ = Null THEN s ELSE @]

Put(u, s) == clients' = [clients EXCEPT ![u] = s]

\* Mutants of Remove: the whole map cleared; nothing removed.
RemoveAll(u) == clients' = [x \in Users |-> Null]
RemoveNothing(u) == UNCHANGED clients

\* remove(userId) takes no session: it removes the entry of the user, not of the session.
Remove(u) == clients' = [clients EXCEPT ![u] = Null]

\* Mutant of AfterExist: the test inverted, so that a first connection is not put.
AfterExistInverted(s) == IF clients[UserOf[s]] # Null THEN "put" ELSE "open"

\* Where add goes from existUser.
AfterExist(s) == IF clients[UserOf[s]] # Null THEN "evict" ELSE "put"

\* The container accepts a connection and enters onOpen.
Connect(s) ==
  /\ Step(s, {"new"}, "exist")
  /\ overlapped' = overlapped \cup Rivals(s) \cup (IF Rivals(s) = {} THEN {} ELSE {s})
  /\ UNCHANGED <<clients, call>>
  /\ KeepSteady

\* add: existUser reads the map; the entry it saw may be gone, or another may be
\* there, when the next step runs.
AddExist(s) ==
  /\ Step(s, {"exist"}, AfterExist(s))
  /\ UNCHANGED <<clients, call, overlapped>>
  /\ KeepSteady

\* add: clients.remove(userId), whichever session is registered by now.
AddEvict(s) ==
  /\ Step(s, {"evict"}, "put")
  /\ Remove(UserOf[s])
  /\ UNCHANGED <<call, overlapped>>
  /\ KeepSteady

\* add: clients.put(userId, session), the end of onOpen.
AddPut(s) ==
  /\ Step(s, {"put"}, "open")
  /\ Put(UserOf[s], s)
  /\ UNCHANGED <<call, overlapped>>
  /\ KeepSteady

\* The peer, or a timeout of the container, closes the connection; onClose has not run yet.
PeerCloses(s) ==
  /\ Step(s, {"open"}, "closing")
  /\ UNCHANGED <<clients, call, overlapped>>
  /\ KeepSteady

\* onError and onClose remove the user's entry; the connection is over after onClose.
OnError(s) ==
  /\ Step(s, {"open", "closing"}, "errored")
  /\ Remove(UserOf[s])
  /\ UNCHANGED <<call, overlapped>>
  /\ KeepSteady

OnClose(s) ==
  /\ Step(s, {"closing", "errored"}, "closed")
  /\ Remove(UserOf[s])
  /\ UNCHANGED <<call, overlapped>>
  /\ KeepSteady

-----------------------------------------------------------------------------
\* The session a steady user is served by when a call begins.
SteadyOf(u) ==
  LET alone == {s \in Sessions : UserOf[s] = u /\ conn[s] = "open" /\ s \notin overlapped}
  IN  IF alone = {} THEN Null ELSE CHOOSE s \in alone : TRUE

\* A thread moves on in its call, or ends it.
Goto(t, step, u, s, end) ==
  call' = [call EXCEPT ![t] = [at |-> step, user |-> u, got |-> s, end |-> end]]

\* The first clients.get of a call: an empty entry ends it, answering false or null.
Begin(t, u, next) ==
  /\ call[t].at = "idle"
  /\ IF clients[u] = Null THEN Goto(t, "idle", u, Null, "false") ELSE Goto(t, next, u, Null, "none")
  /\ steady' = [steady EXCEPT ![t] = SteadyOf(u)]
  /\ UNCHANGED <<clients, conn, overlapped>>

SendMessage(t, u) == Begin(t, u, "send2")
GetSession(t, u)  == Begin(t, u, "kick2")

\* sendMessage: the second get is dereferenced at once.
SendGet(t) ==
  /\ call[t].at = "send2"
  /\ LET u == call[t].user
         s == clients[u]
     IN  IF s = Null THEN Goto(t, "idle", u, Null, "npe") ELSE Goto(t, "sendText", u, s, "none")
  /\ UNCHANGED <<clients, conn, overlapped>>
  /\ KeepSteady

\* sendMessage: the text goes to the session read by SendGet; the container
\* refuses it (IllegalStateException) unless that session is still open.
SendText(t) ==
  /\ call[t].at = "sendText"
  /\ LET s == call[t].got
     IN  Goto(t, "idle", call[t].user, s, IF conn[s] = "open" THEN "true" ELSE "dead")
  /\ UNCHANGED <<clients, conn, overlapped>>
  /\ KeepSteady

\* getSession: the second get is returned, null or not.
KickGet(t) ==
  /\ call[t].at = "kick2"
  /\ Goto(t, "close", call[t].user, clients[call[t].user], "none")
  /\ UNCHANGED <<clients, conn, overlapped>>
  /\ KeepSteady

\* closeSession(session) on what getSession returned; a null is an unhandled exception.
CloseSession(t) ==
  /\ call[t].at = "close"
  /\ LET s == call[t].got
     IN  /\ Goto(t, "idle", call[t].user, s, IF s = Null THEN "npe" ELSE "kicked")
         /\ conn' = [r \in Sessions |-> IF r = s /\ conn[r] = "open" THEN "closing" ELSE conn[r]]
  /\ UNCHANGED <<clients, overlapped>>
  /\ KeepSteady

-----------------------------------------------------------------------------
Add(s) == AddExist(s) \/ AddEvict(s) \/ AddPut(s)

Handler(s) == Connect(s) \/ Add(s) \/ PeerCloses(s) \/ OnError(s) \/ OnClose(s)

Caller(t) ==
  \/ \E u \in Users : SendMessage(t, u) \/ GetSession(t, u)
  \/ SendGet(t) \/ SendText(t) \/ KickGet(t) \/ CloseSession(t)

Next == (\E s \in Sessions : Handler(s)) \/ (\E t \in Threads : Caller(t))

\* The container finishes the handlers it has begun: onOpen runs to its end, and a
\* connection that is closing or has failed gets its onClose.  Nothing obliges a
\* peer to connect or to close, or a thread to call.
Fairness == \A s \in Sessions : WF_vars(Add(s)) /\ WF_vars(OnClose(s))

Spec == Init /\ [][Next]_vars

FairSpec == Spec /\ Fairness
-----------------------------------------------------------------------------
\* The registry never names a session whose onError or onClose has finished, nor one
\* of another user: each session that leaves takes whatever its user has registered
\* with it, so a dead one cannot survive a race between add and remove.
NoGhostSession ==
  \A u \in Users : LET s == clients[u]
                   IN  s # Null => UserOf[s] = u /\ conn[s] \in {"open", "closing"}

\* A connection that never shared its life with another one of its user is found under
\* its user as long as it is open.  (Two that overlap may lose the entry of the survivor:
\* onClose of the older removes the entry of the newer.)
SoleSessionRegistered ==
  \A s \in Sessions : conn[s] = "open" /\ s \notin overlapped => clients[UserOf[s]] = s

\* sendMessage never answers false, and never throws, for a user whose one connection
\* stays open from the call's first read to its end.
SteadyUserReceives ==
  \A t \in Threads :
    call[t].at = "idle" /\ call[t].end \in {"false", "npe", "dead"} => steady[t] = Null

\* Each connection is put into the registry once and leaves it for good.
Life == [s \in Sessions |->
           IF clients[UserOf[s]] = s THEN "registered"
           ELSE IF conn[s] \in {"new", "exist", "evict", "put"} THEN "idle" ELSE "dropped"]

SL == INSTANCE SessionLife WITH life <- Life

ImplementsSessionLife == SL!Spec

\* A connection that comes alone is registered in the end, unless another of its user
\* joins it first.
EventuallyRegistered ==
  \A s \in Sessions : conn[s] = "exist" ~> (clients[UserOf[s]] = s \/ s \in overlapped)

\* Whatever a failed or closing connection left under its user is gone in the end.
EventuallyForgotten ==
  \A s \in Sessions : conn[s] \in {"closing", "errored"} ~> (conn[s] = "closed" /\ clients[UserOf[s]] # s)
=============================================================================
