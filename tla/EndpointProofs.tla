--------------------------- MODULE EndpointProofs ---------------------------
(***************************************************************************)
(* The endpoints of the web application that share something between       *)
(* requests, for any requests, connections and threads.                    *)
(*                                                                         *)
(* The registry of WebSocket sessions: the inductive invariant adds to the *)
(* checked ones that a session outside "overlapped" really is alone        *)
(* (Alone), and what a thread in the middle of a call knows of its steady  *)
(* witness (WitnessFound).                                                 *)
(*                                                                         *)
(* Uploads, for any names, files and times: a file is on disk only under   *)
(* its own path, so what a request reads under a path, and the address it  *)
(* then answers, is of a file that was given that very path.               *)
(***************************************************************************)
EXTENDS WebSocketPool, UploadAddress, SequenceTheorems, TLAPS

-----------------------------------------------------------------------------
(* The registry of WebSocket sessions *)

\* A session never marked as overlapping has no other one of its user alive beside it.
Alone ==
  \A s, r \in Sessions :
    Alive(s) /\ s \notin overlapped /\ r # s /\ UserOf[r] = UserOf[s] => ~Alive(r)

\* The witness of a call in progress is open, alone, of the called user, and is the
\* session the call has read, once it has read one.
WitnessFound ==
  \A t \in Threads :
    call[t].at # "idle" /\ steady[t] # Null =>
      /\ conn[steady[t]] = "open" /\ steady[t] \notin overlapped
      /\ UserOf[steady[t]] = call[t].user
      /\ call[t].at \in {"sendText", "close"} => call[t].got = steady[t]

\* A thread about to hand over a text holds a session.
TextHasSession == \A t \in Threads : call[t].at = "sendText" => call[t].got \in Sessions

Registry == TypeOK /\ NoGhostSession /\ Alone /\ SoleSessionRegistered

Calls == WitnessFound /\ TextHasSession /\ SteadyUserReceives

IInv == Registry /\ Calls

USE DEF ConnStates, CallSteps, Outcomes

-----------------------------------------------------------------------------
\* What SteadyOf returns: an open, lone session of the user, or Null.
LEMMA SteadyOfSpec ==
  ASSUME NEW u \in Users
  PROVE  \/ SteadyOf(u) = Null
         \/ /\ SteadyOf(u) \in Sessions /\ UserOf[SteadyOf(u)] = u
            /\ conn[SteadyOf(u)] = "open" /\ SteadyOf(u) \notin overlapped
<1> DEFINE alone == {s \in Sessions : UserOf[s] = u /\ conn[s] = "open" /\ s \notin overlapped}
<1>1. CASE alone = {}
  BY <1>1 DEF SteadyOf
<1>2. CASE alone # {}
  <2>1. (CHOOSE s \in alone : TRUE) \in alone
    BY <1>2
  <2> QED
    BY <1>2, <2>1 DEF SteadyOf
<1> QED
  BY <1>1, <1>2

LEMMA InitIInv == Init => IInv
<1> SUFFICES ASSUME Init PROVE IInv
  OBVIOUS
<1>1. TypeOK
  BY DEF Init, TypeOK
<1>2. NoGhostSession /\ Alone /\ SoleSessionRegistered
  BY UserOfAssumption DEF Init, NoGhostSession, Alone, Alive, SoleSessionRegistered
<1>3. Calls
  BY DEF Init, Calls, WitnessFound, TextHasSession, SteadyUserReceives
<1> QED
  BY <1>1, <1>2, <1>3 DEF IInv, Registry

\* The steps that move threads only keep the registry's part of the invariant.
LEMMA HandlerType ==
  ASSUME TypeOK, NEW s \in Sessions, Handler(s)
  PROVE  TypeOK'
<1>1. UserOf[s] \in Users
  BY UserOfAssumption
<1>2. conn' \in [Sessions -> ConnStates]
  BY DEF TypeOK, Handler, Add, Connect, AddExist, AfterExist, AddEvict, AddPut, PeerCloses,
         OnError, OnClose, Step
<1>3. clients' \in [Users -> Sessions \cup {Null}]
  BY <1>1 DEF TypeOK, Handler, Add, Connect, AddExist, AddEvict, AddPut, PeerCloses, OnError,
              OnClose, Put, Remove
<1>4. overlapped' \subseteq Sessions /\ call' = call
  BY DEF TypeOK, Handler, Add, Connect, AddExist, AddEvict, AddPut, PeerCloses, OnError,
         OnClose, Rivals
<1>5. steady' \in [Threads -> Sessions \cup {Null}]
  <2>1. KeepSteady
    BY DEF Handler, Add, Connect, AddExist, AddEvict, AddPut, PeerCloses, OnError, OnClose
  <2> QED
    BY <2>1 DEF KeepSteady, TypeOK
<1> QED
  BY <1>2, <1>3, <1>4, <1>5 DEF TypeOK

\* A thread only reads the registry.
LEMMA CallerReads ==
  ASSUME NEW t \in Threads, Caller(t)
  PROVE  clients' = clients /\ overlapped' = overlapped
BY DEF Caller, SendMessage, GetSession, Begin, SendGet, SendText, KickGet, CloseSession

LEMMA CallerType ==
  ASSUME TypeOK, NEW t \in Threads, Caller(t)
  PROVE  TypeOK'
<1>1. conn' \in [Sessions -> ConnStates]
  BY DEF Caller, SendMessage, GetSession, Begin, SendGet, SendText, KickGet, CloseSession, TypeOK
<1>2. /\ call' \in [Threads -> [at : CallSteps, user : Users, got : Sessions \cup {Null},
                                end : Outcomes]]
      /\ steady' \in [Threads -> Sessions \cup {Null}]
  <2>1. ASSUME NEW u \in Users, NEW next \in {"send2", "kick2"}, Begin(t, u, next)
        PROVE  <1>2
    <3>1. SteadyOf(u) \in Sessions \cup {Null}
      BY SteadyOfSpec
    <3>2. steady' \in [Threads -> Sessions \cup {Null}]
      BY <2>1, <3>1 DEF Begin, TypeOK
    <3>3. call' \in [Threads -> [at : CallSteps, user : Users, got : Sessions \cup {Null},
                                 end : Outcomes]]
      BY <2>1 DEF Begin, Goto, TypeOK
    <3> QED
      BY <3>2, <3>3
  <2>2. CASE SendGet(t)
    BY <2>2 DEF SendGet, Goto, TypeOK, KeepSteady
  <2>3. CASE SendText(t)
    BY <2>3 DEF SendText, Goto, TypeOK, KeepSteady
  <2>4. CASE KickGet(t)
    BY <2>4 DEF KickGet, Goto, TypeOK, KeepSteady
  <2>5. CASE CloseSession(t)
    BY <2>5 DEF CloseSession, Goto, TypeOK, KeepSteady
  <2> QED
    BY <2>1, <2>2, <2>3, <2>4, <2>5 DEF Caller, SendMessage, GetSession
<1> QED
  BY <1>1, <1>2, CallerReads DEF TypeOK
-----------------------------------------------------------------------------
LEMMA HandlerRegistry ==
  ASSUME Registry, NEW s \in Sessions, Handler(s)
  PROVE  NoGhostSession' /\ Alone' /\ SoleSessionRegistered'
<1> USE UserOfAssumption, NullAssumption DEF Registry, TypeOK, Step
<1>1. CASE Connect(s)
  <2>1. NoGhostSession'
    BY <1>1 DEF Connect, NoGhostSession
  <2>2. Alone'
    BY <1>1 DEF Connect, Alone, Alive, Rivals
  <2>3. SoleSessionRegistered'
    BY <1>1 DEF Connect, SoleSessionRegistered
  <2> QED
    BY <2>1, <2>2, <2>3
<1>2. CASE AddExist(s)
  BY <1>2 DEF AddExist, AfterExist, NoGhostSession, Alone, Alive, SoleSessionRegistered
<1>3. CASE AddEvict(s)
  BY <1>3 DEF AddEvict, Remove, NoGhostSession, Alone, Alive, SoleSessionRegistered
<1>4. CASE AddPut(s)
  BY <1>4 DEF AddPut, Put, NoGhostSession, Alone, Alive, SoleSessionRegistered
<1>5. CASE PeerCloses(s)
  BY <1>5 DEF PeerCloses, NoGhostSession, Alone, Alive, SoleSessionRegistered
<1>6. CASE OnError(s)
  BY <1>6 DEF OnError, Remove, NoGhostSession, Alone, Alive, SoleSessionRegistered
<1>7. CASE OnClose(s)
  BY <1>7 DEF OnClose, Remove, NoGhostSession, Alone, Alive, SoleSessionRegistered
<1> QED
  BY <1>1, <1>2, <1>3, <1>4, <1>5, <1>6, <1>7 DEF Handler, Add

\* A thread can at most turn an open connection into a closing one.
LEMMA CallerRegistry ==
  ASSUME Registry, NEW t \in Threads, Caller(t)
  PROVE  NoGhostSession' /\ Alone' /\ SoleSessionRegistered'
<1>1. \A s \in Sessions : conn'[s] = conn[s] \/ (conn[s] = "open" /\ conn'[s] = "closing")
  BY DEF Caller, SendMessage, GetSession, Begin, SendGet, SendText, KickGet, CloseSession
<1> QED
  BY <1>1, CallerReads, UserOfAssumption, NullAssumption
  DEF Registry, TypeOK, NoGhostSession, Alone, Alive, SoleSessionRegistered

\* The type invariant and the registry's part of the invariant are kept by every step.
LEMMA RegistryNext == Registry /\ [Next]_vars => Registry'
<1> SUFFICES ASSUME Registry, [Next]_vars PROVE Registry'
  OBVIOUS
<1>1. ASSUME NEW s \in Sessions, Handler(s) PROVE Registry'
  BY <1>1, HandlerType, HandlerRegistry DEF Registry
<1>2. ASSUME NEW t \in Threads, Caller(t) PROVE Registry'
  BY <1>2, CallerType, CallerRegistry DEF Registry
<1>3. CASE UNCHANGED vars
  BY <1>3 DEF vars, Registry, TypeOK, NoGhostSession, Alone, Alive, SoleSessionRegistered
<1> QED
  BY <1>1, <1>2, <1>3 DEF Next
-----------------------------------------------------------------------------
\* What a step that goes through KeepSteady leaves of a witness: it was one before, and
\* is still open and alone.
LEMMA KeptWitness ==
  ASSUME TypeOK, KeepSteady, NEW t \in Threads, call[t].at # "idle", steady'[t] # Null
  PROVE  /\ steady'[t] = steady[t] /\ steady[t] # Null
         /\ conn'[steady'[t]] = "open" /\ steady'[t] \notin overlapped'
BY DEF TypeOK, KeepSteady

LEMMA HandlerCalls ==
  ASSUME TypeOK, Calls, NEW s \in Sessions, Handler(s)
  PROVE  Calls'
<1>1. call' = call /\ KeepSteady
  BY DEF Handler, Add, Connect, AddExist, AddEvict, AddPut, PeerCloses, OnError, OnClose
<1>2. WitnessFound'
  BY <1>1, KeptWitness DEF Calls, WitnessFound
<1>3. TextHasSession'
  BY <1>1 DEF Calls, TextHasSession
<1>4. SteadyUserReceives'
  BY <1>1 DEF Calls, SteadyUserReceives, KeepSteady, TypeOK
<1> QED
  BY <1>2, <1>3, <1>4 DEF Calls

\* A call that begins on an empty entry begins without a witness.
LEMMA BeginCalls ==
  ASSUME Registry, Calls, NEW t \in Threads, NEW u \in Users,
         NEW next \in {"send2", "kick2"}, Begin(t, u, next)
  PROVE  Calls'
<1> USE NullAssumption DEF Registry, TypeOK
<1>1. /\ \A x \in Threads \ {t} : call'[x] = call[x] /\ steady'[x] = steady[x]
      /\ call'[t].user = u /\ call'[t].got = Null /\ steady'[t] = SteadyOf(u)
      /\ IF clients[u] = Null THEN call'[t].at = "idle" ELSE call'[t].at = next
      /\ call'[t].at = "idle" => clients[u] = Null
      /\ UNCHANGED <<clients, conn, overlapped>>
  BY DEF Begin, Goto
<1>2. clients[u] = Null => SteadyOf(u) = Null
  BY SteadyOfSpec DEF SoleSessionRegistered
<1>3. WitnessFound'
  BY <1>1, <1>2, SteadyOfSpec DEF Calls, WitnessFound
<1>4. TextHasSession'
  BY <1>1 DEF Calls, TextHasSession
<1>5. SteadyUserReceives'
  BY <1>1, <1>2 DEF Calls, SteadyUserReceives
<1> QED
  BY <1>3, <1>4, <1>5 DEF Calls

\* The rest of a call: its witness is what the second get finds, so that neither the
\* get nor the send can fail while the witness lasts.
LEMMA CallerCalls ==
  ASSUME Registry, Calls, NEW t \in Threads,
         SendGet(t) \/ SendText(t) \/ KickGet(t) \/ CloseSession(t)
  PROVE  Calls'
<1> USE NullAssumption DEF Registry, TypeOK
<1>1. /\ \A x \in Threads \ {t} : call'[x] = call[x]
      /\ call'[t].user = call[t].user /\ call[t].at # "idle" /\ KeepSteady
  BY DEF SendGet, SendText, KickGet, CloseSession, Goto
<1>2. steady'[t] # Null => clients[call[t].user] = steady[t]
  BY <1>1, KeptWitness DEF Calls, WitnessFound, SoleSessionRegistered
<1>3. WitnessFound'
  <2> SUFFICES ASSUME NEW x \in Threads, call'[x].at # "idle", steady'[x] # Null
               PROVE  /\ conn'[steady'[x]] = "open" /\ steady'[x] \notin overlapped'
                      /\ UserOf[steady'[x]] = call'[x].user
                      /\ call'[x].at \in {"sendText", "close"} => call'[x].got = steady'[x]
    BY DEF WitnessFound
  <2>1. call[x].at # "idle"
    BY <1>1
  <2>2. /\ steady'[x] = steady[x] /\ steady[x] # Null
        /\ conn'[steady'[x]] = "open" /\ steady'[x] \notin overlapped'
    BY <1>1, <2>1, KeptWitness
  <2>3. UserOf[steady'[x]] = call'[x].user
    BY <1>1, <2>1, <2>2 DEF Calls, WitnessFound
  <2>4. ASSUME call'[x].at \in {"sendText", "close"} PROVE call'[x].got = steady'[x]
    <3>1. CASE x # t
      BY <1>1, <2>1, <2>2, <2>4, <3>1 DEF Calls, WitnessFound
    <3>2. CASE x = t
      BY <1>1, <1>2, <2>2, <2>4, <3>2 DEF SendGet, SendText, KickGet, CloseSession, Goto
    <3> QED
      BY <3>1, <3>2
  <2> QED
    BY <2>2, <2>3, <2>4
<1>4. TextHasSession'
  BY <1>1 DEF Calls, TextHasSession, SendGet, SendText, KickGet, CloseSession, Goto
<1>5. SteadyUserReceives'
  <2>1. ASSUME steady'[t] # Null, call'[t].at = "idle"
        PROVE  call'[t].end \notin {"false", "npe", "dead"}
    <3>1. /\ steady[t] # Null /\ steady[t] = steady'[t] /\ steady[t] \in Sessions
          /\ conn'[steady[t]] = "open" /\ clients[call[t].user] = steady[t]
      BY <1>1, <1>2, <2>1, KeptWitness
    <3>2. call[t].at \in {"sendText", "close"} => call[t].got = steady[t]
      BY <1>1, <3>1 DEF Calls, WitnessFound
    <3> QED
      BY <2>1, <3>1, <3>2 DEF SendGet, SendText, KickGet, CloseSession, Goto
  <2>2. ASSUME NEW x \in Threads \ {t}, call[x].at = "idle" PROVE steady'[x] = steady[x]
    BY <1>1, <2>2 DEF KeepSteady
  <2> QED
    BY <1>1, <2>1, <2>2 DEF Calls, SteadyUserReceives
<1> QED
  BY <1>3, <1>4, <1>5 DEF Calls

LEMMA NextIInv == IInv /\ [Next]_vars => IInv'
<1> SUFFICES ASSUME IInv, [Next]_vars PROVE IInv'
  OBVIOUS
<1>1. Registry'
  BY RegistryNext DEF IInv
<1>2. ASSUME NEW s \in Sessions, Handler(s) PROVE Calls'
  BY <1>2, HandlerCalls DEF IInv, Registry
<1>3. ASSUME NEW t \in Threads, Caller(t) PROVE Calls'
  <2>1. ASSUME NEW u \in Users, SendMessage(t, u) PROVE Calls'
    BY <2>1, BeginCalls DEF IInv, SendMessage
  <2>2. ASSUME NEW u \in Users, GetSession(t, u) PROVE Calls'
    BY <2>2, BeginCalls DEF IInv, GetSession
  <2>3. CASE SendGet(t) \/ SendText(t) \/ KickGet(t) \/ CloseSession(t)
    BY <2>3, CallerCalls DEF IInv
  <2> QED
    BY <1>3, <2>1, <2>2, <2>3 DEF Caller
<1>4. ASSUME UNCHANGED vars PROVE Calls'
  BY <1>4 DEF IInv, vars, Calls, WitnessFound, TextHasSession, SteadyUserReceives
<1> QED
  BY <1>1, <1>2, <1>3, <1>4 DEF IInv, Next

\* The strengthened invariant holds of every behaviour of the handlers and the callers.
THEOREM Invariance == Spec => []IInv
BY InitIInv, NextIInv, PTL DEF Spec

\* The registry, the connections and the calls keep their types.
THEOREM TypeCorrect == Spec => []TypeOK
<1>1. IInv => TypeOK
  BY DEF IInv, Registry
<1> QED
  BY <1>1, Invariance, PTL

\* No dead session, and none of another user, is ever found in the registry.
THEOREM NoGhost == Spec => []NoGhostSession
<1>1. IInv => NoGhostSession
  BY DEF IInv, Registry
<1> QED
  BY <1>1, Invariance, PTL

\* A user is missing from the registry only if its connections overlapped.
THEOREM SoleRegistered == Spec => []SoleSessionRegistered
<1>1. IInv => SoleSessionRegistered
  BY DEF IInv, Registry
<1> QED
  BY <1>1, Invariance, PTL

\* sendMessage cannot fail for a user with one connection that stays open during the call.
THEOREM SteadyReceives == Spec => []SteadyUserReceives
<1>1. IInv => SteadyUserReceives
  BY DEF IInv, Calls
<1> QED
  BY <1>1, Invariance, PTL
-----------------------------------------------------------------------------
\* A handler step registers an idle session, drops a registered one, or changes no life.
LEMMA HandlerLife ==
  ASSUME Registry, NEW s \in Sessions, Handler(s)
  PROVE  SL!Next \/ UNCHANGED Life
<1> USE UserOfAssumption, NullAssumption DEF Registry, TypeOK
<1>1. CASE Connect(s) \/ AddExist(s) \/ PeerCloses(s)
  <2>1. clients' = clients
    BY <1>1 DEF Connect, AddExist, PeerCloses
  <2>2. \A x \in Sessions : (conn'[x] \in {"new", "exist", "evict", "put"})
                              <=> (conn[x] \in {"new", "exist", "evict", "put"})
    BY <1>1 DEF Connect, AddExist, PeerCloses, Step, AfterExist
  <2> QED
    BY <2>1, <2>2 DEF Life
<1>2. CASE AddPut(s)
  <2>1. SL!Register(s)
    <3>1. Life[s] = "idle"
      BY <1>2 DEF AddPut, Step, Life, NoGhostSession
    <3>2. \A x \in Sessions :
            Life'[x] = IF x = s THEN "registered"
                       ELSE IF UserOf[x] = UserOf[s] /\ Life[x] = "registered"
                            THEN "dropped" ELSE Life[x]
      BY <1>2 DEF AddPut, Put, Step, Life, NoGhostSession
    <3>3. Life' = [x \in Sessions |-> Life'[x]]
      BY DEF Life
    <3> QED
      BY <3>1, <3>2, <3>3 DEF SL!Register
  <2> QED
    BY <2>1 DEF SL!Next
<1>3. CASE AddEvict(s) \/ OnError(s) \/ OnClose(s)
  <2>1. clients' = [clients EXCEPT ![UserOf[s]] = Null]
    BY <1>3 DEF AddEvict, OnError, OnClose, Remove
  <2>2. \A x \in Sessions : (conn'[x] \in {"new", "exist", "evict", "put"})
                              <=> (conn[x] \in {"new", "exist", "evict", "put"})
    BY <1>3 DEF AddEvict, OnError, OnClose, Step
  <2>3. CASE clients[UserOf[s]] = Null
    <3>1. clients' = clients
      BY <2>1, <2>3
    <3> QED
      BY <3>1, <2>2 DEF Life
  <2>4. CASE clients[UserOf[s]] # Null
    <3> DEFINE r == clients[UserOf[s]]
    <3>1. r \in Sessions /\ UserOf[r] = UserOf[s] /\ Life[r] = "registered"
      BY <2>4 DEF Life, NoGhostSession
    <3>2. \A x \in Sessions : Life'[x] = IF x = r THEN "dropped" ELSE Life[x]
      BY <2>1, <2>2, <2>4, <3>1 DEF Life, NoGhostSession
    <3>3. Life' = [Life EXCEPT ![r] = "dropped"]
      BY <3>2 DEF Life
    <3> QED
      BY <3>1, <3>3 DEF SL!Next, SL!Drop
  <2> QED
    BY <2>3, <2>4
<1> QED
  BY <1>1, <1>2, <1>3 DEF Handler, Add

LEMMA CallerLife ==
  ASSUME Registry, NEW t \in Threads, Caller(t)
  PROVE  UNCHANGED Life
<1>1. \A s \in Sessions : conn'[s] = conn[s] \/ (conn[s] = "open" /\ conn'[s] = "closing")
  BY DEF Registry, TypeOK, Caller, SendMessage, GetSession, Begin, SendGet, SendText, KickGet,
         CloseSession
<1> QED
  BY <1>1, CallerReads DEF Life

\* The registry implements SessionLife: in any interleaving a session is put at most
\* once, displaces the one of its user, and never comes back.
THEOREM Refinement == Spec => ImplementsSessionLife
<1>1. Init => SL!Init
  BY UserOfAssumption, NullAssumption DEF Init, SL!Init, Life
<1>2. IInv /\ [Next]_vars => [SL!Next]_Life
  <2> SUFFICES ASSUME IInv, [Next]_vars PROVE SL!Next \/ UNCHANGED Life
    OBVIOUS
  <2>1. CASE UNCHANGED vars
    BY <2>1 DEF vars, Life
  <2> QED
    BY <2>1, HandlerLife, CallerLife DEF IInv, Next
<1> QED
  BY <1>1, <1>2, Invariance, PTL DEF Spec, ImplementsSessionLife, SL!Spec

-----------------------------------------------------------------------------
(* Uploads *)

AtFile == {"store", "storing", "read", "ask"}

\* A request that handles a file has given it a path; of those it has not come to none has one.
Progress ==
  \A r \in Requests :
    /\ Len(results[r]) <= Len(FilesOf[r])
    /\ at[r] \in AtFile => Index(r) \in DOMAIN FilesOf[r] /\ PathNow(r) # Nothing
    /\ at[r] \in {"idle", "file"} =>
         \A k \in DOMAIN FilesOf[r] : k >= Index(r) => filePath[<<r, k>>] = Nothing
    /\ \A k \in DOMAIN FilesOf[r] : k > Index(r) => filePath[<<r, k>>] = Nothing

\* The path of a file has its name.
OwnName == \A r \in Requests : \A k \in DOMAIN FilesOf[r] :
             filePath[<<r, k>>] # Nothing => filePath[<<r, k>>].name = FilesOf[r][k].name

\* A file is found nowhere but under its path.
OwnPath == \A p \in Paths : disk[p] \in Sent => filePath[disk[p]] = p

\* The image read is that of a file with the path the request is at.
ReadPath == \A r \in Requests : at[r] = "ask" => img[r] \in Sent /\ filePath[img[r]] = PathNow(r)

\* The address of a result is of a file with the path of the file it is given for.
SamePath ==
  \A r \in Requests : \A k \in DOMAIN results[r] :
    results[r][k].of # Nothing =>
      filePath[<<r, k>>] # Nothing /\ filePath[results[r][k].of] = filePath[<<r, k>>]

NamesFollow ==
  \A r \in Requests : \A k \in DOMAIN results[r] : results[r][k].name = FilesOf[r][k].name

UploadInv == /\ UploadTypeOK /\ Progress /\ OwnName /\ OwnPath /\ ReadPath /\ SamePath /\ NamesFollow
        /\ AnswerFollowsRequest

LEMMA SentElements ==
  /\ \A r \in Requests : \A k \in DOMAIN FilesOf[r] : <<r, k>> \in Sent
  /\ \A f \in Sent : f = <<f[1], f[2]>> /\ f[1] \in Requests /\ f[2] \in DOMAIN FilesOf[f[1]]
BY DEF Sent

LEMMA FilesType ==
  ASSUME NEW r \in Requests
  PROVE  /\ FilesOf[r] \in Seq(File) /\ Len(FilesOf[r]) \in Nat
         /\ DOMAIN FilesOf[r] = 1..Len(FilesOf[r])
         /\ \A k \in DOMAIN FilesOf[r] : FilesOf[r][k].name \in Names
<1>1. FilesOf[r] \in Seq(File)
  BY FilesAssumption
<1>2. Len(FilesOf[r]) \in Nat /\ DOMAIN FilesOf[r] = 1..Len(FilesOf[r])
  BY <1>1
<1>3. \A k \in 1..Len(FilesOf[r]) : FilesOf[r][k] \in File
  BY <1>1, ElementOfSeq
<1> QED
  BY <1>1, <1>2, <1>3 DEF File

LEMMA ResultsType ==
  ASSUME UploadTypeOK, NEW r \in Requests
  PROVE  /\ results[r] \in Seq(Results) /\ Len(results[r]) \in Nat
         /\ DOMAIN results[r] = 1..Len(results[r])
         /\ Index(r) \in Nat /\ Index(r) = Len(results[r]) + 1
BY DEF UploadTypeOK, Index

LEMMA UploadInitInv == UploadInit => UploadInv
<1> SUFFICES ASSUME UploadInit PROVE UploadInv
  OBVIOUS
<1>1. UploadTypeOK
  BY MaxTimeAssumption DEF UploadInit, UploadTypeOK, Content, Steps
<1>2. Progress
  <2>1. ASSUME NEW r \in Requests
        PROVE  /\ Len(results[r]) <= Len(FilesOf[r]) /\ at[r] \notin AtFile
               /\ \A k \in DOMAIN FilesOf[r] : filePath[<<r, k>>] = Nothing
    BY SentElements, FilesType DEF UploadInit, AtFile
  <2> QED
    BY <2>1, Zenon DEF Progress
<1>3. OwnName /\ OwnPath /\ ReadPath /\ SamePath /\ NamesFollow /\ AnswerFollowsRequest
  BY SentElements, ContentAssumption
     DEF UploadInit, OwnName, OwnPath, ReadPath, SamePath, NamesFollow, AnswerFollowsRequest
<1> QED
  BY <1>1, <1>2, <1>3 DEF UploadInv

-----------------------------------------------------------------------------
\* A step that adds a result for the file its request is at, and touches nothing else but
\* where the request goes on.
LEMMA RecordedEffect ==
  ASSUME UploadInv, NEW r \in Requests, Index(r) \in DOMAIN FilesOf[r],
         NEW says \in {"address", "unknown", "noGps", "uploadFailed"},
         NEW f \in Sent \cup {Nothing}, Recorded(r, says, f)
  PROVE  /\ results' \in [Requests -> Seq(Results)]
         /\ \A q \in Requests \ {r} : results'[q] = results[q]
         /\ Len(results'[r]) = Index(r) /\ DOMAIN results'[r] = 1..Index(r)
         /\ \A k \in DOMAIN results[r] : results'[r][k] = results[r][k]
         /\ results'[r][Index(r)].of = f
         /\ results'[r][Index(r)].name = FilesOf[r][Index(r)].name
<1> DEFINE new == [name |-> Current(r).name, says |-> says, of |-> f]
<1>1. new \in Results
  BY FilesType DEF Results, Current
<1>2. /\ results[r] \in Seq(Results) /\ Len(results[r]) \in Nat
      /\ DOMAIN results[r] = 1..Len(results[r]) /\ Index(r) = Len(results[r]) + 1
  BY ResultsType DEF UploadInv
<1>3. /\ Append(results[r], new) \in Seq(Results)
      /\ Len(Append(results[r], new)) = Len(results[r]) + 1
      /\ \A k \in 1..Len(results[r]) : Append(results[r], new)[k] = results[r][k]
      /\ Append(results[r], new)[Len(results[r]) + 1] = new
  BY <1>1, <1>2, AppendProperties
<1>4. results' = [results EXCEPT ![r] = Append(results[r], new)]
  BY DEF Recorded
<1>5. results \in [Requests -> Seq(Results)]
  BY DEF UploadInv, UploadTypeOK
<1>6. results'[r] = Append(results[r], new) /\ new.of = f /\ new.name = FilesOf[r][Index(r)].name
  BY <1>4, <1>5 DEF Current
<1> HIDE DEF new
<1>7. DOMAIN results'[r] = 1..Index(r)
  BY <1>2, <1>3, <1>6
<1> QED
  BY <1>2, <1>3, <1>4, <1>5, <1>6, <1>7

LEMMA RecordedInv ==
  ASSUME UploadInv, NEW r \in Requests, Index(r) \in DOMAIN FilesOf[r],
         NEW says \in {"address", "unknown", "noGps", "uploadFailed"},
         NEW f \in Sent \cup {Nothing}, Recorded(r, says, f),
         f # Nothing => filePath[f] = PathNow(r) /\ PathNow(r) # Nothing,
         at' = [at EXCEPT ![r] = "file"], UNCHANGED <<now, disk, filePath, img>>
  PROVE  UploadInv'
<1>1. /\ results' \in [Requests -> Seq(Results)]
      /\ \A q \in Requests \ {r} : results'[q] = results[q]
      /\ Len(results'[r]) = Index(r) /\ DOMAIN results'[r] = 1..Index(r)
      /\ \A k \in DOMAIN results[r] : results'[r][k] = results[r][k]
      /\ results'[r][Index(r)].of = f
      /\ results'[r][Index(r)].name = FilesOf[r][Index(r)].name
  BY RecordedEffect
<1>2. /\ at'[r] = "file" /\ \A q \in Requests \ {r} : at'[q] = at[q]
      /\ at' \in [Requests -> Steps]
  BY DEF UploadInv, UploadTypeOK, Steps
<1>3. /\ DOMAIN results[r] = 1..Len(results[r]) /\ Len(results[r]) \in Nat
      /\ Index(r) = Len(results[r]) + 1 /\ Index(r) \in Nat
  BY ResultsType DEF UploadInv
<1>4. \A q \in Requests \ {r} : Index(q)' = Index(q) /\ PathNow(q)' = PathNow(q)
  BY <1>1 DEF Index, PathNow
<1>5. Index(r)' = Index(r) + 1
  BY <1>1 DEF Index
<1>6. UploadTypeOK'
  BY <1>1, <1>2 DEF UploadInv, UploadTypeOK
<1>7. Progress'
  <2>1. ASSUME NEW q \in Requests \ {r}
        PROVE  /\ Len(results'[q]) <= Len(FilesOf[q])
               /\ at'[q] \in AtFile => Index(q)' \in DOMAIN FilesOf[q] /\ PathNow(q)' # Nothing
               /\ at'[q] \in {"idle", "file"} =>
                    \A k \in DOMAIN FilesOf[q] : k >= Index(q)' => filePath'[<<q, k>>] = Nothing
               /\ \A k \in DOMAIN FilesOf[q] : k > Index(q)' => filePath'[<<q, k>>] = Nothing
    BY <1>1, <1>2, <1>4 DEF UploadInv, Progress
  <2>2. /\ Len(results'[r]) <= Len(FilesOf[r])
        /\ at'[r] \notin AtFile
        /\ \A k \in DOMAIN FilesOf[r] : k >= Index(r)' => filePath'[<<r, k>>] = Nothing
        /\ \A k \in DOMAIN FilesOf[r] : k > Index(r)' => filePath'[<<r, k>>] = Nothing
    BY <1>1, <1>2, <1>3, <1>5, FilesType DEF UploadInv, Progress, AtFile
  <2> QED
    BY <2>1, <2>2, Zenon DEF Progress
<1>8. OwnName' /\ OwnPath'
  BY DEF UploadInv, OwnName, OwnPath
<1>9. ReadPath'
  BY <1>2, <1>4 DEF UploadInv, ReadPath
<1>10. SamePath'
  <2>1. filePath' = filePath /\ filePath[<<r, Index(r)>>] = PathNow(r)
    BY DEF PathNow
  <2>2. ASSUME NEW q \in Requests \ {r}, NEW k \in DOMAIN results'[q], results'[q][k].of # Nothing
        PROVE  filePath[<<q, k>>] # Nothing /\ filePath[results'[q][k].of] = filePath[<<q, k>>]
    BY <1>1, <2>2 DEF UploadInv, SamePath
  <2>3. ASSUME NEW k \in DOMAIN results'[r], results'[r][k].of # Nothing
        PROVE  filePath[<<r, k>>] # Nothing /\ filePath[results'[r][k].of] = filePath[<<r, k>>]
    <3>1. CASE k = Index(r)
      BY <1>1, <2>1, <2>3, <3>1
    <3>2. CASE k \in DOMAIN results[r]
      BY <1>1, <2>3, <3>2 DEF UploadInv, SamePath
    <3> QED
      BY <1>1, <1>3, <3>1, <3>2
  <2> QED
    BY <2>1, <2>2, <2>3, Zenon DEF SamePath
<1>11. NamesFollow'
  <2>1. ASSUME NEW q \in Requests \ {r}, NEW k \in DOMAIN results'[q]
        PROVE  results'[q][k].name = FilesOf[q][k].name
    BY <1>1 DEF UploadInv, NamesFollow
  <2>2. ASSUME NEW k \in DOMAIN results'[r]
        PROVE  results'[r][k].name = FilesOf[r][k].name
    <3>1. CASE k = Index(r)
      BY <1>1, <3>1
    <3>2. CASE k \in DOMAIN results[r]
      BY <1>1, <3>2 DEF UploadInv, NamesFollow
    <3> QED
      BY <1>1, <1>3, <3>1, <3>2
  <2> QED
    BY <2>1, <2>2, Zenon DEF NamesFollow
<1>12. AnswerFollowsRequest'
  BY <1>1, <1>2 DEF UploadInv, AnswerFollowsRequest
<1> QED
  BY <1>6, <1>7, <1>8, <1>9, <1>10, <1>11, <1>12 DEF UploadInv

-----------------------------------------------------------------------------
\* A step that leaves the results and the paths alone.
LEMMA QuietInv ==
  ASSUME UploadInv, UploadTypeOK', UNCHANGED <<filePath, results>>,
         OwnPath', ReadPath',
         \A r \in Requests :
           \/ at'[r] = at[r]
           \/ at'[r] = "failed"
           \/ at[r] = "idle" /\ at'[r] = "file"
           \/ at[r] \in AtFile /\ at'[r] \in AtFile
           \/ at[r] = "file" /\ at'[r] = "answered" /\ AllDone(r)
  PROVE  UploadInv'
<1>1. filePath' = filePath /\ results' = results
  OBVIOUS
<1>2. Progress'
  <2>1. ASSUME NEW r \in Requests
        PROVE  /\ at'[r] \in AtFile => at[r] \in AtFile
               /\ at'[r] \in {"idle", "file"} => at[r] \in {"idle", "file"}
    BY DEF AtFile
  <2> QED
    BY <1>1, <2>1 DEF UploadInv, Progress, Index, PathNow
<1>3. OwnName' /\ SamePath' /\ NamesFollow'
  BY <1>1 DEF UploadInv, OwnName, SamePath, NamesFollow
<1>4. AnswerFollowsRequest'
  <2> SUFFICES ASSUME NEW r \in Requests, at'[r] = "answered"
               PROVE  Len(results[r]) = Len(FilesOf[r])
    BY <1>1 DEF UploadInv, NamesFollow, AnswerFollowsRequest
  <2>1. CASE at[r] = "answered"
    BY <2>1 DEF UploadInv, AnswerFollowsRequest
  <2>2. CASE AllDone(r)
    BY <2>2, ResultsType, FilesType DEF UploadInv, Progress, AllDone
  <2> QED
    BY <2>1, <2>2 DEF AtFile
<1> QED
  BY <1>2, <1>3, <1>4 DEF UploadInv

\* A file gets its path, which no result and no place of the disk refers to yet.
LEMMA ChoosePathInv ==
  ASSUME UploadInv, NEW r \in Requests, ChoosePath(r)
  PROVE  UploadInv'
<1> DEFINE k == Index(r)
           p == NewPath(Current(r).name)
<1>1. k \in DOMAIN FilesOf[r] /\ <<r, k>> \in Sent /\ filePath[<<r, k>>] = Nothing
  <2>1. k \in DOMAIN FilesOf[r]
    BY FilesType, ResultsType DEF UploadInv, ChoosePath, AllDone
  <2> QED
    BY <2>1, SentElements, ResultsType DEF UploadInv, Progress, ChoosePath, Go
<1>2. p \in Paths /\ p # Nothing /\ p.name = FilesOf[r][k].name
  BY <1>1, FilesType, PathsAssumption DEF UploadInv, UploadTypeOK, NewPath, Paths, Current
<1>3. /\ filePath' = [filePath EXCEPT ![<<r, k>>] = p]
      /\ UNCHANGED <<now, disk, img, results>>
      /\ at' = [at EXCEPT ![r] = "store"]
  BY DEF ChoosePath, Go
<1>4. /\ filePath'[<<r, k>>] = p
      /\ \A f \in Sent : filePath[f] # Nothing => filePath'[f] = filePath[f]
      /\ \A f \in Sent : f # <<r, k>> => filePath'[f] = filePath[f]
  BY <1>1, <1>3 DEF UploadInv, UploadTypeOK
<1>5. /\ at'[r] = "store" /\ \A q \in Requests \ {r} : at'[q] = at[q]
      /\ at' \in [Requests -> Steps]
  BY <1>3 DEF UploadInv, UploadTypeOK, Steps
<1> HIDE DEF k, p
<1>6. UploadTypeOK'
  BY <1>1, <1>2, <1>3, <1>5 DEF UploadInv, UploadTypeOK
<1>7. \A q \in Requests : Index(q)' = Index(q)
  BY <1>3 DEF Index
<1>8. Progress'
  <2>1. ASSUME NEW q \in Requests \ {r}
        PROVE  \A i \in DOMAIN FilesOf[q] : filePath'[<<q, i>>] = filePath[<<q, i>>]
    BY <1>4, SentElements
  <2>2. ASSUME NEW q \in Requests \ {r}
        PROVE  /\ Len(results'[q]) <= Len(FilesOf[q])
               /\ at'[q] \in AtFile => Index(q)' \in DOMAIN FilesOf[q] /\ PathNow(q)' # Nothing
               /\ at'[q] \in {"idle", "file"} =>
                    \A i \in DOMAIN FilesOf[q] : i >= Index(q)' => filePath'[<<q, i>>] = Nothing
               /\ \A i \in DOMAIN FilesOf[q] : i > Index(q)' => filePath'[<<q, i>>] = Nothing
    BY <1>3, <1>5, <1>7, <2>1 DEF UploadInv, Progress, PathNow
  <2>3. /\ Len(results'[r]) <= Len(FilesOf[r])
        /\ Index(r)' \in DOMAIN FilesOf[r] /\ PathNow(r)' # Nothing
        /\ at'[r] \notin {"idle", "file"}
    BY <1>1, <1>2, <1>3, <1>4, <1>5, <1>7 DEF UploadInv, Progress, PathNow, k
  <2>4. ASSUME NEW i \in DOMAIN FilesOf[r], i > Index(r)
        PROVE  filePath'[<<r, i>>] = Nothing
    <3>1. <<r, i>> # <<r, k>>
      BY <2>4, FilesType, ResultsType DEF UploadInv, k
    <3> QED
      BY <1>4, <2>4, <3>1, SentElements DEF UploadInv, Progress
  <2> QED
    BY <1>7, <2>2, <2>3, <2>4, Zenon DEF Progress
<1>9. OwnName'
  <2> SUFFICES ASSUME NEW q \in Requests, NEW i \in DOMAIN FilesOf[q], filePath'[<<q, i>>] # Nothing
               PROVE  filePath'[<<q, i>>].name = FilesOf[q][i].name
    BY DEF OwnName
  <2>1. CASE <<q, i>> = <<r, k>>
    BY <1>2, <1>4, <2>1
  <2>2. CASE <<q, i>> # <<r, k>>
    BY <1>4, <2>2, SentElements DEF UploadInv, OwnName
  <2> QED
    BY <2>1, <2>2
<1>10. OwnPath'
  BY <1>3, <1>4, PathsAssumption DEF UploadInv, OwnPath
<1>11. ReadPath'
  <2> SUFFICES ASSUME NEW q \in Requests, at'[q] = "ask"
               PROVE  img[q] \in Sent /\ filePath'[img[q]] = PathNow(q)'
    BY <1>3 DEF ReadPath
  <2>1. /\ q # r /\ at[q] = "ask" /\ PathNow(q) # Nothing /\ <<q, Index(q)>> \in Sent
        /\ img[q] \in Sent /\ filePath[img[q]] = PathNow(q)
    BY <1>5, SentElements DEF UploadInv, Progress, ReadPath, AtFile
  <2> QED
    BY <1>4, <1>7, <2>1 DEF PathNow
<1>12. SamePath'
  <2> SUFFICES ASSUME NEW q \in Requests, NEW i \in DOMAIN results[q], results[q][i].of # Nothing
               PROVE  /\ filePath'[<<q, i>>] # Nothing
                      /\ filePath'[results[q][i].of] = filePath'[<<q, i>>]
    BY <1>3 DEF SamePath
  <2>1. /\ filePath[<<q, i>>] # Nothing /\ filePath[results[q][i].of] = filePath[<<q, i>>]
    BY DEF UploadInv, SamePath
  <2>2. <<q, i>> \in Sent
    BY FilesType, ResultsType, SentElements DEF UploadInv, Progress
  <2>3. results[q][i].of \in Sent
    <3>1. results[q] \in Seq(Results) /\ i \in 1..Len(results[q])
      BY ResultsType DEF UploadInv
    <3>2. results[q][i] \in Results
      BY <3>1, ElementOfSeq
    <3> QED
      BY <3>2 DEF Results
  <2> QED
    BY <1>4, <2>1, <2>2, <2>3
<1>13. NamesFollow' /\ AnswerFollowsRequest'
  BY <1>3, <1>5 DEF UploadInv, NamesFollow, AnswerFollowsRequest
<1> QED
  BY <1>6, <1>8, <1>9, <1>10, <1>11, <1>12, <1>13 DEF UploadInv

-----------------------------------------------------------------------------
\* While a request handles a file, the file is one that was sent and its path is a path.
LEMMA AtFileType ==
  ASSUME UploadInv, NEW r \in Requests, at[r] \in AtFile
  PROVE  /\ Index(r) \in DOMAIN FilesOf[r] /\ <<r, Index(r)>> \in Sent
         /\ PathNow(r) \in Paths /\ filePath[<<r, Index(r)>>] = PathNow(r)
BY SentElements DEF UploadInv, UploadTypeOK, Progress, PathNow

LEMMA UploadNextInv == UploadInv /\ [UploadNext]_uploadVars => UploadInv'
<1> SUFFICES ASSUME UploadInv, [UploadNext]_uploadVars PROVE UploadInv'
  OBVIOUS
<1> USE DEF AtFile
<1>1. ASSUME NEW r \in Requests, GetAddress(r) PROVE UploadInv'
  <2> DEFINE Goes(to) == /\ at'[r] = to /\ \A q \in Requests \ {r} : at'[q] = at[q]
                         /\ at' \in [Requests -> Steps]
  <2>0. ASSUME NEW from \in Steps, NEW to \in Steps, Go(r, from, to) PROVE Goes(to) /\ at[r] = from
    BY <2>0 DEF Go, UploadInv, UploadTypeOK
  <2>1. CASE Receive(r)
    <3>1. Goes("file") /\ at[r] = "idle"
      BY <2>0, <2>1 DEF Receive, Steps
    <3>2. UNCHANGED <<now, disk, filePath, img, results>>
      BY <2>1 DEF Receive
    <3>3. UploadTypeOK' /\ OwnPath' /\ ReadPath'
      BY <3>1, <3>2 DEF UploadInv, UploadTypeOK, OwnPath, ReadPath, PathNow, Index
    <3> QED
      BY <3>1, <3>2, <3>3, QuietInv
  <2>2. CASE EmptyFile(r)
    <3>1. Index(r) \in DOMAIN FilesOf[r]
      BY <2>2, FilesType, ResultsType DEF UploadInv, EmptyFile, AllDone
    <3> QED
      BY <2>2, <3>1, RecordedInv DEF EmptyFile, Go
  <2>3. CASE ChoosePath(r)
    BY <2>3, ChoosePathInv
  <2>4. CASE StoreBegins(r)
    <3>1. Goes("storing") /\ at[r] = "store"
      BY <2>0, <2>4 DEF StoreBegins, Steps
    <3>2. disk' = [disk EXCEPT ![PathNow(r)] = Partial] /\ UNCHANGED <<now, filePath, img, results>>
      BY <2>4 DEF StoreBegins
    <3>3. UploadTypeOK'
      BY <3>1, <3>2, AtFileType DEF UploadInv, UploadTypeOK, Content
    <3>4. OwnPath'
      BY <3>2, ContentAssumption DEF UploadInv, UploadTypeOK, OwnPath
    <3>5. ReadPath'
      BY <3>1, <3>2 DEF UploadInv, ReadPath, PathNow, Index
    <3> QED
      BY <3>1, <3>2, <3>3, <3>4, <3>5, QuietInv
  <2>5. CASE StoreEnds(r)
    <3>1. Goes("read") /\ at[r] = "storing"
      BY <2>0, <2>5 DEF StoreEnds, Steps
    <3>2. /\ disk' = [disk EXCEPT ![PathNow(r)] = <<r, Index(r)>>]
          /\ UNCHANGED <<now, filePath, img, results>>
      BY <2>5 DEF StoreEnds, Stored
    <3>3. UploadTypeOK'
      BY <3>1, <3>2, AtFileType DEF UploadInv, UploadTypeOK, Content
    <3>4. OwnPath'
      BY <3>1, <3>2, AtFileType DEF UploadInv, UploadTypeOK, OwnPath
    <3>5. ReadPath'
      BY <3>1, <3>2 DEF UploadInv, ReadPath, PathNow, Index
    <3> QED
      BY <3>1, <3>2, <3>3, <3>4, <3>5, QuietInv
  <2>6. CASE StoreFails(r)
    <3>1. Goes("read") /\ at[r] \in {"store", "storing"}
      BY <2>6 DEF StoreFails, UploadInv, UploadTypeOK, Steps
    <3>2. UNCHANGED <<now, disk, filePath, img, results>>
      BY <2>6 DEF StoreFails
    <3>3. UploadTypeOK' /\ OwnPath' /\ ReadPath'
      BY <3>1, <3>2 DEF UploadInv, UploadTypeOK, OwnPath, ReadPath, PathNow, Index
    <3> QED
      BY <3>1, <3>2, <3>3, QuietInv
  <2>7. CASE ReadGPS(r)
    <3>1. Goes("ask") /\ at[r] = "read"
      BY <2>0, <2>7 DEF ReadGPS, Steps
    <3>2. /\ img' = [img EXCEPT ![r] = disk[PathNow(r)]] /\ disk[PathNow(r)] \in Sent
          /\ UNCHANGED <<now, disk, filePath, results>>
      BY <2>7 DEF ReadGPS, Readable, Found
    <3>3. UploadTypeOK'
      BY <3>1, <3>2 DEF UploadInv, UploadTypeOK
    <3>4. img'[r] \in Sent /\ filePath[img'[r]] = PathNow(r)
      BY <3>1, <3>2, AtFileType DEF UploadInv, UploadTypeOK, OwnPath
    <3>5. \A q \in Requests \ {r} : img'[q] = img[q]
      BY <3>2 DEF UploadInv, UploadTypeOK
    <3>6. ReadPath'
      BY <3>1, <3>2, <3>4, <3>5 DEF UploadInv, ReadPath, PathNow, Index
    <3>7. OwnPath'
      BY <3>2 DEF UploadInv, OwnPath
    <3> QED
      BY <3>1, <3>2, <3>3, <3>6, <3>7, QuietInv
  <2>8. CASE ReadNoGPS(r)
    <3>1. at[r] = "read"
      BY <2>8 DEF ReadNoGPS, Go
    <3> QED
      BY <2>8, <3>1, AtFileType, RecordedInv DEF ReadNoGPS, Go
  <2>9. CASE ReadFails(r)
    <3>1. Goes("failed") /\ at[r] = "read"
      BY <2>0, <2>9 DEF ReadFails, Steps
    <3>2. UNCHANGED <<now, disk, filePath, img, results>>
      BY <2>9 DEF ReadFails
    <3>3. UploadTypeOK' /\ OwnPath' /\ ReadPath'
      BY <3>1, <3>2 DEF UploadInv, UploadTypeOK, OwnPath, ReadPath, PathNow, Index
    <3> QED
      BY <3>1, <3>2, <3>3, QuietInv
  <2>10. CASE AskMap(r)
    <3>1. at[r] = "ask" /\ UNCHANGED <<now, disk, filePath, img>>
      BY <2>10 DEF AskMap
    <3>2. /\ Index(r) \in DOMAIN FilesOf[r] /\ PathNow(r) # Nothing
          /\ img[r] \in Sent /\ filePath[img[r]] = PathNow(r)
      BY <3>1 DEF UploadInv, Progress, ReadPath
    <3>3. CASE Recorded(r, "address", img[r]) /\ at' = [at EXCEPT ![r] = "file"]
      BY <3>1, <3>2, <3>3, RecordedInv
    <3>4. CASE Recorded(r, "unknown", Nothing) /\ at' = [at EXCEPT ![r] = "file"]
      BY <3>1, <3>2, <3>4, RecordedInv
    <3>5. CASE at' = [at EXCEPT ![r] = "failed"] /\ UNCHANGED results
      <4>1. Goes("failed")
        BY <3>5 DEF UploadInv, UploadTypeOK, Steps
      <4>2. UploadTypeOK' /\ OwnPath' /\ ReadPath'
        BY <3>1, <3>5, <4>1 DEF UploadInv, UploadTypeOK, OwnPath, ReadPath, PathNow, Index
      <4> QED
        BY <3>1, <3>5, <4>1, <4>2, QuietInv
    <3> QED
      BY <2>10, <3>3, <3>4, <3>5 DEF AskMap
  <2>11. CASE Answer(r)
    <3>1. Goes("answered") /\ at[r] = "file"
      BY <2>0, <2>11 DEF Answer, Steps
    <3>2. UNCHANGED <<now, disk, filePath, img, results>> /\ AllDone(r)
      BY <2>11 DEF Answer
    <3>3. UploadTypeOK' /\ OwnPath' /\ ReadPath'
      BY <3>1, <3>2 DEF UploadInv, UploadTypeOK, OwnPath, ReadPath, PathNow, Index
    <3> QED
      BY <3>1, <3>2, <3>3, QuietInv
  <2> QED
    BY <1>1, <2>1, <2>2, <2>3, <2>4, <2>5, <2>6, <2>7, <2>8, <2>9, <2>10, <2>11 DEF GetAddress
<1>2. CASE Tick
  <2>1. UNCHANGED <<disk, at, filePath, img, results>> /\ now' \in 0..MaxTime
    BY <1>2, MaxTimeAssumption DEF Tick, UploadInv, UploadTypeOK
  <2>2. UploadTypeOK' /\ OwnPath' /\ ReadPath'
    BY <2>1 DEF UploadInv, UploadTypeOK, OwnPath, ReadPath, PathNow, Index
  <2> QED
    BY <2>1, <2>2, QuietInv
<1>3. CASE UNCHANGED uploadVars
  <2>1. UNCHANGED <<now, disk, at, filePath, img, results>>
    BY <1>3 DEF uploadVars
  <2>2. UploadTypeOK' /\ OwnPath' /\ ReadPath'
    BY <2>1 DEF UploadInv, UploadTypeOK, OwnPath, ReadPath, PathNow, Index
  <2> QED
    BY <2>1, <2>2, QuietInv
<1> QED
  BY <1>1, <1>2, <1>3 DEF UploadNext

\* The strengthened invariant, for any uploads whose clock stays in its bound.
THEOREM UploadInvariance == UploadSpec => []UploadInv
BY UploadInitInv, UploadNextInv, PTL DEF UploadSpec

\* The directory, the requests and their results keep their types.
THEOREM UploadTypeCorrect == UploadSpec => []UploadTypeOK
<1>1. UploadInv => UploadTypeOK
  BY DEF UploadInv
<1> QED
  BY <1>1, UploadInvariance, PTL

\* Only a file of the same name, stored in the same millisecond, can lend its address.
THEOREM AddressCorrect == UploadSpec => []AddressOfItsImage
<1>1. UploadInv => AddressOfItsImage
  <2> SUFFICES ASSUME UploadInv, NEW r \in Requests, NEW k \in DOMAIN results[r],
                      results[r][k].of \notin {Nothing, <<r, k>>}
               PROVE  LET f == results[r][k].of
                      IN  /\ FilesOf[f[1]][f[2]].name = FilesOf[r][k].name
                          /\ filePath[f].time = filePath[<<r, k>>].time
    BY DEF AddressOfItsImage
  <2> DEFINE f == results[r][k].of
  <2>1. f \in Sent
    <3>1. results[r] \in Seq(Results) /\ k \in 1..Len(results[r])
      BY ResultsType DEF UploadInv
    <3>2. results[r][k] \in Results
      BY <3>1, ElementOfSeq
    <3> QED
      BY <3>2 DEF Results
  <2>2. filePath[<<r, k>>] # Nothing /\ filePath[f] = filePath[<<r, k>>]
    BY DEF UploadInv, SamePath
  <2>3. k \in DOMAIN FilesOf[r]
    BY FilesType, ResultsType DEF UploadInv, Progress
  <2>4. f = <<f[1], f[2]>> /\ f[1] \in Requests /\ f[2] \in DOMAIN FilesOf[f[1]]
    BY <2>1, SentElements
  <2>5. filePath[f].name = FilesOf[f[1]][f[2]].name
    BY <2>2, <2>4 DEF UploadInv, OwnName
  <2> QED
    BY <2>2, <2>3, <2>5 DEF UploadInv, OwnName
<1> QED
  BY <1>1, UploadInvariance, PTL

\* Every answer has a result for each file of its request.
THEOREM AnswerComplete == UploadSpec => []AnswerFollowsRequest
<1>1. UploadInv => AnswerFollowsRequest
  BY DEF UploadInv
<1> QED
  BY <1>1, UploadInvariance, PTL

=============================================================================
