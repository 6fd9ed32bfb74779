----------------------------- MODULE LoginProofs -----------------------------
(***************************************************************************)
(* What logging in relies on: the sessions of the online pool and of the   *)
(* interceptor for any users, sessions and threads, and, in the second     *)
(* part, the login-failure cache for any names, entries, requests and      *)
(* failures.                                                               *)
(*                                                                         *)
(* The invariant of the sessions says what a call can rely on: its history *)
(* holds the present value of what it reads next, a trace of what has      *)
(* decided its way so far, and, once it is over, of what it has answered.  *)
(***************************************************************************)
EXTENDS WebSessions, LoginErrorCache, TLAPS

\* A call in progress knows the present value of what it will read next, and why it goes on.
ProgressInv(r) ==
  /\ call[r].at = "second" =>
       userPool[call[r].user] \in seen[r] /\ (\E s \in Sessions : s \in seen[r])
  /\ call[r].at \in {"check", "refuse"} =>
       call[r].session \in Sessions /\ userinfo[call[r].session] \in seen[r]
  /\ call[r].at = "refuse" => \E i \in seen[r] : i \in Infos \ {"named"}
  /\ ~Idle(r) => call[r].end \in {"none", "false"}

\* The answer of a call that is over agrees with its history.
AnswerInv(r) ==
  Idle(r) =>
    /\ call[r].end = "true" => call[r].session \in seen[r] /\ (\E s \in Sessions : s \in seen[r])
    /\ call[r].end = "false" =>
         call[r].session = NoSession \/ \E e \in seen[r] : e # call[r].session
    /\ call[r].end = "handled" => "named" \in seen[r]
    /\ call[r].end \in {"refused0", "refused1"} => \E i \in seen[r] : i \in Infos \ {"named"}
    /\ call[r].end = "refused1" => \E i \in seen[r] : i \in {"nameless", "named"}
    /\ call[r].end = "refused0" => \E i \in seen[r] : i \in {"none", "empty"}

CallInv(r) == ProgressInv(r) /\ AnswerInv(r)

IInv == TypeOK /\ \A r \in Requests : CallInv(r)

-----------------------------------------------------------------------------
\* No thread is in a call in the beginning.
LEMMA InitIInv == Init => IInv
BY DEF Init, IInv, TypeOK, CallInv, ProgressInv, AnswerInv, Registered, Infos, Steps, Ends, Idle

\* What a call adds to its history has the right type.
LEMMA SeesType ==
  ASSUME IInv, userPool' \in [Users -> Registered], userinfo' \in [Sessions -> Infos], NEW q \in Requests
  PROVE  Sees(q) \subseteq Registered \cup Infos
<1>1. CASE call[q].at = "second"
  BY <1>1 DEF IInv, TypeOK, Sees
<1>2. CASE call[q].at \in {"check", "refuse"}
  BY <1>2 DEF IInv, TypeOK, CallInv, ProgressInv, Sees
<1>3. CASE call[q].at \notin {"second", "check", "refuse"}
  BY <1>3 DEF Sees
<1> QED BY <1>1, <1>2, <1>3

\* A step that keeps the types of the pool, the sessions and the calls keeps all types.
LEMMA HistoryType ==
  ASSUME IInv, userPool' \in [Users -> Registered], userinfo' \in [Sessions -> Infos],
         call' \in [Requests -> [at : Steps, user : Users, session : Registered, end : Ends]],
         NEW r \in Requests, NEW first \in SUBSET (Registered \cup Infos),
         Witness \/ Begins(r, first)
  PROVE  TypeOK'
<1>1. \A q \in Requests : Sees(q) \subseteq Registered \cup Infos
  BY SeesType
<1>2. \A q \in Requests : seen[q] \subseteq Registered \cup Infos
  BY DEF IInv, TypeOK
<1>3. seen' \in [Requests -> SUBSET (Registered \cup Infos)]
  <2>1. CASE Witness
    BY <1>1, <1>2, <2>1 DEF Witness
  <2>2. CASE Begins(r, first)
    BY <1>1, <1>2, <2>2 DEF Begins
  <2> QED BY <2>1, <2>2
<1> QED BY <1>3 DEF TypeOK

\* A call that does not take a step keeps its invariant: whatever changes what it will read
\* adds the new value to its history.
LEMMA Others ==
  ASSUME NEW q \in Requests, CallInv(q), call'[q] = call[q], seen'[q] = seen[q] \cup Sees(q)
  PROVE  CallInv(q)'
<1>1. ProgressInv(q)'
  BY DEF CallInv, ProgressInv, Sees, Idle
<1>2. AnswerInv(q)'
  BY DEF CallInv, AnswerInv, Sees, Idle
<1> QED BY <1>1, <1>2 DEF CallInv

\* The histories of all the threads but one, in every step that begins a call or goes on with it.
LEMMA Histories ==
  ASSUME TypeOK, NEW r \in Requests, NEW first,
         NEW step, NEW u, NEW s, NEW end, Goto(r, step, u, s, end),
         Witness \/ Begins(r, first)
  PROVE  /\ \A q \in Requests \ {r} : call'[q] = call[q] /\ seen'[q] = seen[q] \cup Sees(q)
         /\ call'[r] = [at |-> step, user |-> u, session |-> s, end |-> end]
         /\ Witness => seen'[r] = seen[r] \cup Sees(r)
         /\ Begins(r, first) => seen'[r] = first
BY DEF TypeOK, Goto, Witness, Begins

\* A step of one call preserves the invariant if it leaves that call with its own part of it.
LEMMA StepOfOne ==
  ASSUME IInv, NEW r \in Requests, NEW first \in SUBSET (Registered \cup Infos),
         NEW step \in Steps, NEW u \in Users, NEW s \in Registered, NEW end \in Ends,
         Goto(r, step, u, s, end), Witness \/ Begins(r, first),
         userPool' \in [Users -> Registered], userinfo' \in [Sessions -> Infos],
         CallInv(r)'
  PROVE  IInv'
<1>1. TypeOK
  BY DEF IInv
<1>2. call' \in [Requests -> [at : Steps, user : Users, session : Registered, end : Ends]]
  BY <1>1 DEF TypeOK, Goto
<1>3. TypeOK'
  BY <1>2, HistoryType
<1>4. ASSUME NEW q \in Requests \ {r} PROVE CallInv(q)'
  <2>1. call'[q] = call[q] /\ seen'[q] = seen[q] \cup Sees(q)
    BY <1>1, Histories
  <2> QED BY <2>1, Others DEF IInv
<1> QED BY <1>3, <1>4 DEF IInv

-----------------------------------------------------------------------------
(* One lemma for each action. *)

LEMMA ModifyStep ==
  ASSUME IInv, NEW r \in Requests, NEW u \in Users, NEW s \in Registered, ModifyUserInPool(r, u, s)
  PROVE  IInv'
<1>1. TypeOK
  BY DEF IInv
<1>2. PICK end \in {"throws", "done"} : Goto(r, "idle", u, NoSession, end)
  BY DEF ModifyUserInPool
<1>3. Begins(r, {}) /\ userinfo' = userinfo /\ userPool' \in [Users -> Registered]
  BY <1>1 DEF ModifyUserInPool, Put, TypeOK
<1>4. CallInv(r)'
  <2>1. call'[r].at = "idle" /\ call'[r].end = end
    BY <1>1, <1>2 DEF Goto, TypeOK
  <2> QED BY <2>1 DEF CallInv, ProgressInv, AnswerInv, Idle
<1> QED BY <1>1, <1>2, <1>3, <1>4, StepOfOne DEF Steps, Ends, Registered, TypeOK

LEMMA RemoveStep ==
  ASSUME IInv, NEW r \in Requests, NEW u \in Users, RemoveUserInPool(r, u)
  PROVE  IInv'
<1>1. TypeOK
  BY DEF IInv
<1>2. Goto(r, "idle", u, NoSession, "done") /\ Begins(r, {}) /\ userinfo' = userinfo
  BY DEF RemoveUserInPool
<1>3. userPool' \in [Users -> Registered]
  BY <1>1 DEF RemoveUserInPool, TypeOK, Registered
<1>4. CallInv(r)'
  <2>1. call'[r].at = "idle" /\ call'[r].end = "done"
    BY <1>1, <1>2 DEF Goto, TypeOK
  <2> QED BY <2>1 DEF CallInv, ProgressInv, AnswerInv, Idle
<1> QED BY <1>1, <1>2, <1>3, <1>4, StepOfOne DEF Steps, Ends, Registered, TypeOK

LEMMA ExistFirstStep ==
  ASSUME IInv, NEW r \in Requests, NEW u \in Users, NEW s \in Registered, ExistFirst(r, u, s)
  PROVE  IInv'
<1>1. TypeOK
  BY DEF IInv
<1>2. /\ Goto(r, AfterFirst(userPool[u]), u, s, "false") /\ Begins(r, {userPool[u]})
      /\ userinfo' = userinfo /\ userPool' = userPool
  BY DEF ExistFirst
<1>3. AfterFirst(userPool[u]) \in Steps /\ userPool[u] \in Registered
  BY <1>1 DEF AfterFirst, Steps, TypeOK
<1>4. CallInv(r)'
  <2>1. /\ call'[r] = [at |-> AfterFirst(userPool[u]), user |-> u, session |-> s, end |-> "false"]
        /\ seen'[r] = {userPool[u]}
    BY <1>1, <1>2, Histories
  <2>2. CASE userPool[u] = NoSession
    BY <2>1, <2>2, NoSessionAssumption DEF CallInv, ProgressInv, AnswerInv, Idle, AfterFirst
  <2>3. CASE userPool[u] # NoSession
    <3>1. userPool[u] \in Sessions /\ call'[r].at = "second"
      BY <1>3, <2>1, <2>3 DEF Registered, AfterFirst
    <3> QED BY <1>2, <2>1, <3>1 DEF CallInv, ProgressInv, AnswerInv, Idle
  <2> QED BY <2>2, <2>3
<1> QED BY <1>1, <1>2, <1>3, <1>4, StepOfOne DEF Ends, TypeOK

LEMMA ExistSecondStep ==
  ASSUME IInv, NEW r \in Requests, ExistSecond(r)
  PROVE  IInv'
<1>1. TypeOK /\ ProgressInv(r)
  BY DEF IInv, CallInv
<1> DEFINE u == call[r].user
           s == call[r].session
           end == IF userPool[u] = s THEN "true" ELSE "false"
<1>2. Goto(r, "idle", u, s, end) /\ Witness /\ userinfo' = userinfo /\ userPool' = userPool
  BY DEF ExistSecond, Same
<1>3. u \in Users /\ s \in Registered
  BY <1>1 DEF TypeOK
<1>4. CallInv(r)'
  <2>1. call'[r] = [at |-> "idle", user |-> u, session |-> s, end |-> end]
    BY <1>1, <1>2 DEF Goto, TypeOK
  <2>2. seen[r] \subseteq seen'[r]
    BY <1>1, <1>2 DEF Witness, TypeOK
  <2>3. userPool[u] \in seen[r] /\ (\E x \in Sessions : x \in seen[r])
    BY <1>1 DEF ExistSecond, ProgressInv
  <2> QED BY <2>1, <2>2, <2>3 DEF CallInv, ProgressInv, AnswerInv, Idle
<1> QED BY <1>1, <1>2, <1>3, <1>4, StepOfOne DEF Steps, Ends, TypeOK

LEMMA PreHandleStep ==
  ASSUME IInv, NEW r \in Requests, NEW s \in Sessions, NEW excluded \in BOOLEAN,
         NEW guarded \in BOOLEAN, PreHandle(r, s, excluded, guarded)
  PROVE  IInv'
<1>1. TypeOK /\ call[r].user \in Users /\ userinfo[s] \in Infos
  BY DEF IInv, TypeOK
<1>2. userinfo' = userinfo /\ userPool' = userPool
  BY DEF PreHandle
<1>3. CASE Goto(r, "check", call[r].user, s, "none") /\ Begins(r, {userinfo[s]})
  <2>1. /\ call'[r] = [at |-> "check", user |-> call[r].user, session |-> s, end |-> "none"]
        /\ seen'[r] = {userinfo[s]}
    BY <1>1, <1>3, Histories
  <2>2. CallInv(r)'
    BY <1>2, <2>1 DEF CallInv, ProgressInv, AnswerInv, Idle
  <2> QED BY <1>1, <1>2, <1>3, <2>2, StepOfOne DEF Steps, Ends, Registered, TypeOK
<1>4. CASE Goto(r, "idle", call[r].user, NoSession, "passed") /\ Begins(r, {})
  <2>1. call'[r].at = "idle" /\ call'[r].end = "passed"
    BY <1>1, <1>4 DEF Goto, TypeOK
  <2>2. CallInv(r)'
    BY <2>1 DEF CallInv, ProgressInv, AnswerInv, Idle
  <2> QED BY <1>1, <1>2, <1>4, <2>2, StepOfOne DEF Steps, Ends, Registered, TypeOK
<1> QED BY <1>3, <1>4 DEF PreHandle

LEMMA CheckStep ==
  ASSUME IInv, NEW r \in Requests, Check(r)
  PROVE  IInv'
<1>1. TypeOK /\ ProgressInv(r) /\ call[r].user \in Users
  BY DEF IInv, CallInv, TypeOK
<1> DEFINE s == call[r].session
<1>2. s \in Sessions /\ userinfo[s] \in seen[r]
  BY <1>1 DEF Check, ProgressInv
<1>3. Witness /\ userinfo' = userinfo /\ userPool' = userPool
  BY DEF Check
<1>4. seen[r] \subseteq seen'[r]
  BY <1>1, <1>3 DEF Witness, TypeOK
<1>5. CASE userinfo[s] = "named"
  <2>1. Goto(r, "idle", call[r].user, s, "handled")
    BY <1>5 DEF Check, LoggedIn
  <2>2. call'[r].at = "idle" /\ call'[r].end = "handled"
    BY <1>1, <2>1 DEF Goto, TypeOK
  <2>3. CallInv(r)'
    BY <1>2, <1>4, <1>5, <2>2 DEF CallInv, ProgressInv, AnswerInv, Idle
  <2> QED BY <1>1, <1>2, <1>3, <2>1, <2>3, StepOfOne DEF Steps, Ends, Registered, TypeOK
<1>6. CASE userinfo[s] # "named"
  <2>1. Goto(r, "refuse", call[r].user, s, "none")
    BY <1>6 DEF Check, LoggedIn
  <2>2. call'[r].at = "refuse" /\ call'[r].end = "none" /\ call'[r].session = s
    BY <1>1, <2>1 DEF Goto, TypeOK
  <2>4. userinfo[s] \in Infos \ {"named"}
    BY <1>1, <1>2, <1>6 DEF TypeOK
  <2>3. CallInv(r)'
    BY <1>2, <1>3, <1>4, <2>2, <2>4 DEF CallInv, ProgressInv, AnswerInv, Idle
  <2> QED BY <1>1, <1>2, <1>3, <2>1, <2>3, StepOfOne DEF Steps, Ends, Registered, TypeOK
<1> QED BY <1>5, <1>6

LEMMA RefuseStep ==
  ASSUME IInv, NEW r \in Requests, Refuse(r)
  PROVE  IInv'
<1>1. TypeOK /\ ProgressInv(r) /\ call[r].user \in Users
  BY DEF IInv, CallInv, TypeOK
<1> DEFINE s == call[r].session
           end == SessionStatus(userinfo[s])
<1>2. s \in Sessions /\ userinfo[s] \in seen[r] /\ userinfo[s] \in Infos /\ (\E i \in seen[r] : i \in Infos \ {"named"})
  BY <1>1 DEF Refuse, ProgressInv, TypeOK
<1>3. Witness /\ userinfo' = userinfo /\ userPool' = userPool /\ Goto(r, "idle", call[r].user, s, end)
  BY DEF Refuse
<1>4. seen[r] \subseteq seen'[r]
  BY <1>1, <1>3 DEF Witness, TypeOK
<1>5. call'[r].at = "idle" /\ call'[r].end = end
  BY <1>1, <1>3 DEF Goto, TypeOK
<1>6. CallInv(r)'
  <2>1. CASE userinfo[s] \in {"nameless", "named"}
    BY <1>2, <1>4, <1>5, <2>1 DEF CallInv, ProgressInv, AnswerInv, Idle, SessionStatus
  <2>2. CASE userinfo[s] \in {"none", "empty"}
    BY <1>2, <1>4, <1>5, <2>2 DEF CallInv, ProgressInv, AnswerInv, Idle, SessionStatus
  <2> QED BY <1>2, <2>1, <2>2 DEF Infos
<1> QED BY <1>1, <1>2, <1>3, <1>6, StepOfOne DEF Steps, Ends, Registered, TypeOK, SessionStatus

LEMMA UserinfoStep ==
  ASSUME IInv, NEW s \in Sessions, NEW info \in Infos, SetUserinfo(s, info)
  PROVE  IInv'
<1>1. TypeOK /\ call' = call /\ Witness /\ userPool' = userPool /\ userinfo' \in [Sessions -> Infos]
  BY DEF SetUserinfo, IInv, TypeOK
<1>2. ASSUME NEW q \in Requests PROVE CallInv(q)' /\ TypeOK'
  <2>1. seen'[q] = seen[q] \cup Sees(q)
    BY <1>1 DEF Witness
  <2>2. TypeOK'
    <3>1. /\ userPool' \in [Users -> Registered] /\ {} \in SUBSET (Registered \cup Infos)
          /\ call' \in [Requests -> [at : Steps, user : Users, session : Registered, end : Ends]]
      BY <1>1 DEF TypeOK
    <3> QED BY <1>1, <3>1, HistoryType
  <2> QED BY <1>1, <2>1, <2>2, Others DEF IInv
<1>3. CASE Requests # {}
  BY <1>2, <1>3 DEF IInv
<1>4. CASE Requests = {}
  BY <1>1, <1>4 DEF IInv, TypeOK, Witness
<1> QED BY <1>3, <1>4

LEMMA StutterStep == IInv /\ UNCHANGED vars => IInv'
BY DEF vars, IInv, TypeOK, CallInv, ProgressInv, AnswerInv, Idle

-----------------------------------------------------------------------------
\* The invariant holds in every reachable state, whatever the threads do.
THEOREM Invariance == Spec => []IInv
<1>1. IInv /\ [Next]_vars => IInv'
  BY ModifyStep, RemoveStep, ExistFirstStep, ExistSecondStep, PreHandleStep, CheckStep, RefuseStep,
     UserinfoStep, StutterStep DEF Next, Pool, Interceptor
<1> QED BY <1>1, InitIInv, PTL DEF Spec

\* The pool, the sessions, the calls and their histories keep their types.
THEOREM TypeCorrect == Spec => []TypeOK
<1>1. IInv => TypeOK
  BY DEF IInv
<1> QED BY <1>1, Invariance, PTL

\* existUserInPollBySession answers true only for an entry the user has had meanwhile.
THEOREM TrueRegistered == Spec => []TrueWasRegistered
<1>1. IInv => TrueWasRegistered
  BY DEF IInv, CallInv, AnswerInv, TrueWasRegistered
<1> QED BY <1>1, Invariance, PTL

\* existUserInPollBySession confirms a session that is registered all the while.
THEOREM SteadyConfirmed == Spec => []SteadySessionConfirmed
<1>1. IInv => SteadySessionConfirmed
  BY DEF IInv, CallInv, AnswerInv, SteadySessionConfirmed
<1> QED BY <1>1, Invariance, PTL

\* Who is refused was not logged in at a moment of the call, and the session status of the
\* refusal is that of a moment of the call.
THEOREM Explained == Spec => []RefusalExplained
<1>1. ASSUME IInv, NEW r \in Requests, call[r].end \in {"refused0", "refused1"}
      PROVE  /\ \E i \in seen[r] : i \in {"none", "empty", "nameless"}
             /\ call[r].end = "refused1" => \E i \in seen[r] : i \in {"nameless", "named"}
             /\ call[r].end = "refused0" => \E i \in seen[r] : i \in {"none", "empty"}
  <2>1. Idle(r)
    BY <1>1 DEF IInv, CallInv, ProgressInv
  <2> QED BY <1>1, <2>1 DEF IInv, CallInv, AnswerInv, Infos
<1>2. IInv => RefusalExplained
  BY <1>1 DEF RefusalExplained
<1> QED BY <1>2, Invariance, PTL

-----------------------------------------------------------------------------
(* The login-failure cache. *)

\* A thread past its get holds an entry.
HoldsEntry ==
  \A t \in Threads : request[t].at \in {"addRead", "addWrite", "addPut", "overRead"} =>
                       request[t].got \in Entries

\* Neither a count nor a number read from one and not yet written back exceeds the failures.
CountsBounded ==
  /\ \A e \in Entries : count[e] <= fails[e]
  /\ \A t \in Threads : request[t].at = "addWrite" => request[t].seen <= fails[request[t].got]
  /\ \A t \in Threads : request[t].end = "over" => request[t].got \in Entries

\* A query between its two reads has found its name, which only a removal takes away.
FoundUnlessRemoved ==
  \A t \in Threads : request[t].at \in {"overGet", "limitGet"} =>
    pool[request[t].name] # Null \/ request[t].name \in removed

\* The pool gives out only entries that were dated before they were put there, and bare ones.
DatedUnlessBare ==
  \A n \in Names : pool[n] # Null => date[pool[n]] # Null \/ pool[n] \in bare

\* Nothing refers to an entry before its construction.
OnlyMade ==
  /\ \A n \in Names : pool[n] \in made \cup {Null}
  /\ \A t \in Threads : request[t].entry \in made \cup {Null} /\ request[t].got \in made \cup {Null}

CacheIInv == /\ CacheTypeOK /\ OnlyMade /\ HoldsEntry /\ CountsBounded /\ FoundUnlessRemoved
        /\ DatedUnlessBare /\ NoEarlyLockout /\ QueryThrowsOnlyAfterRemove

USE NullAssumption, BoundsAssumption DEF CacheSteps, CacheEnds, EntryOrNull

LEMMA CacheInitIInv == CacheInit => CacheIInv
BY DEF CacheInit, CacheIInv, CacheTypeOK, OnlyMade, HoldsEntry, CountsBounded, FoundUnlessRemoved, DatedUnlessBare,
       NoEarlyLockout, QueryThrowsOnlyAfterRemove
-----------------------------------------------------------------------------
LEMMA BeginType ==
  ASSUME CacheTypeOK, NEW t \in Threads, NEW op \in CacheSteps, NEW n \in Names, NEW e \in EntryOrNull,
         Begin(t, op, n, e)
  PROVE  CacheTypeOK'
BY DEF CacheTypeOK, Begin

LEMMA RequestType ==
  ASSUME CacheTypeOK, HoldsEntry, NEW t \in Threads,
         ModifyUser(t) \/ RemoveUser(t) \/ AddCount(t) \/ IsOverCount(t) \/ IsOverLimitDate(t)
  PROVE  CacheTypeOK'
<1> USE DEF CacheTypeOK, At
<1>0. ASSUME PutEntry(t)
      PROVE  /\ pool' \in [Names -> EntryOrNull] /\ bare' \subseteq Entries
             /\ End(t, "void") \/ End(t, "npe")
  <2>1. CASE request[t].entry = Null
    BY <1>0, <2>1 DEF PutEntry
  <2>2. CASE request[t].entry # Null
    <3>1. request[t].entry \in Entries
      BY <2>2
    <3> QED BY <1>0, <2>2, <3>1 DEF PutEntry
  <2> QED BY <2>1, <2>2
<1>1. CASE ModifyUser(t)
  BY <1>0, <1>1 DEF ModifyUser, Answer, End
<1>2. CASE RemoveUser(t)
  BY <1>2 DEF RemoveUser, End, Answer
<1>3. CASE AddGet(t)
  BY <1>3 DEF AddGet, Pooled, End, Answer, Continue
<1>4. CASE AddRead(t)
  BY <1>4 DEF AddRead, Continue, HoldsEntry
<1>5. CASE AddWrite(t)
  BY <1>5 DEF AddWrite, Incremented, Continue, HoldsEntry
<1>6. CASE AddPut(t)
  BY <1>0, <1>6 DEF AddPut, End, Answer
<1>7. CASE OverFirst(t)
  BY <1>7 DEF OverFirst, AfterTest, Pooled, End, Answer, Continue
<1>8. CASE OverGet(t)
  BY <1>8 DEF OverGet, Pooled, End, Answer, Continue
<1>9. CASE OverRead(t)
  BY <1>9 DEF OverRead, IsOver, Answer, HoldsEntry
<1>10. CASE LimitFirst(t)
  BY <1>10 DEF LimitFirst, AfterTest, Pooled, End, Answer, Continue
<1>11. CASE LimitGet(t)
  <2>1. PICK e \in EntryOrNull, end \in {"thrown", "past", "notPast"} : Answer(t, e, end)
    BY <1>11 DEF LimitGet, Pooled, End
  <2>2. UNCHANGED <<pool, count, date, made, now, fails, removed, bare>>
    BY <1>11 DEF LimitGet
  <2> QED BY <2>1, <2>2 DEF Answer
<1> QED
  BY <1>1, <1>2, <1>3, <1>4, <1>5, <1>6, <1>7, <1>8, <1>9, <1>10, <1>11
     DEF AddCount, IsOverCount, IsOverLimitDate

\* What a step of a call does to the pool and to the counts, and where it leaves its thread.
RequestEffect(t) ==
  /\ request[t].at # "idle" /\ request'[t].name = request[t].name
  /\ \A x \in Threads \ {t} : request'[x] = request[x]
  /\ removed \subseteq removed' /\ bare \subseteq bare' /\ made' = made /\ date' = date
  /\ request'[t].entry \in made \cup {Null} /\ request'[t].got \in made \cup {Null}
  /\ \A n \in Names : pool'[n] \in made \cup {Null}
  /\ \A n \in Names : pool'[n] = Null => pool[n] = Null \/ n \in removed'
  /\ request[t].at # "addWrite" => UNCHANGED <<count, fails>>
  /\ request'[t].at \in {"addRead", "addWrite", "addPut", "overRead"} => request'[t].got \in Entries
  /\ request'[t].at = "addWrite" => request'[t].seen = count[request'[t].got] /\ request[t].at = "addRead"
  /\ request'[t].at \in {"overGet", "limitGet"} => pool'[request[t].name] # Null
  /\ \A n \in Names : pool'[n] \in {pool[n], Null} \/ date[pool'[n]] # Null \/ pool'[n] \in bare'
  /\ request'[t].end = "thrown" =>
       /\ request[t].at \in {"overGet", "limitGet"}
       /\ \/ pool[request[t].name] = Null
          \/ /\ pool[request[t].name] # Null /\ date[pool[request[t].name]] = Null
             /\ request'[t].got = pool[request[t].name]
  /\ request'[t].end = "over" => /\ request[t].at = "overRead" /\ request'[t].got = request[t].got
                             /\ count[request[t].got] = 5

LEMMA RequestStep ==
  ASSUME CacheIInv, NEW t \in Threads,
         ModifyUser(t) \/ RemoveUser(t) \/ AddCount(t) \/ IsOverCount(t) \/ IsOverLimitDate(t)
  PROVE  RequestEffect(t)
<1> USE DEF CacheIInv, CacheTypeOK, At, RequestEffect, OnlyMade
<1>1. CASE ModifyUser(t)
  BY <1>1 DEF ModifyUser, PutEntry, Answer, End
<1>2. CASE RemoveUser(t)
  BY <1>2 DEF RemoveUser, End, Answer
<1>3. CASE AddGet(t)
  BY <1>3 DEF AddGet, Pooled, End, Answer, Continue
<1>4. CASE AddRead(t)
  BY <1>4 DEF AddRead, Continue, HoldsEntry
<1>5. CASE AddWrite(t)
  BY <1>5 DEF AddWrite, Incremented, Continue, HoldsEntry
<1>6. CASE AddPut(t)
  BY <1>6 DEF AddPut, PutEntry, End, Answer
<1>7. CASE OverFirst(t)
  BY <1>7 DEF OverFirst, AfterTest, Pooled, End, Answer, Continue
<1>8. CASE OverGet(t)
  BY <1>8 DEF OverGet, Pooled, End, Answer, Continue
<1>9. CASE OverRead(t)
  BY <1>9 DEF OverRead, IsOver, Answer, HoldsEntry
<1>10. CASE LimitFirst(t)
  BY <1>10 DEF LimitFirst, AfterTest, Pooled, End, Answer, Continue
<1>11. CASE LimitGet(t)
  BY <1>11 DEF LimitGet, IsPast, Pooled, End, Answer
<1> QED
  BY <1>1, <1>2, <1>3, <1>4, <1>5, <1>6, <1>7, <1>8, <1>9, <1>10, <1>11
     DEF AddCount, IsOverCount, IsOverLimitDate

\* The only step that writes a count.
LEMMA WriteEffect ==
  ASSUME CacheTypeOK, HoldsEntry, NEW t \in Threads, AddWrite(t)
  PROVE  LET e == request[t].got
         IN  /\ e \in Entries /\ request'[t].at = "addPut"
             /\ count' = [count EXCEPT ![e] = request[t].seen + 1]
             /\ fails' = [fails EXCEPT ![e] = fails[e] + 1]
BY DEF CacheTypeOK, HoldsEntry, AddWrite, At, Incremented, Continue

LEMMA RequestInv ==
  ASSUME CacheIInv, NEW t \in Threads,
         ModifyUser(t) \/ RemoveUser(t) \/ AddCount(t) \/ IsOverCount(t) \/ IsOverLimitDate(t)
  PROVE  CacheIInv'
<1>1. CacheTypeOK'
  BY RequestType DEF CacheIInv
<1>2. RequestEffect(t)
  BY RequestStep
<1>3. request[t].at = "addWrite" => AddWrite(t)
  BY DEF ModifyUser, RemoveUser, AddCount, IsOverCount, IsOverLimitDate, AddGet, AddRead, AddPut,
         OverFirst, OverGet, OverRead, LimitFirst, LimitGet, At
<1> USE DEF CacheIInv, CacheTypeOK
<1>10. OnlyMade'
  BY <1>2 DEF RequestEffect, OnlyMade
<1>4. HoldsEntry'
  BY <1>2 DEF RequestEffect, HoldsEntry
<1>5. CountsBounded'
  <2>1. CASE request[t].at = "addWrite"
    <3> DEFINE e == request[t].got
    <3>1. /\ e \in Entries /\ request'[t].at = "addPut" /\ request[t].seen <= fails[e]
          /\ count' = [count EXCEPT ![e] = request[t].seen + 1]
          /\ fails' = [fails EXCEPT ![e] = fails[e] + 1]
      BY <1>3, <2>1, WriteEffect DEF CountsBounded
    <3>2. \A x \in Entries : count'[x] <= fails'[x] /\ fails[x] <= fails'[x]
      BY <3>1 DEF CountsBounded
    <3>3. ASSUME NEW x \in Threads, request'[x].at = "addWrite"
          PROVE  request'[x].seen <= fails'[request'[x].got]
      <4>1. x # t /\ request'[x] = request[x] /\ request[x].got \in Entries
        BY <1>2, <3>1, <3>3 DEF RequestEffect, HoldsEntry
      <4>2. request[x].seen <= fails[request[x].got]
        BY <3>3, <4>1 DEF CountsBounded
      <4>3. fails[request[x].got] <= fails'[request[x].got]
        BY <3>2, <4>1
      <4>4. request[x].seen \in Nat /\ fails[request[x].got] \in Nat /\ fails'[request[x].got] \in Nat
        BY <1>1, <4>1
      <4> QED
        BY <4>1, <4>2, <4>3, <4>4
    <3>4. ASSUME NEW x \in Threads, request'[x].end = "over" PROVE request'[x].got \in Entries
      BY <1>2, <2>1, <3>4 DEF RequestEffect, CountsBounded
    <3> QED
      BY <3>2, <3>3, <3>4 DEF CountsBounded
  <2>2. CASE request[t].at # "addWrite"
    BY <1>2, <2>2 DEF RequestEffect, CountsBounded, HoldsEntry
  <2> QED
    BY <2>1, <2>2
<1>6. FoundUnlessRemoved'
  BY <1>2 DEF RequestEffect, FoundUnlessRemoved
<1>7. DatedUnlessBare'
  BY <1>2 DEF RequestEffect, DatedUnlessBare
<1>8. NoEarlyLockout'
  <2>1. \A e \in Entries : fails[e] <= fails'[e]
    BY <1>2, <1>3, WriteEffect DEF RequestEffect
  <2>2. ASSUME NEW x \in Threads, request'[x].end = "over" PROVE fails'[request'[x].got] >= 5
    <3>1. CASE x = t
      <4>1. request'[t].got = request[t].got /\ request[t].got \in Entries /\ count[request[t].got] = 5
        BY <1>2, <2>2, <3>1 DEF RequestEffect, HoldsEntry
      <4>2. fails[request[t].got] >= 5 /\ fails'[request[t].got] >= fails[request[t].got]
        BY <2>1, <4>1 DEF CountsBounded
      <4>3. fails[request[t].got] \in Nat /\ fails'[request[t].got] \in Nat
        BY <1>1, <4>1
      <4>4. fails'[request[t].got] >= 5
        BY <4>2, <4>3
      <4> QED
        BY <3>1, <4>1, <4>4
    <3>2. CASE x # t
      <4>1. request'[x] = request[x] /\ request[x].got \in Entries /\ fails[request[x].got] >= 5
        BY <1>2, <2>2, <3>2 DEF RequestEffect, CountsBounded, NoEarlyLockout
      <4>2. fails[request[x].got] \in Nat /\ fails'[request[x].got] \in Nat
        BY <1>1, <4>1
      <4>3. fails[request[x].got] <= fails'[request[x].got]
        BY <2>1, <4>1
      <4>4. fails'[request[x].got] >= 5
        BY <4>1, <4>2, <4>3
      <4> QED
        BY <4>1, <4>4
    <3> QED
      BY <3>1, <3>2
  <2> QED
    BY <2>2 DEF NoEarlyLockout
<1>9. QueryThrowsOnlyAfterRemove'
  BY <1>2 DEF RequestEffect, FoundUnlessRemoved, DatedUnlessBare, QueryThrowsOnlyAfterRemove
<1> QED
  BY <1>1, <1>4, <1>5, <1>6, <1>7, <1>8, <1>9, <1>10

LEMMA BeginInv ==
  ASSUME CacheIInv, NEW t \in Threads, NEW op \in {"put", "remove", "addGet", "overFirst", "limitFirst"},
         NEW n \in Names, NEW e \in made \cup {Null}, Begin(t, op, n, e)
  PROVE  CacheIInv'
<1>1. CacheTypeOK'
  BY BeginType DEF CacheIInv, CacheTypeOK
<1>2. /\ UNCHANGED <<pool, count, date, fails, removed, bare>>
      /\ \A x \in Threads \ {t} : request'[x] = request[x]
      /\ request'[t].at = op /\ request'[t].end = "none" /\ made' = made
      /\ request'[t].got = Null /\ request'[t].entry = e
  BY DEF Begin, CacheIInv, CacheTypeOK
<1> QED
  BY <1>1, <1>2 DEF CacheIInv, OnlyMade, HoldsEntry, CountsBounded, FoundUnlessRemoved, DatedUnlessBare,
                    NoEarlyLockout, QueryThrowsOnlyAfterRemove

LEMMA CacheNextIInv == CacheIInv /\ [CacheNext]_cacheVars => CacheIInv'
<1> SUFFICES ASSUME CacheIInv, [CacheNext]_cacheVars PROVE CacheIInv'
  OBVIOUS
<1>1. ASSUME NEW t \in Threads, Request(t) PROVE CacheIInv'
  <2>1. ASSUME NEW n \in Names, NEW e \in made \cup {Null}, NEW op \in {"put", "addGet"},
               Begin(t, op, n, e)
        PROVE  CacheIInv'
    BY <2>1, BeginInv
  <2>2. ASSUME NEW n \in Names, NEW op \in {"remove", "overFirst", "limitFirst"},
               Begin(t, op, n, Null)
        PROVE  CacheIInv'
    BY <2>2, BeginInv
  <2> QED
    BY <1>1, <2>1, <2>2, RequestInv DEF Request
<1>2. ASSUME NEW e \in Entries, NEW c \in {0, 1}, Create(e, c) PROVE CacheIInv'
  <2>1. CacheTypeOK'
    BY <1>2 DEF CacheIInv, CacheTypeOK, Create
  <2>2. /\ UNCHANGED <<pool, date, request, removed, bare>> /\ made' = made \cup {e} /\ e \notin made
        /\ count' = [count EXCEPT ![e] = c] /\ fails' = [fails EXCEPT ![e] = c]
    BY <1>2 DEF Create
  <2>3. \A t \in Threads : request[t].got # e
    BY <2>2 DEF CacheIInv, OnlyMade
  <2>4. CountsBounded'
    <3>1. \A x \in Entries : count'[x] <= fails'[x]
      BY <2>2 DEF CacheIInv, CacheTypeOK, CountsBounded
    <3>2. \A t \in Threads : request[t].at = "addWrite" => request[t].seen <= fails'[request[t].got]
      BY <2>2, <2>3 DEF CacheIInv, CacheTypeOK, CountsBounded, HoldsEntry
    <3> QED
      BY <2>2, <3>1, <3>2 DEF CacheIInv, CountsBounded
  <2>5. OnlyMade' /\ HoldsEntry' /\ FoundUnlessRemoved' /\ DatedUnlessBare' /\ QueryThrowsOnlyAfterRemove'
    BY <2>2 DEF CacheIInv, OnlyMade, HoldsEntry, FoundUnlessRemoved, DatedUnlessBare, QueryThrowsOnlyAfterRemove
  <2>7. NoEarlyLockout'
    <3>1. \A t \in Threads : request[t].end = "over" => fails'[request[t].got] = fails[request[t].got]
      BY <2>2, <2>3 DEF CacheIInv, CacheTypeOK, CountsBounded
    <3> QED
      BY <2>2, <3>1 DEF CacheIInv, NoEarlyLockout
  <2> QED
    BY <2>1, <2>4, <2>5, <2>7 DEF CacheIInv
<1>5. ASSUME NEW e \in Entries, SetDate(e) PROVE CacheIInv'
  <2>1. CacheTypeOK'
    BY <1>5 DEF CacheIInv, CacheTypeOK, SetDate
  <2>2. UNCHANGED <<pool, count, made, request, fails, removed, bare>>
    BY <1>5 DEF SetDate
  <2>3. DatedUnlessBare'
    <3>1. \A x \in Entries : date'[x] = IF x = e THEN now ELSE date[x]
      BY <1>5 DEF CacheIInv, CacheTypeOK, SetDate
    <3>2. \A n \in Names : pool[n] # Null => pool[n] \in Entries
      BY DEF CacheIInv, CacheTypeOK
    <3>3. now # Null
      BY TimeAssumption DEF CacheIInv, CacheTypeOK
    <3> QED
      BY <2>2, <3>1, <3>2, <3>3 DEF CacheIInv, DatedUnlessBare
  <2> QED
    BY <2>1, <2>2, <2>3 DEF CacheIInv, OnlyMade, HoldsEntry, CountsBounded, FoundUnlessRemoved,
                            NoEarlyLockout, QueryThrowsOnlyAfterRemove
<1>3. CASE Tick
  BY <1>3 DEF CacheIInv, CacheTypeOK, Tick, OnlyMade, HoldsEntry, CountsBounded, FoundUnlessRemoved, DatedUnlessBare,
              NoEarlyLockout, QueryThrowsOnlyAfterRemove
<1>4. CASE UNCHANGED cacheVars
  BY <1>4 DEF CacheIInv, CacheTypeOK, cacheVars, OnlyMade, HoldsEntry, CountsBounded, FoundUnlessRemoved, DatedUnlessBare,
              NoEarlyLockout, QueryThrowsOnlyAfterRemove
<1> QED
  BY <1>1, <1>2, <1>3, <1>4, <1>5 DEF CacheNext

\* The strengthened invariant of the cache, for any interleaving of the requests.
THEOREM CacheInvariance == CacheSpec => []CacheIInv
BY CacheInitIInv, CacheNextIInv, PTL DEF CacheSpec

\* The pool, the entries and the calls keep their types.
THEOREM CacheTypes == CacheSpec => []CacheTypeOK
<1>1. CacheIInv => CacheTypeOK
  BY DEF CacheIInv
<1> QED
  BY <1>1, CacheInvariance, PTL

\* Races of addCount never make isOverCount lock a user out before five failures.
THEOREM LockoutNotEarly == CacheSpec => []NoEarlyLockout
<1>1. CacheIInv => NoEarlyLockout
  BY DEF CacheIInv
<1> QED
  BY <1>1, CacheInvariance, PTL

\* A query throws only for a name that has been removed or an entry put there without a date.
THEOREM QueryThrows == CacheSpec => []QueryThrowsOnlyAfterRemove
<1>1. CacheIInv => QueryThrowsOnlyAfterRemove
  BY DEF CacheIInv
<1> QED
  BY <1>1, CacheInvariance, PTL
==============================================================================
