--------------------------- MODULE LoginErrorCache ---------------------------
(***************************************************************************)
(* UserErrorLoginCache: failed logins counted per login name in a static   *)
(* Hashtable of mutable UserErrorLogin entries.  One operation of the      *)
(* Hashtable, or one read or write of an entry's field, is one step; the   *)
(* calls of concurrent requests interleave at those steps.  No code of the *)
(* repository calls the cache: what callers do with an entry outside it    *)
(* (build it, date it) is left to them, in any order.                      *)
(***************************************************************************)
EXTENDS Integers

CONSTANTS
  Names,      \* login names
  Entries,    \* UserErrorLogin objects
  Threads,    \* requests
  Null,
  MaxFails,   \* bound: no addCount begins once an entry has so many failures
  MaxTime     \* bound on the clock, in half minutes

ASSUME NullAssumption == Null \notin Entries
ASSUME TimeAssumption == Null \notin 0..MaxTime
ASSUME BoundsAssumption == MaxFails \in Nat /\ MaxTime \in Nat

VARIABLES
  pool,       \* userErrorLoginPool
  count,      \* the count of each entry
  date,       \* its date, Null until a caller has set it
  made,       \* the entries constructed so far
  request,    \* the call each thread is in: its next step, its arguments and locals, how it ended
  now,        \* the clock, in half minutes
  fails,      \* history: the failures an entry stands for
  removed,    \* history: the names removeUserInPool was called for
  bare        \* history: the entries that were put into the pool without a date

cacheVars == <<pool, count, date, made, request, now, fails, removed, bare>>

CacheSteps == {"idle", "put", "remove", "addGet", "addRead", "addWrite", "addPut",
               "overFirst", "overGet", "overRead", "limitFirst", "limitGet"}
CacheEnds == {"none", "void", "npe", "thrown", "over", "notOver", "past", "notPast", "absent"}

EntryOrNull == Entries \cup {Null}

CacheTypeOK ==
  /\ pool \in [Names -> EntryOrNull]
  /\ count \in [Entries -> Nat] /\ fails \in [Entries -> Nat]
  /\ date \in [Entries -> 0..MaxTime \cup {Null}] /\ now \in 0..MaxTime
  /\ made \subseteq Entries /\ removed \subseteq Names /\ bare \subseteq Entries
  /\ request \in [Threads -> [at : CacheSteps, name : Names, entry : EntryOrNull,
                              got : EntryOrNull, seen : Nat, end : CacheEnds]]

CacheInit ==
  /\ pool = [n \in Names |-> Null]
  /\ count = [e \in Entries |-> 0] /\ fails = [e \in Entries |-> 0]
  /\ date = [e \in Entries |-> Null] /\ now = 0
  /\ made = {} /\ removed = {} /\ bare = {}
  /\ \E n \in Names :
       request = [t \in Threads |-> [at |-> "idle", name |-> n, entry |-> Null, got |-> Null,
                                     seen |-> 0, end |-> "none"]]

-----------------------------------------------------------------------------
\* A caller builds an entry for a first failure: undated, its count left at 0 or set to 1.
Create(e, c) ==
  /\ e \notin made
  /\ made' = made \cup {e}
  /\ count' = [count EXCEPT ![e] = c] /\ fails' = [fails EXCEPT ![e] = c]
  /\ UNCHANGED <<pool, date, request, now, removed, bare>>

\* A caller dates an entry, before or after it puts it into the pool, or again.
SetDate(e) ==
  /\ e \in made
  /\ date' = [date EXCEPT ![e] = now]
  /\ UNCHANGED <<pool, count, made, request, now, fails, removed, bare>>

Tick == now < MaxTime /\ now' = now + 1
        /\ UNCHANGED <<pool, count, date, made, request, fails, removed, bare>>

\* A request calls an operation with a map of a login name and, when e # Null, an entry:
\* one just built or any other the caller still holds.
Begin(t, op, n, e) ==
  /\ request[t].at = "idle"
  /\ op = "addGet" => \A x \in made : fails[x] < MaxFails
  /\ request' = [request EXCEPT ![t] = [at |-> op, name |-> n, entry |-> e, got |-> Null,
                                        seen |-> 0, end |-> "none"]]
  /\ UNCHANGED <<pool, count, date, made, now, fails, removed, bare>>

At(t, step) == request[t].at = step
Pooled(t)   == pool[request[t].name]

\* The thread goes on to a step with the entry and the number it has read, or ends the call.
Continue(t, step, e, k) ==
  request' = [request EXCEPT ![t] = [at |-> step, name |-> @.name, entry |-> @.entry, got |-> e,
                                     seen |-> k, end |-> "none"]]

Answer(t, e, answer) ==
  request' = [request EXCEPT ![t] = [at |-> "idle", name |-> @.name, entry |-> Null, got |-> e,
                                     seen |-> 0, end |-> answer]]

End(t, answer) == Answer(t, Null, answer)

\* Hashtable.put of the map's entry under the map's name; a null value throws.
PutEntry(t) ==
  LET e == request[t].entry
  IN  IF e = Null THEN End(t, "npe") /\ UNCHANGED <<pool, bare>>
      ELSE /\ End(t, "void")
           /\ pool' = [pool EXCEPT ![request[t].name] = e]
           /\ bare' = IF date[e] = Null THEN bare \cup {e} ELSE bare

ModifyUser(t) ==
  /\ At(t, "put")
  /\ PutEntry(t)
  /\ UNCHANGED <<count, date, made, now, fails, removed>>

RemoveUser(t) ==
  /\ At(t, "remove")
  /\ pool' = [pool EXCEPT ![request[t].name] = Null]
  /\ removed' = removed \cup {request[t].name}
  /\ End(t, "void")
  /\ UNCHANGED <<count, date, made, now, fails, bare>>

\* addCount: get, then getCount on what it returned.
AddGet(t) ==
  /\ At(t, "addGet")
  /\ IF Pooled(t) = Null THEN End(t, "npe") ELSE Continue(t, "addRead", Pooled(t), 0)
  /\ UNCHANGED <<pool, count, date, made, now, fails, removed, bare>>

AddRead(t) ==
  /\ At(t, "addRead")
  /\ Continue(t, "addWrite", request[t].got, count[request[t].got])
  /\ UNCHANGED <<pool, count, date, made, now, fails, removed, bare>>

\* Mutants of Incremented: the increment applied twice; a decrement.
IncrementedTwice(k) == k + 2
Decremented(k) == k - 1

Incremented(k) == k + 1

\* addCount: setCount of the number read plus one, whatever the count is by now.
AddWrite(t) ==
  /\ At(t, "addWrite")
  /\ LET e == request[t].got
     IN  /\ count' = [count EXCEPT ![e] = Incremented(request[t].seen)]
         /\ fails' = [fails EXCEPT ![e] = @ + 1]
         /\ Continue(t, "addPut", e, request[t].seen)
  /\ UNCHANGED <<pool, date, made, now, removed, bare>>

\* addCount: the entry read goes into the caller's map under the login name, not under
\* "userErrorLogin", so what modifyUserInPool puts is the entry the caller came with.
AddPut(t) ==
  /\ At(t, "addPut")
  /\ PutEntry(t)
  /\ UNCHANGED <<count, date, made, now, fails, removed>>

\* Mutant of AfterTest: the first test dropped.
AfterTestUnchecked(t, next, answer) == Continue(t, next, Null, now)

\* The != null test both queries begin with; isOverLimitDate reads the clock after it.
AfterTest(t, next, answer) ==
  IF Pooled(t) = Null THEN End(t, answer) ELSE Continue(t, next, Null, now)

OverFirst(t) ==
  /\ At(t, "overFirst")
  /\ AfterTest(t, "overGet", "absent")
  /\ UNCHANGED <<pool, count, date, made, now, fails, removed, bare>>

\* isOverCount: the second get is dereferenced at once.
OverGet(t) ==
  /\ At(t, "overGet")
  /\ IF Pooled(t) = Null THEN End(t, "thrown") ELSE Continue(t, "overRead", Pooled(t), 0)
  /\ UNCHANGED <<pool, count, date, made, now, fails, removed, bare>>

\* Mutant of IsOver: the limit one lower.
IsOverLower(k) == k = 4

IsOver(k) == k = 5

OverRead(t) ==
  /\ At(t, "overRead")
  /\ LET e == request[t].got IN Answer(t, e, IF IsOver(count[e]) THEN "over" ELSE "notOver")
  /\ UNCHANGED <<pool, count, date, made, now, fails, removed, bare>>

LimitFirst(t) ==
  /\ At(t, "limitFirst")
  /\ AfterTest(t, "limitGet", "absent")
  /\ UNCHANGED <<pool, count, date, made, now, fails, removed, bare>>

\* Mutant of IsPast: one minute is enough.
IsPastOneMinute(age) == age \div 2 >= 1

\* An integer division of milliseconds to minutes, then minutes > 1.
IsPast(age) == age \div 2 > 1

\* isOverLimitDate: the second get and the entry's date are dereferenced at once.
LimitGet(t) ==
  /\ At(t, "limitGet")
  /\ LET e == Pooled(t)
     IN  IF e = Null THEN End(t, "thrown")
         ELSE IF date[e] = Null THEN Answer(t, e, "thrown")
         ELSE Answer(t, e, IF IsPast(request[t].seen - date[e]) THEN "past" ELSE "notPast")
  /\ UNCHANGED <<pool, count, date, made, now, fails, removed, bare>>

-----------------------------------------------------------------------------
AddCount(t)        == AddGet(t) \/ AddRead(t) \/ AddWrite(t) \/ AddPut(t)
IsOverCount(t)     == OverFirst(t) \/ OverGet(t) \/ OverRead(t)
IsOverLimitDate(t) == LimitFirst(t) \/ LimitGet(t)

Request(t) ==
  \/ \E n \in Names, e \in made \cup {Null} : \E op \in {"put", "addGet"} : Begin(t, op, n, e)
  \/ \E n \in Names, op \in {"remove", "overFirst", "limitFirst"} : Begin(t, op, n, Null)
  \/ ModifyUser(t) \/ RemoveUser(t) \/ AddCount(t) \/ IsOverCount(t) \/ IsOverLimitDate(t)

CacheNext ==
  \/ \E t \in Threads : Request(t)
  \/ \E e \in Entries, c \in {0, 1} : Create(e, c)
  \/ \E e \in Entries : SetDate(e)
  \/ Tick

CacheSpec == CacheInit /\ [][CacheNext]_cacheVars

-----------------------------------------------------------------------------
\* isOverCount answers true of an entry only when five failures have been counted on it:
\* racing increments can lose failures but never invent one, so no user is locked early.
NoEarlyLockout ==
  \A t \in Threads : request[t].end = "over" => fails[request[t].got] >= 5

\* The queries test the pool before they dereference what it gives: they throw only for a
\* name that has been removed, when the removal came between their two reads, or for an entry
\* that its caller put into the pool before it had a date.
QueryThrowsOnlyAfterRemove ==
  \A t \in Threads :
    request[t].end = "thrown" => request[t].name \in removed \/ request[t].got \in bare

\* What the comment on isOverCount says: it tells whether the limit is reached.
OverCountHolds ==
  [][\A t \in Threads : OverRead(t) /\ count[request[t].got] >= 5 => request'[t].end = "over"]_cacheVars
=============================================================================
