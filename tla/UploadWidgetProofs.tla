------------------------- MODULE UploadWidgetProofs -------------------------
(***************************************************************************)
(* What the upload widget keeps to, however many files there are.          *)
(*                                                                         *)
(*   TypeOK       types of every action                                    *)
(*   ControlInv   the calls under way: which requests and handlers may be  *)
(*                waiting together, and that the widget is locked then     *)
(*   LinkInv      index, thumbnail, remove handler and request of a file   *)
(*                belong together, as long as no situation of FileInput    *)
(*                that breaks it occurred                                  *)
(*   AccountInv   what is marked as uploaded was taken by the server       *)
(*   SendInv      what was taken is not sent again, with ModeInv, LockInv  *)
(*                and RisingInv for the answers to a synchronous upload    *)
(*   Traced       what sanitize has done to a document (ContentProofs)     *)
(*   PictureInv   what smaller pictures say in their Exif data             *)
(***************************************************************************)
EXTENDS FilePreview, ContentProofs, TLAPS

-----------------------------------------------------------------------------
(* Types *)

Entry == Files \cup {None}

LEMMA AtType ==
  ASSUME NEW s \in Seq(Entry), NEW i
  PROVE  At(s, i) \in Entry /\ InStack(s) \subseteq Files
<1>1. \A n \in DOMAIN s : s[n] \in Entry
  OBVIOUS
<1> QED
  BY <1>1 DEF At, InStack, Entry

LEMMA UpdateStackType ==
  ASSUME NEW s \in Seq(Entry), NEW i \in Int, NEW v \in Entry
  PROVE  UpdateStack(s, i, v) \in Seq(Entry)
<1>1. CASE i < 1
  BY <1>1 DEF UpdateStack
<1>2. CASE ~(i < 1)
  <2> DEFINE k == IF i > Len(s) THEN i ELSE Len(s)
  <2>1. k \in Nat
    BY <1>2
  <2>2. \A n \in 1 .. k : (IF n = i THEN v ELSE At(s, n)) \in Entry
    BY AtType
  <2> HIDE DEF k
  <2>3. [n \in 1 .. k |-> IF n = i THEN v ELSE At(s, n)] \in Seq(Entry)
    BY <2>1, <2>2
  <2> QED
    BY <1>2, <2>3 DEF UpdateStack, k
<1> QED
  BY <1>1, <1>2

LEMMA ThumbAtType ==
  ASSUME frames \in Seq(Files), NEW i
  PROVE  ThumbAt(i) \in Entry
<1> DEFINE at == {n \in DOMAIN frames : idx[frames[n]] = i}
<1>1. CASE i = 0 \/ at = {}
  BY <1>1 DEF ThumbAt, Entry
<1>2. CASE ~(i = 0 \/ at = {})
  <2>1. at \subseteq Nat /\ at # {}
    BY <1>2
  <2>2. \E n \in at : \A m \in at : n <= m
    BY <2>1, LeastNumber
  <2>3. (CHOOSE n \in at : \A m \in at : n <= m) \in at
    BY <2>2
  <2>4. ThumbAt(i) = frames[CHOOSE n \in at : \A m \in at : n <= m]
    BY <1>2 DEF ThumbAt
  <2> HIDE DEF at
  <2>5. \A n \in at : frames[n] \in Files
    BY DEF at
  <2> QED
    BY <2>3, <2>4, <2>5 DEF Entry
<1> QED
  BY <1>1, <1>2

LEMMA HoldingType ==
  ASSUME frames \in Seq(Files), NEW s
  PROVE  /\ Holding(s) \in Seq(Files) /\ DOMAIN Holding(s) = 1 .. Len(Holding(s))
         /\ \A n \in DOMAIN Holding(s) : Holding(s)[n] \in Files /\ At(s, idx[Holding(s)[n]]) # None
<1> DEFINE S == {f \in Files : At(s, idx[f]) # None}
<1>1. Only(frames, S) \in Seq(Files \cap S)
  BY OnlyProperties
<1> HIDE DEF S
<1>2. \A n \in DOMAIN Only(frames, S) : Only(frames, S)[n] \in Files \cap S
  BY <1>1
<1>3. Only(frames, S) \in Seq(Files) /\ DOMAIN Only(frames, S) = 1 .. Len(Only(frames, S))
  BY <1>1, <1>2
<1> QED
  BY <1>2, <1>3 DEF Holding, S

LEMMA RenumberedType ==
  ASSUME frames \in Seq(Files), idx \in [Files -> Nat], NEW s
  PROVE  Renumbered(s) \in [Files -> Nat]
<1> DEFINE h == Holding(s)
<1>1. h \in Seq(Files) /\ DOMAIN h = 1 .. Len(h)
  BY HoldingType
<1> DEFINE number(f) == IF f \notin Shown THEN idx[f]
                         ELSE IF \E n \in DOMAIN h : h[n] = f THEN CHOOSE n \in DOMAIN h : h[n] = f ELSE 0
<1>2. Renumbered(s) = [f \in Files |-> number(f)]
  BY DEF Renumbered
<1> HIDE DEF h
<1>3. ASSUME NEW f \in Files PROVE number(f) \in Nat
  <2>1. CASE f \notin Shown
    BY <2>1
  <2>2. CASE f \in Shown /\ \E n \in DOMAIN h : h[n] = f
    <3>1. (CHOOSE n \in DOMAIN h : h[n] = f) \in DOMAIN h
      BY <2>2
    <3>2. DOMAIN h \subseteq Nat
      BY <1>1
    <3>3. number(f) = CHOOSE n \in DOMAIN h : h[n] = f
      BY <2>2
    <3> QED
      BY <3>1, <3>2, <3>3
  <2>3. CASE f \in Shown /\ ~\E n \in DOMAIN h : h[n] = f
    BY <2>3
  <2> QED
    BY <2>1, <2>2, <2>3
<1> HIDE DEF number
<1> QED
  BY <1>2, <1>3

LEMMA ResetFileStackType ==
  ASSUME TypeOK, NEW s \in Seq(Entry), ResetFileStack(s)
  PROVE  stack' \in Seq(Entry) /\ idx' \in [Files -> Nat]
<1> DEFINE h == Holding(s)
<1>1. /\ h \in Seq(Files) /\ DOMAIN h = 1 .. Len(h)
      /\ \A n \in DOMAIN h : At(s, idx[h[n]]) # None
  BY HoldingType DEF TypeOK
<1>2. stack' = [n \in DOMAIN h |-> s[idx[h[n]]]] /\ idx' = Renumbered(s)
  BY DEF ResetFileStack
<1> HIDE DEF h
<1>3. Len(h) \in Nat
  BY <1>1
<1>4. ASSUME NEW n \in 1 .. Len(h) PROVE s[idx[h[n]]] \in Entry
  <2>1. At(s, idx[h[n]]) # None
    BY <1>1
  <2>2. At(s, idx[h[n]]) = s[idx[h[n]]]
    BY <2>1 DEF At
  <2> QED
    BY <2>2, AtType
<1>5. stack' \in Seq(Entry)
  BY <1>1, <1>2, <1>3, <1>4
<1> QED
  BY <1>2, <1>5, RenumberedType DEF TypeOK

LEMMA FreshType ==
  ASSUME TypeOK, NEW S \in Seq(Files)
  PROVE  Fresh(S) \in Seq(Files)
<1>1. Only(S, Files \ InStack(stack)) \in Seq(Files \cap (Files \ InStack(stack)))
  BY OnlyProperties
<1> DEFINE T == Files \cap (Files \ InStack(stack))
<1>2. T \subseteq Files
  OBVIOUS
<1> HIDE DEF T
<1>3. Only(S, Files \ InStack(stack)) \in Seq(Files)
  BY <1>1, <1>2, SeqOfLarger DEF T
<1> QED
  BY <1>3 DEF Fresh

Statuses == {"New", "Loading", "Success", "Error"}
Loads == [node : Nat, todo : Seq(Files) \ {<<>>}]

ReadTypes ==
  /\ stack \in Seq(Entry) /\ frames \in Seq(Files)
  /\ idx \in [Files -> Nat] /\ bound \in [Files -> Nat \cup {SuccessHandler}]
  /\ status \in [Files -> Statuses]
  /\ loads \subseteq Loads /\ timers \in Seq(TimerType)

LEMMA ReadFileType ==
  ASSUME TypeOK, NEW node \in Nat, NEW todo \in Seq(Files), NEW s \in Seq(Entry), NEW fr \in Seq(Files),
         NEW tm \in Seq(TimerType), ReadFile(node, todo, s, fr, tm)
  PROVE  ReadTypes'
<1>1. CASE todo = <<>>
  <2>1. stack' = s /\ frames' = fr /\ timers' = tm /\ UNCHANGED <<idx, bound, status, loads>>
    BY <1>1, Zenon DEF ReadFile
  <2> QED
    BY <2>1 DEF TypeOK, ReadTypes, Statuses, Loads
<1>2. CASE todo # <<>> /\ Head(todo) \in Valid
  <2>1. /\ stack' = Append(s, Head(todo)) /\ frames' = fr /\ timers' = tm
        /\ loads' = loads \cup {[node |-> node, todo |-> todo]}
        /\ UNCHANGED <<idx, bound, status>>
    BY <1>2, Zenon DEF ReadFile
  <2>2. Head(todo) \in Entry /\ [node |-> node, todo |-> todo] \in Loads
    BY <1>2 DEF Entry, Loads
  <2>3. stack' \in Seq(Entry)
    BY <2>1, <2>2
  <2> QED
    BY <2>1, <2>2, <2>3 DEF TypeOK, ReadTypes, Statuses, Loads
<1>3. CASE todo # <<>> /\ Head(todo) \notin Valid
  <2>1. Head(todo) \in Files /\ Tail(todo) \in Seq(Files)
    BY <1>3
  <2>2. /\ stack' = Append(s, None) /\ frames' = Append(fr, Head(todo))
        /\ idx' = [idx EXCEPT ![Head(todo)] = node]
        /\ status' = [status EXCEPT ![Head(todo)] = "Error"]
        /\ bound' = Bind(frames', idx')
        /\ timers' = Append(tm, Later(node + 1, Tail(todo)))
        /\ UNCHANGED loads
    BY <1>3, Zenon DEF ReadFile
  <2>3. Later(node + 1, Tail(todo)) \in TimerType
    BY <2>1 DEF Later, TimerType
  <2>4. idx' \in [Files -> Nat] /\ frames' \in Seq(Files)
    BY <2>1, <2>2 DEF TypeOK
  <2>5. bound' \in [Files -> Nat \cup {SuccessHandler}]
    BY <2>2, <2>4 DEF Bind, TypeOK
  <2>6. stack' \in Seq(Entry) /\ timers' \in Seq(TimerType)
    BY <2>2, <2>3 DEF Entry
  <2>7. status' \in [Files -> Statuses]
    BY <2>2 DEF TypeOK, Statuses
  <2> QED
    BY <2>2, <2>4, <2>5, <2>6, <2>7 DEF TypeOK, ReadTypes, Loads
<1> QED
  BY <1>1, <1>2, <1>3

LEMMA RequestTypes ==
  ASSUME TypeOK
  PROVE  /\ \A i \in Nat, all \in BOOLEAN : Request(i, all) \in RequestType
         /\ Forgotten \in Seq(RequestType) /\ Len(Forgotten) = Len(requests)
         /\ \A r \in RequestType : IdOf(r) \in Nat
         /\ \A n \in DOMAIN requests : Forgotten[n] = [requests[n] EXCEPT !.kept = FALSE]
<1>1. ASSUME NEW i \in Nat, NEW all \in BOOLEAN PROVE Request(i, all) \in RequestType
  <2>1. At(stack, i) \in Entry /\ ThumbAt(i) \in Entry
    BY AtType, ThumbAtType DEF TypeOK, Entry
  <2> QED
    BY <2>1 DEF Request, RequestType, Entry
<1>2. requests \in Seq(RequestType)
  BY DEF TypeOK
<1>3. ASSUME NEW n \in 1 .. Len(requests) PROVE [requests[n] EXCEPT !.kept = FALSE] \in RequestType
  <2>1. requests[n] \in RequestType
    BY <1>2
  <2> QED
    BY <2>1 DEF RequestType
<1>4. Forgotten \in Seq(RequestType) /\ Len(Forgotten) = Len(requests)
  <2>1. Len(requests) \in Nat /\ DOMAIN requests = 1 .. Len(requests)
    BY <1>2
  <2>2. Forgotten = [n \in 1 .. Len(requests) |-> [requests[n] EXCEPT !.kept = FALSE]]
    BY <2>1 DEF Forgotten
  <2>3. Forgotten \in [1 .. Len(requests) -> RequestType]
    BY <1>3, <2>2
  <2> HIDE DEF Forgotten
  <2> QED
    BY <2>1, <2>3
<1>5. ASSUME NEW r \in RequestType PROVE IdOf(r) \in Nat
  BY <1>5 DEF IdOf, RequestType, TypeOK
<1> QED
  BY <1>1, <1>4, <1>5 DEF Forgotten

Batch == [sent : Seq(Files), kept : BOOLEAN, keys : Nat]
Fadings == Files \X (Nat \cup {SuccessHandler}) \X Nat

LEMMA BatchForgottenType ==
  ASSUME TypeOK, NEW replaced, BatchForgotten(replaced)
  PROVE  (batch' = None \/ batch' \in Batch)
<1>1. CASE batch = None
  BY <1>1 DEF BatchForgotten
<1>2. CASE batch # None
  <2>1. batch \in Batch
    BY <1>2 DEF TypeOK, Batch
  <2>2. batch' = [batch EXCEPT !.kept = FALSE, !.keys = IF @ = 0 /\ replaced THEN Len(stack) ELSE @]
    BY <1>2 DEF BatchForgotten
  <2>3. Len(stack) \in Nat
    BY DEF TypeOK
  <2>4. batch' \in Batch
    BY <2>1, <2>2, <2>3 DEF Batch
  <2> QED
    BY <1>2, <2>4
<1> QED
  BY <1>1, <1>2

LEMMA LoadTypes ==
  ASSUME TypeOK, NEW r \in loads, Load(r)
  PROVE  TypeOK'
<1> DEFINE f == Head(r.todo)
<1>1. r.node \in Nat /\ f \in Files /\ Tail(r.todo) \in Seq(Files)
  <2>1. r \in Loads
    BY DEF TypeOK, Loads
  <2> QED
    BY <2>1 DEF Loads
<1>2. /\ loads' = loads \ {r} /\ frames' = Append(frames, f)
      /\ idx' = [idx EXCEPT ![f] = r.node] /\ status' = [status EXCEPT ![f] = "New"]
      /\ bound' = Bind(frames', idx') /\ timers' = Append(timers, Later(r.node + 1, Tail(r.todo)))
      /\ UNCHANGED <<uploadAsync, stack, off, fading, isDisabled, progress, requests, batch, history>>
  BY DEF Load
<1> HIDE DEF f
<1>3. Later(r.node + 1, Tail(r.todo)) \in TimerType
  BY <1>1 DEF Later, TimerType
<1>4. idx' \in [Files -> Nat] /\ frames' \in Seq(Files) /\ timers' \in Seq(TimerType)
      /\ status' \in [Files -> {"New", "Loading", "Success", "Error"}]
  BY <1>1, <1>2, <1>3 DEF TypeOK
<1>5. bound' \in [Files -> Nat \cup {SuccessHandler}]
  BY <1>2, <1>4 DEF Bind, TypeOK
<1> QED
  BY <1>2, <1>4, <1>5 DEF TypeOK, progress, history

LEMMA SelectionType ==
  ASSUME TypeOK, NEW S \in Selections
  PROVE  S \in Seq(Files) /\ \A n \in DOMAIN S : S[n] \in Files
<1>1. InStack(stack) \subseteq Files
  BY AtType DEF TypeOK, Entry
<1> DEFINE choice == InStack(stack) \cup {f \in Files : \A g \in chosen : g < f}
<1>2. choice \subseteq Files
  BY <1>1
<1>3. PICK n \in 1 .. MaxChosen : S \in [1 .. n -> choice]
  BY DEF Selections
<1> HIDE DEF choice
<1>4. n \in Nat
  BY <1>3, BoundsAssumption
<1> QED
  BY <1>2, <1>3, <1>4

LEMMA SelectTypes ==
  ASSUME TypeOK, NEW S \in Selections, Select(S)
  PROVE  TypeOK'
<1> DEFINE fresh == Fresh(S)
           none == NoneTaken(S)
<1>1. S \in Seq(Files) /\ \A n \in DOMAIN S : S[n] \in Files
  BY SelectionType
<1>2. fresh \in Seq(Files) /\ \A n \in DOMAIN fresh : fresh[n] \in Files
  BY <1>1, FreshType
<1>3. /\ clicks < MaxClicks /\ clicks' = clicks + 1
      /\ ResetUpload /\ requests' = Forgotten
      /\ IF none
         THEN UNCHANGED <<stack, frames, idx, bound, status, loads, timers>>
         ELSE IF stack = <<>>
         THEN ReadFile(1, fresh, <<>>, Only(frames, {f \in Files : status[f] = "Success"}), timers)
         ELSE ReadFile(Len(stack) + 1, fresh, stack, frames, timers)
      /\ chosen' = chosen \cup {S[n] : n \in DOMAIN S}
      /\ BatchForgotten(~none /\ stack = <<>>)
      /\ events' = events \cup (IF Reading THEN {"overlap"} ELSE {}) \cup (IF fading # {} /\ stack = <<>> THEN {"fading"} ELSE {})
      /\ discarded' = IF none THEN discarded \cup {fresh[n] : n \in DOMAIN fresh} ELSE discarded
      /\ UNCHANGED <<uploadAsync, off, fading, isDisabled, fileBatchCompleted, accepted>>
  BY DEF Select, Click
<1> HIDE DEF fresh, none
<1>4. ReadTypes'
  <2>1. CASE none
    BY <1>3, <2>1 DEF TypeOK, ReadTypes, Entry, Loads, Statuses
  <2>2. CASE ~none /\ stack = <<>>
    <3> DEFINE kept == Only(frames, {f \in Files : status[f] = "Success"})
    <3>1. kept \in Seq(Files \cap {f \in Files : status[f] = "Success"})
      BY OnlyProperties DEF TypeOK
    <3>2. (Files \cap {f \in Files : status[f] = "Success"}) \subseteq Files
      OBVIOUS
    <3> HIDE DEF kept
    <3>3. kept \in Seq(Files)
      BY <3>1, <3>2, SeqOfLarger
    <3>4. ReadFile(1, fresh, <<>>, kept, timers)
      BY <1>3, <2>2 DEF kept
    <3>5. <<>> \in Seq(Entry) /\ 1 \in Nat
      OBVIOUS
    <3> QED
      BY <1>2, <3>3, <3>4, <3>5, ReadFileType DEF TypeOK
  <2>3. CASE ~none /\ stack # <<>>
    <3>1. ReadFile(Len(stack) + 1, fresh, stack, frames, timers)
      BY <1>3, <2>3
    <3>2. Len(stack) + 1 \in Nat /\ stack \in Seq(Entry) /\ frames \in Seq(Files) /\ timers \in Seq(TimerType)
      BY DEF TypeOK, Entry
    <3> QED
      BY <1>2, <3>1, <3>2, ReadFileType
  <2> QED
    BY <2>1, <2>2, <2>3
<1>5. requests' \in Seq(RequestType)
  BY <1>3, RequestTypes
<1>6. batch' = None \/ batch' \in Batch
  BY <1>3, BatchForgottenType
<1>7. uploadLog' \in Seq(Nat) /\ uploadAsyncCount' \in Nat
  BY <1>3 DEF ResetUpload
<1>8. chosen' \subseteq Files /\ discarded' \subseteq Files
  BY <1>1, <1>2, <1>3 DEF TypeOK
<1>9. clicks' \in 0 .. MaxClicks /\ events' \subseteq {"overlap", "cancel", "retry", "fading", "stale", "unsent", "reset"}
  BY <1>3, BoundsAssumption DEF TypeOK
<1> QED
  BY <1>3, <1>4, <1>5, <1>6, <1>7, <1>8, <1>9 DEF TypeOK, ReadTypes, Batch, Statuses, Loads, Entry

LEMMA LoadingType ==
  ASSUME TypeOK, NEW set
  PROVE  Loading(set) \in [Files -> {"New", "Loading", "Success", "Error"}]
BY DEF Loading, TypeOK

LEMMA ShownType ==
  ASSUME TypeOK
  PROVE  Shown \subseteq Files
BY DEF Shown, TypeOK

LEMMA UploadAllTypes ==
  ASSUME TypeOK, UploadAll
  PROVE  TypeOK'
<1> DEFINE places == [n \in DOMAIN stack |-> n]
           sent == Only(places, {i \in DOMAIN stack : stack[i] # None})
           reqs == [n \in DOMAIN sent |-> Request(sent[n], TRUE)]
<1>1. places \in Seq(Nat)
  BY DEF TypeOK
<1>2. sent \in Seq(Nat \cap {i \in DOMAIN stack : stack[i] # None}) /\ DOMAIN sent = 1 .. Len(sent)
  BY <1>1, OnlyProperties
<1>3. /\ isDisabled' = TRUE /\ clicks < MaxClicks /\ clicks' = clicks + 1
      /\ uploadLog' = <<>> /\ uploadAsyncCount' = Len(sent) /\ fileBatchCompleted' = FALSE
      /\ requests' = Forgotten \o reqs
      /\ status' = Loading({reqs[n].thumb : n \in DOMAIN reqs})
      /\ off' = Shown
      /\ events' = events \cup (IF Reading THEN {"overlap"} ELSE {}) \cup (IF fading # {} THEN {"fading"} ELSE {})
      /\ UNCHANGED <<uploadAsync, stack, frames, idx, bound, fading, loads, timers, batch, chosen, accepted, discarded>>
  BY DEF UploadAll, Lock, Click
<1> HIDE DEF sent
<1>4. Len(sent) \in Nat /\ \A n \in 1 .. Len(sent) : sent[n] \in Nat
  BY <1>2
<1>5. reqs \in Seq(RequestType)
  <2>1. \A n \in 1 .. Len(sent) : Request(sent[n], TRUE) \in RequestType
    BY <1>4, RequestTypes
  <2>2. reqs = [n \in 1 .. Len(sent) |-> Request(sent[n], TRUE)]
    BY <1>2
  <2>3. reqs \in [1 .. Len(sent) -> RequestType]
    BY <2>1, <2>2
  <2> HIDE DEF reqs
  <2> QED
    BY <1>4, <2>3
<1> HIDE DEF reqs
<1>6. requests' \in Seq(RequestType)
  BY <1>3, <1>5, RequestTypes
<1>7. clicks' \in 0 .. MaxClicks /\ events' \subseteq {"overlap", "cancel", "retry", "fading", "stale", "unsent", "reset"}
  BY <1>3, BoundsAssumption DEF TypeOK
<1>8. uploadLog' \in Seq(Nat) /\ uploadAsyncCount' \in Nat /\ off' \subseteq Files
  BY <1>3, <1>4, ShownType
<1>9. status' \in [Files -> {"New", "Loading", "Success", "Error"}]
  BY <1>3, LoadingType
<1> QED
  BY <1>3, <1>6, <1>7, <1>8, <1>9 DEF TypeOK

LEMMA UploadBatchTypes ==
  ASSUME TypeOK, UploadBatch
  PROVE  TypeOK'
<1>1. Only(stack, Files) \in Seq((Files \cup {None}) \cap Files)
  BY OnlyProperties DEF TypeOK
<1>2. (Files \cup {None}) \cap Files \subseteq Files
  OBVIOUS
<1>3. Only(stack, Files) \in Seq(Files)
  BY <1>1, <1>2, SeqOfLarger
<1>4. /\ isDisabled' = TRUE /\ clicks < MaxClicks /\ clicks' = clicks + 1
      /\ uploadLog' = <<>> /\ uploadAsyncCount' = 0 /\ requests' = Forgotten
      /\ batch' = [sent |-> Only(stack, Files), kept |-> TRUE, keys |-> 0]
      /\ status' = Loading(Shown) /\ off' = Shown
      /\ events' = events \cup (IF Reading THEN {"overlap"} ELSE {}) \cup (IF fading # {} THEN {"fading"} ELSE {})
      /\ UNCHANGED <<uploadAsync, stack, frames, idx, bound, fading, fileBatchCompleted, loads, timers, chosen, accepted, discarded>>
  BY DEF UploadBatch, Lock, Click, ResetUpload
<1>5. batch' \in Batch
  BY <1>3, <1>4 DEF Batch
<1>6. clicks' \in 0 .. MaxClicks /\ events' \subseteq {"overlap", "cancel", "retry", "fading", "stale", "unsent", "reset"}
  BY <1>4, BoundsAssumption DEF TypeOK
<1>7. uploadLog' \in Seq(Nat) /\ uploadAsyncCount' \in Nat /\ off' \subseteq Files
  BY <1>4, ShownType
<1>8. requests' \in Seq(RequestType) /\ status' \in [Files -> {"New", "Loading", "Success", "Error"}]
  BY <1>4, LoadingType, RequestTypes
<1> QED
  BY <1>4, <1>5, <1>6, <1>7, <1>8 DEF TypeOK, Batch

LEMMA UploadOneTypes ==
  ASSUME TypeOK, NEW f \in Files, UploadOne(f)
  PROVE  TypeOK'
<1> DEFINE r == Request(idx[f], FALSE)
<1>1. r \in RequestType
  BY RequestTypes DEF TypeOK
<1>2. /\ isDisabled' = TRUE /\ clicks < MaxClicks /\ clicks' = clicks + 1
      /\ fileBatchCompleted' = FALSE /\ requests' = Append(requests, r)
      /\ status' = Loading({r.thumb}) /\ off' = Shown
      /\ events' = events \cup (IF isDisabled THEN {"retry"} ELSE {}) \cup (IF Reading THEN {"overlap"} ELSE {})
      /\ UNCHANGED <<uploadAsync, stack, frames, idx, bound, fading, uploadLog, uploadAsyncCount, loads, timers, batch, chosen, accepted, discarded>>
  BY DEF UploadOne, Lock, Click
<1> HIDE DEF r
<1>3. requests' \in Seq(RequestType) /\ off' \subseteq Files /\ status' \in [Files -> {"New", "Loading", "Success", "Error"}]
  <2>1. requests' \in Seq(RequestType)
    BY <1>1, <1>2 DEF TypeOK
  <2> QED
    BY <1>2, <2>1, ShownType, LoadingType
<1>4. clicks' \in 0 .. MaxClicks /\ events' \subseteq {"overlap", "cancel", "retry", "fading", "stale", "unsent", "reset"}
  BY <1>2, BoundsAssumption DEF TypeOK
<1> QED
  BY <1>2, <1>3, <1>4 DEF TypeOK

LEMMA AnswerTypes ==
  ASSUME TypeOK, NEW n \in DOMAIN requests, Accept(n) \/ Refuse(n) \/ Reject(n)
  PROVE  TypeOK'
<1> DEFINE r == requests[n]
<1>1. r \in RequestType /\ r.i \in Nat /\ IdOf(r) \in Nat /\ r.file \in Files \cup {None}
  <2>1. r \in RequestType
    BY DEF TypeOK
  <2> QED
    BY <2>1, RequestTypes DEF RequestType
<1>2. Seqs!RemoveAt(requests, n) \in Seq(RequestType)
  <2>1. requests \in Seq(RequestType) /\ n \in 1 .. Len(requests)
    BY DEF TypeOK
  <2> QED
    BY <2>1, RemoveAtProperties
<1>3. \A kind \in {"success", "error", "complete"}, id \in Nat : Timer(kind, r, id) \in TimerType
  BY <1>1 DEF Timer, TimerType
<1>4. CASE Accept(n)
  <2>1. /\ requests' = Seqs!RemoveAt(requests, n) /\ accepted' = accepted \cup ({r.file} \ {None})
        /\ timers' = timers \o <<Timer("success", r, IdOf(r)), Timer("complete", r, r.i)>>
        /\ UNCHANGED <<uploadAsync, stack, thumbs, fading, isDisabled, progress, loads, batch, chosen, discarded, events, clicks>>
    BY <1>4 DEF Accept
  <2> HIDE DEF r
  <2>2. <<Timer("success", r, IdOf(r)), Timer("complete", r, r.i)>> \in Seq(TimerType)
    BY <1>1, <1>3
  <2>3. timers' \in Seq(TimerType) /\ accepted' \subseteq Files
    BY <1>1, <2>1, <2>2 DEF TypeOK
  <2> QED
    BY <1>2, <2>1, <2>3 DEF TypeOK, thumbs, progress
<1>5. CASE Refuse(n)
  <2>1. /\ requests' = Seqs!RemoveAt(requests, n)
        /\ timers' = timers \o <<Timer("error", r, IdOf(r)), Timer("complete", r, r.i)>>
        /\ UNCHANGED <<uploadAsync, stack, thumbs, fading, isDisabled, progress, loads, batch, history>>
    BY <1>5 DEF Refuse
  <2> HIDE DEF r
  <2>2. <<Timer("error", r, IdOf(r)), Timer("complete", r, r.i)>> \in Seq(TimerType)
    BY <1>1, <1>3
  <2>3. timers' \in Seq(TimerType)
    BY <2>1, <2>2 DEF TypeOK
  <2> QED
    BY <1>2, <2>1, <2>3 DEF TypeOK, thumbs, progress, history
<1>6. CASE Reject(n)
  <2>1. /\ requests' = Seqs!RemoveAt(requests, n) /\ timers' = timers \o Refused(r)
        /\ UNCHANGED <<uploadAsync, stack, thumbs, fading, isDisabled, progress, loads, batch, history>>
    BY <1>6 DEF Reject
  <2> HIDE DEF r
  <2>2. Refused(r) \in Seq(TimerType)
    <3>1. <<>> \in Seq(TimerType) /\ <<Timer("error", r, r.i), Timer("complete", r, r.i)>> \in Seq(TimerType)
      BY <1>1, <1>3
    <3> QED
      BY <3>1 DEF Refused
  <2>3. timers' \in Seq(TimerType)
    BY <2>1, <2>2 DEF TypeOK
  <2> QED
    BY <1>2, <2>1, <2>3 DEF TypeOK, thumbs, progress, history
<1> QED
  BY <1>4, <1>5, <1>6

EventNames == {"overlap", "cancel", "retry", "fading", "stale", "unsent", "reset"}

LEMMA HeadTimer ==
  ASSUME TypeOK, timers # <<>>
  PROVE  /\ Head(timers) \in TimerType /\ Tail(timers) \in Seq(TimerType)
         /\ Head(timers).kind = "read" => Head(timers).node \in Nat /\ Head(timers).todo \in Seq(Files)
         /\ Head(timers).kind \in {"success", "error", "complete"} => Head(timers).req \in RequestType /\ Head(timers).id \in Nat
<1>1. Head(timers) \in TimerType /\ Tail(timers) \in Seq(TimerType)
  BY DEF TypeOK
<1> QED
  BY <1>1 DEF TimerType

LEMMA NearerType ==
  ASSUME TypeOK
  PROVE  Nearer \subseteq Fadings
<1>1. ASSUME NEW x \in fading PROVE <<x[1], x[2], IF x[3] = 0 THEN 0 ELSE x[3] - 1>> \in Fadings
  <2>1. x \in Fadings
    BY DEF TypeOK, Fadings
  <2>2. x[1] \in Files /\ x[2] \in Nat \cup {SuccessHandler} /\ x[3] \in Nat
    BY <2>1 DEF Fadings
  <2> QED
    BY <2>2 DEF Fadings
<1> QED
  BY <1>1 DEF Nearer

LEMMA SetStatusType ==
  ASSUME TypeOK, NEW f \in Entry, NEW s \in Statuses
  PROVE  SetStatus(f, s) \in [Files -> Statuses]
BY DEF SetStatus, TypeOK, Entry, Statuses

LEMMA ReadNextTypes ==
  ASSUME TypeOK, ReadNext
  PROVE  TypeOK'
<1>1. /\ timers # <<>> /\ Head(timers).kind = "read"
      /\ ReadFile(Head(timers).node, Head(timers).todo, stack, frames, Tail(timers))
      /\ fading' = Nearer
      /\ UNCHANGED <<uploadAsync, off, isDisabled, progress, requests, batch, history>>
  BY DEF ReadNext
<1>2. stack \in Seq(Entry) /\ frames \in Seq(Files)
  BY DEF TypeOK, Entry
<1>3. ReadTypes'
  BY <1>1, <1>2, HeadTimer, ReadFileType
<1>4. fading' \subseteq Fadings
  BY <1>1, NearerType
<1> QED
  BY <1>1, <1>3, <1>4 DEF TypeOK, ReadTypes, Fadings, Loads, Statuses, Entry, progress, history

LEMMA LogTypes ==
  ASSUME TypeOK, NEW s, NEW id \in Nat, Log(s, id)
  PROVE  uploadLog' \in Seq(Nat) /\ uploadAsyncCount' \in Nat /\ fileBatchCompleted' \in BOOLEAN
<1>1. /\ uploadLog' = Append(uploadLog, id)
      /\ fileBatchCompleted' = (fileBatchCompleted \/ AsyncComplete(s, uploadLog'))
      /\ uploadAsyncCount' = uploadAsyncCount
  BY DEF Log
<1>2. fileBatchCompleted' \in BOOLEAN
  BY <1>1
<1> QED
  BY <1>1, <1>2 DEF TypeOK

LEMMA SuccessTypes ==
  ASSUME TypeOK, Success
  PROVE  TypeOK'
<1> DEFINE r == Head(timers).req
<1>1. /\ timers # <<>> /\ Head(timers).kind = "success" /\ timers' = Tail(timers)
      /\ status' = SetStatus(r.thumb, "Success") /\ stack' = UpdateStack(stack, r.i, None)
      /\ IF r.all THEN Log(stack', Head(timers).id) ELSE UNCHANGED progress
      /\ fading' = Nearer
      /\ UNCHANGED <<uploadAsync, frames, idx, bound, off, isDisabled, loads, requests, batch, history>>
  BY DEF Success, Fire
<1>2. r \in RequestType /\ Head(timers).id \in Nat /\ timers' \in Seq(TimerType)
  BY <1>1, HeadTimer
<1>3. r.i \in Int /\ r.thumb \in Entry
  BY <1>2 DEF RequestType, Entry
<1>4. stack' \in Seq(Entry)
  <2>1. stack \in Seq(Entry) /\ None \in Entry
    BY DEF TypeOK, Entry
  <2> QED
    BY <1>1, <1>3, <2>1, UpdateStackType
<1>5. uploadLog' \in Seq(Nat) /\ uploadAsyncCount' \in Nat /\ fileBatchCompleted' \in BOOLEAN
  <2>1. CASE r.all
    BY <1>1, <1>2, <2>1, LogTypes
  <2>2. CASE ~r.all
    BY <1>1, <2>2 DEF TypeOK, progress
  <2> QED
    BY <2>1, <2>2
<1>6. status' \in [Files -> Statuses] /\ fading' \subseteq Fadings
  BY <1>1, <1>3, NearerType, SetStatusType DEF Statuses
<1> QED
  BY <1>1, <1>2, <1>4, <1>5, <1>6 DEF TypeOK, Fadings, Statuses, Entry, history

LEMMA ErrorTypes ==
  ASSUME TypeOK, Error
  PROVE  TypeOK'
<1> DEFINE r == Head(timers).req
<1>1. /\ timers # <<>> /\ Head(timers).kind = "error" /\ timers' = Tail(timers)
      /\ status' = SetStatus(r.thumb, "Error") /\ stack' = UpdateStack(stack, r.i, At(stack, r.i))
      /\ IF r.all THEN Log(stack, Head(timers).id) ELSE UNCHANGED progress
      /\ fading' = Nearer
      /\ UNCHANGED <<uploadAsync, frames, idx, bound, off, isDisabled, loads, requests, batch, history>>
  BY DEF Error, Fire
<1>2. r \in RequestType /\ Head(timers).id \in Nat /\ timers' \in Seq(TimerType)
  BY <1>1, HeadTimer
<1>3. r.i \in Int /\ r.thumb \in Entry
  BY <1>2 DEF RequestType, Entry
<1>4. stack' \in Seq(Entry)
  <2>1. stack \in Seq(Entry)
    BY DEF TypeOK, Entry
  <2>2. At(stack, r.i) \in Entry
    BY <2>1, AtType
  <2> QED
    BY <1>1, <1>3, <2>1, <2>2, UpdateStackType
<1>5. uploadLog' \in Seq(Nat) /\ uploadAsyncCount' \in Nat /\ fileBatchCompleted' \in BOOLEAN
  <2>1. CASE r.all
    BY <1>1, <1>2, <2>1, LogTypes
  <2>2. CASE ~r.all
    BY <1>1, <2>2 DEF TypeOK, progress
  <2> QED
    BY <2>1, <2>2
<1>6. status' \in [Files -> Statuses] /\ fading' \subseteq Fadings
  BY <1>1, <1>3, NearerType, SetStatusType DEF Statuses
<1> QED
  BY <1>1, <1>2, <1>4, <1>5, <1>6 DEF TypeOK, Fadings, Statuses, Entry, history

LEMMA CompleteTypes ==
  ASSUME TypeOK, Complete
  PROVE  TypeOK'
<1> DEFINE r == Head(timers).req
<1>1. /\ timers # <<>> /\ Head(timers).kind = "complete"
      /\ IF r.all
         THEN /\ timers' = Tail(timers) \o IF fileBatchCompleted THEN <<[kind |-> "check"]>> ELSE <<>>
              /\ off' = off \ {r.thumb} /\ UNCHANGED isDisabled
         ELSE timers' = Tail(timers) /\ Enable
      /\ BindSuccess(status) /\ fading' = Nearer
      /\ UNCHANGED <<uploadAsync, stack, frames, idx, status, progress, loads, requests, batch, history>>
  BY DEF Complete
<1>2. Tail(timers) \in Seq(TimerType)
  BY <1>1, HeadTimer
<1>3. timers' \in Seq(TimerType) /\ off' \subseteq Files /\ isDisabled' \in BOOLEAN
  <2>1. [kind |-> "check"] \in TimerType
    BY DEF TimerType
  <2>2. <<[kind |-> "check"]>> \in Seq(TimerType) /\ <<>> \in Seq(TimerType)
    BY <2>1
  <2> DEFINE chk == IF fileBatchCompleted THEN <<[kind |-> "check"]>> ELSE <<>>
  <2>3. CASE r.all
    <3>1. timers' = Tail(timers) \o chk /\ off' = off \ {r.thumb} /\ UNCHANGED isDisabled
      BY <1>1, <2>3
    <3>2. chk \in Seq(TimerType)
      BY <2>2
    <3> HIDE DEF chk
    <3>3. timers' \in Seq(TimerType)
      BY <1>2, <3>1, <3>2
    <3> QED
      BY <3>1, <3>3 DEF TypeOK
  <2>5. CASE ~r.all
    BY <1>1, <1>2, <2>5 DEF TypeOK, Enable
  <2> QED
    BY <2>3, <2>5
<1>4. bound' \in [Files -> Nat \cup {SuccessHandler}]
  BY <1>1 DEF BindSuccess, TypeOK
<1>5. fading' \subseteq Fadings
  BY <1>1, NearerType
<1> QED
  BY <1>1, <1>3, <1>4, <1>5 DEF TypeOK, Fadings, progress, history

LEMMA UnlockTypes ==
  ASSUME TypeOK, NEW reset, NEW s \in Seq(Entry), Unlock(reset, s)
  PROVE  stack' \in Seq(Entry) /\ idx' \in [Files -> Nat] /\ isDisabled' = FALSE /\ off' = {}
<1>1. CASE reset
  BY <1>1, ResetFileStackType DEF Unlock, Enable
<1>2. CASE ~reset
  BY <1>2 DEF Unlock, Enable, TypeOK
<1> QED
  BY <1>1, <1>2

LEMMA CheckTypes ==
  ASSUME TypeOK, Check
  PROVE  TypeOK'
<1>1. /\ timers # <<>> /\ timers' = Tail(timers)
      /\ Unlock(InStack(stack) = {}, stack)
      /\ uploadLog' = <<>> /\ fading' = Nearer
      /\ UNCHANGED <<uploadAsync, frames, bound, status, uploadAsyncCount, fileBatchCompleted, loads, requests, batch>>
      /\ events' = events \cup (IF Stale THEN {"stale"} ELSE {})
      /\ UNCHANGED <<chosen, accepted, discarded, clicks>>
  BY DEF Check, Fire
<1>2. stack \in Seq(Entry)
  BY DEF TypeOK, Entry
<1>3. stack' \in Seq(Entry) /\ idx' \in [Files -> Nat] /\ isDisabled' = FALSE /\ off' = {}
  BY <1>1, <1>2, UnlockTypes
<1>4. timers' \in Seq(TimerType) /\ fading' \subseteq Fadings
  BY <1>1, HeadTimer, NearerType
<1>5. uploadLog' \in Seq(Nat) /\ uploadAsyncCount' \in Nat /\ fileBatchCompleted' \in BOOLEAN
  BY <1>1 DEF TypeOK
<1>6. events' \subseteq EventNames
  <2>1. events \subseteq EventNames
    BY DEF TypeOK, EventNames
  <2> QED
    BY <1>1, <2>1 DEF EventNames
<1> QED
  BY <1>1, <1>3, <1>4, <1>5, <1>6 DEF TypeOK, Entry, Fadings, EventNames

BatchOverPart(s, st) ==
  /\ batch' = None /\ status' = st /\ Unlock(TRUE, s)
  /\ bound' = [f \in Files |-> IF f \in Shown /\ st[f] = "Success" THEN SuccessHandler ELSE bound[f]]
  /\ events' \subseteq EventNames
  /\ UNCHANGED <<uploadAsync, frames, fading, progress, loads, timers, requests, chosen, discarded, clicks>>

LEMMA BatchOverTypes ==
  ASSUME TypeOK, NEW s \in Seq(Entry), NEW st \in [Files -> Statuses], BatchOver(s, st), accepted' \subseteq Files
  PROVE  TypeOK'
<1>1. BatchOverPart(s, st)
  <2>1. events \subseteq EventNames
    BY DEF TypeOK, EventNames
  <2>2. events' \subseteq EventNames
    BY <2>1 DEF BatchOver, EventNames
  <2> QED
    BY <2>2 DEF BatchOver, BindSuccess, BatchOverPart
<1>2. stack' \in Seq(Entry) /\ idx' \in [Files -> Nat] /\ isDisabled' = FALSE /\ off' = {}
  BY <1>1, UnlockTypes DEF BatchOverPart
<1>3. bound' \in [Files -> Nat \cup {SuccessHandler}]
  BY <1>1 DEF BatchOverPart, TypeOK
<1> QED
  BY <1>1, <1>2, <1>3 DEF BatchOverPart, TypeOK, Entry, EventNames, Statuses, progress

LEMMA FailedBatchType ==
  ASSUME TypeOK
  PROVE  FailedBatch \in [Files -> Statuses]
BY DEF FailedBatch, TypeOK, Statuses

LEMMA SentType ==
  ASSUME TypeOK, batch # None
  PROVE  batch \in Batch /\ \A n \in DOMAIN batch.sent : batch.sent[n] \in Files
<1>1. batch \in Batch
  BY DEF TypeOK, Batch
<1> QED
  BY <1>1 DEF Batch

LEMMA EmptiedType ==
  ASSUME TypeOK, batch # None
  PROVE  Emptied \in Seq(Entry)
<1>1. batch.keys \in Nat
  BY SentType DEF Batch
<1>2. stack \in Seq(Entry) /\ Len(stack) \in Nat /\ None \in Entry
  BY DEF TypeOK, Entry
<1>3. CASE batch.keys = 0
  <2>1. [n \in 1 .. Len(stack) |-> None] \in Seq(Entry)
    BY <1>2
  <2> QED
    BY <1>2, <1>3, <2>1 DEF Emptied
<1>4. CASE batch.keys # 0
  <2> DEFINE k == IF batch.keys > Len(stack) THEN batch.keys ELSE Len(stack)
  <2>1. k \in Nat
    BY <1>1, <1>2
  <2>2. ASSUME NEW n \in 1 .. k PROVE (IF n <= batch.keys THEN None ELSE stack[n]) \in Entry
    <3>1. CASE n <= batch.keys
      BY <1>2, <3>1
    <3>2. CASE ~(n <= batch.keys)
      <4>1. n \in 1 .. Len(stack)
        BY <1>1, <1>2, <3>2
      <4> QED
        BY <1>2, <3>2, <4>1, ElementOfSeq
    <3> QED
      BY <3>1, <3>2
  <2> HIDE DEF k
  <2>3. [n \in 1 .. k |-> IF n <= batch.keys THEN None ELSE stack[n]] \in Seq(Entry)
    BY <2>1, <2>2
  <2> QED
    BY <1>4, <2>3 DEF Emptied, k
<1> QED
  BY <1>3, <1>4

LEMMA BatchAnswerTypes ==
  ASSUME TypeOK, NEW keys, AcceptBatch \/ AcceptPart(keys) \/ RejectBatch
  PROVE  TypeOK'
<1>1. batch # None
  BY DEF AcceptBatch, AcceptPart, RejectBatch
<1>2. stack \in Seq(Entry) /\ None \in Entry /\ accepted \subseteq Files
  BY DEF TypeOK, Entry
<1>3. CASE AcceptBatch
  <2> DEFINE st == [f \in Files |-> IF f \in Shown THEN "Success" ELSE status[f]]
  <2>1. st \in [Files -> Statuses]
    BY DEF TypeOK, Statuses
  <2>2. accepted' \subseteq Files
    BY <1>1, <1>2, <1>3, SentType DEF AcceptBatch
  <2>3. BatchOver(Emptied, st)
    BY <1>3 DEF AcceptBatch
  <2> HIDE DEF st
  <2> QED
    BY <1>1, <2>1, <2>2, <2>3, BatchOverTypes, EmptiedType
<1>4. CASE AcceptPart(keys)
  <2> DEFINE failed(n) == keys = {} \/ n \in keys
             nth(f) == CHOOSE n \in DOMAIN Unmarked : Unmarked[n] = f
             marked(f) == \E n \in DOMAIN Unmarked : Unmarked[n] = f
             gone(i) == \E f \in Shown : marked(f) /\ ~failed(nth(f)) /\ idx[f] = i
             s == [i \in DOMAIN stack |-> IF gone(i) THEN None ELSE stack[i]]
             st == [f \in Files |-> IF ~marked(f) THEN status[f] ELSE IF failed(nth(f)) THEN "Error" ELSE "Success"]
  <2>1. accepted' = accepted \cup {batch.sent[n] : n \in {k \in DOMAIN batch.sent : ~failed(k)}} /\ BatchOver(s, st)
    BY <1>4 DEF AcceptPart
  <2>2. accepted' \subseteq Files
    BY <1>1, <1>2, <2>1, SentType
  <2>3. st \in [Files -> Statuses]
    BY DEF TypeOK, Statuses
  <2>4. s \in Seq(Entry)
    <3> HIDE DEF gone
    <3>1. Len(stack) \in Nat /\ DOMAIN stack = 1 .. Len(stack) /\ \A i \in 1 .. Len(stack) : stack[i] \in Entry
      BY <1>2
    <3>2. s \in [1 .. Len(stack) -> Entry]
      BY <1>2, <3>1
    <3> HIDE DEF s
    <3> QED
      BY <3>1, <3>2
  <2> HIDE DEF s, st
  <2> QED
    BY <2>1, <2>2, <2>3, <2>4, BatchOverTypes
<1>5. CASE RejectBatch
  <2>1. accepted' \subseteq Files /\ BatchOver(stack, FailedBatch)
    BY <1>2, <1>5 DEF RejectBatch
  <2> QED
    BY <1>2, <2>1, BatchOverTypes, FailedBatchType
<1> QED
  BY <1>3, <1>4, <1>5

LEMMA RemoveTypes ==
  ASSUME TypeOK, NEW f \in Files, Remove(f)
  PROVE  TypeOK'
<1>1. /\ clicks < MaxClicks /\ clicks' = clicks + 1
      /\ fading' = fading \cup {<<f, bound[f], Len(timers)>>} /\ discarded' = discarded \cup {f}
      /\ UNCHANGED <<uploadAsync, stack, thumbs, isDisabled, progress, loads, timers, requests, batch, chosen, accepted, events>>
  BY DEF Remove, Click
<1>2. <<f, bound[f], Len(timers)>> \in Fadings
  BY DEF TypeOK, Fadings
<1>3. fading' \subseteq Fadings /\ discarded' \subseteq Files
  BY <1>1, <1>2 DEF TypeOK, Fadings
<1>4. clicks' \in 0 .. MaxClicks
  BY <1>1, BoundsAssumption DEF TypeOK
<1> QED
  BY <1>1, <1>3, <1>4 DEF TypeOK, Fadings, thumbs, progress

LEMMA FadedTypes ==
  ASSUME TypeOK, NEW x, Faded(x)
  PROVE  TypeOK'
<1> DEFINE left == UpdateStack(stack, x[2], None)
           others == Only(frames, Files \ {x[1]})
<1>1. /\ x \in fading /\ fading' = fading \ {x} /\ frames' = others
      /\ IF Last(x) THEN stack' = <<>> /\ ResetUpload /\ requests' = Forgotten /\ BatchForgotten(TRUE)
         ELSE stack' = left /\ UNCHANGED <<uploadLog, uploadAsyncCount, requests, batch>>
      /\ events' = events \cup IF Last(x) /\ InStack(left) # {} THEN {"reset"} ELSE {}
      /\ UNCHANGED <<uploadAsync, idx, bound, status, off, isDisabled, fileBatchCompleted, loads, timers,
                     chosen, accepted, discarded, clicks>>
  BY DEF Faded
<1>2. x[2] \in Int
  <2>1. x \in Fadings
    BY <1>1 DEF TypeOK, Fadings
  <2> QED
    BY <2>1 DEF Fadings, SuccessHandler
<1>3. left \in Seq(Entry)
  <2>1. stack \in Seq(Entry) /\ None \in Entry
    BY DEF TypeOK, Entry
  <2> QED
    BY <1>2, <2>1, UpdateStackType
<1>4. others \in Seq(Files)
  <2>1. others \in Seq(Files \cap (Files \ {x[1]}))
    BY OnlyProperties DEF TypeOK
  <2>2. Files \cap (Files \ {x[1]}) \subseteq Files
    OBVIOUS
  <2> HIDE DEF others
  <2> QED
    BY <2>1, <2>2, SeqOfLarger
<1> HIDE DEF left, others
<1>5. stack' \in Seq(Entry) /\ uploadLog' \in Seq(Nat) /\ uploadAsyncCount' \in Nat
      /\ requests' \in Seq(RequestType) /\ (batch' = None \/ batch' \in Batch)
  <2>1. CASE Last(x)
    <3>1. stack' = <<>> /\ uploadLog' = <<>> /\ uploadAsyncCount' = 0
      BY <1>1, <2>1 DEF ResetUpload
    <3>2. requests' \in Seq(RequestType) /\ (batch' = None \/ batch' \in Batch)
      BY <1>1, <2>1, RequestTypes, BatchForgottenType
    <3> QED
      BY <3>1, <3>2
  <2>2. CASE ~Last(x)
    BY <1>1, <1>3, <2>2 DEF TypeOK, Batch
  <2> QED
    BY <2>1, <2>2
<1>6. events' \subseteq EventNames
  <2>1. events \subseteq EventNames
    BY DEF TypeOK, EventNames
  <2> QED
    BY <1>1, <2>1 DEF EventNames
<1> QED
  BY <1>1, <1>4, <1>5, <1>6 DEF TypeOK, Entry, Batch, EventNames

LEMMA ClearTypes ==
  ASSUME TypeOK, Clear
  PROVE  TypeOK'
<1>1. /\ clicks < MaxClicks /\ clicks' = clicks + 1
      /\ uploadLog' = <<>> /\ uploadAsyncCount' = 0 /\ requests' = Forgotten /\ stack' = <<>> /\ frames' = <<>>
      /\ discarded' = discarded \cup InStack(stack) /\ BatchForgotten(TRUE)
      /\ events' = events \cup (IF Reading THEN {"overlap"} ELSE {}) \cup (IF fading # {} THEN {"fading"} ELSE {})
      /\ UNCHANGED <<uploadAsync, idx, bound, status, off, fading, isDisabled, fileBatchCompleted, loads, timers, chosen, accepted>>
  BY DEF Clear, Click, ResetUpload
<1>2. requests' \in Seq(RequestType) /\ (batch' = None \/ batch' \in Batch)
  BY <1>1, RequestTypes, BatchForgottenType
<1>3. clicks' \in 0 .. MaxClicks
  BY <1>1, BoundsAssumption DEF TypeOK
<1>4. discarded' \subseteq Files
  BY <1>1, AtType DEF TypeOK, Entry
<1>5. events' \subseteq EventNames
  <2>1. events \subseteq EventNames
    BY DEF TypeOK, EventNames
  <2> QED
    BY <1>1, <2>1 DEF EventNames
<1>6. uploadLog' \in Seq(Nat) /\ uploadAsyncCount' \in Nat /\ stack' \in Seq(Entry) /\ frames' \in Seq(Files)
  BY <1>1
<1> QED
  BY <1>1, <1>2, <1>3, <1>4, <1>5, <1>6 DEF TypeOK, Entry, Batch, EventNames

\* The places of a sequence that belong to a set, in their order.
LEMMA PlacesChosen ==
  ASSUME NEW T, NEW s \in Seq(T), NEW S
  PROVE  /\ Only([n \in DOMAIN s |-> n], S) \in Seq(Nat)
         /\ \A k \in 1 .. Len(Only([n \in DOMAIN s |-> n], S)) : Only([n \in DOMAIN s |-> n], S)[k] \in S \cap 1 .. Len(s)
<1> DEFINE p == [n \in DOMAIN s |-> n]
<1>1. p \in Seq(1 .. Len(s))
  OBVIOUS
<1>2. Only(p, S) \in Seq((1 .. Len(s)) \cap S)
  BY <1>1, OnlyProperties
<1> HIDE DEF p
<1>3. \A n \in 1 .. Len(Only(p, S)) : Only(p, S)[n] \in (1 .. Len(s)) \cap S
  BY <1>2, ElementOfSeq
<1>4. (1 .. Len(s)) \cap S \subseteq Nat
  OBVIOUS
<1>5. Only(p, S) \in Seq(Nat)
  BY <1>2, <1>4, SeqOfLarger
<1> QED
  BY <1>3, <1>5 DEF p

LEMMA CancelTypes ==
  ASSUME TypeOK, Cancel
  PROVE  TypeOK'
<1> DEFINE places == [n \in DOMAIN requests |-> n]
           known == {n \in DOMAIN requests : requests[n].kept}
           bad == {n \in known : Throws(requests[n])}
           stop == IF bad = {} THEN Len(requests) + 1 ELSE CHOOSE n \in bad : \A m \in bad : n <= m
           aborted == Only(places, {n \in known : n < stop})
           ends == [n \in 1 .. 2 * Len(aborted) |->
                      LET r == requests[aborted[(n + 1) \div 2]]
                      IN Timer(IF n % 2 = 1 THEN "error" ELSE "complete", r, r.i)]
           left == Only(places, (DOMAIN requests \ known) \cup {n \in known : n > stop})
           abortsBatch == batch # None /\ batch.kept
<1>1. /\ clicks < MaxClicks /\ clicks' = clicks + 1
      /\ requests' = [n \in DOMAIN left |-> requests[left[n]]]
      /\ timers' = timers \o ends
      /\ IF bad = {} /\ (frames # <<>> \/ abortsBatch) THEN Unlock(TRUE, stack) ELSE UNCHANGED <<isDisabled, off, stack, idx>>
      /\ IF abortsBatch THEN batch' = None /\ status' = FailedBatch /\ BindSuccess(status')
         ELSE UNCHANGED <<status, bound>> /\ (IF frames # <<>> THEN BatchForgotten(TRUE) ELSE UNCHANGED batch)
      /\ events' = events \cup {"cancel"}
      /\ UNCHANGED <<uploadAsync, frames, fading, progress, loads, chosen, accepted, discarded>>
  BY DEF Cancel, Click
<1>2. requests \in Seq(RequestType) /\ \A n \in 1 .. Len(requests) : requests[n] \in RequestType
  BY DEF TypeOK
<1>3. aborted \in Seq(Nat) /\ \A n \in 1 .. Len(aborted) : aborted[n] \in 1 .. Len(requests)
  <2>1. aborted \in Seq(Nat) /\ \A k \in 1 .. Len(aborted) : aborted[k] \in {n \in known : n < stop} \cap 1 .. Len(requests)
    BY <1>2, PlacesChosen
  <2> QED
    BY <2>1
<1>4. left \in Seq(Nat) /\ \A n \in 1 .. Len(left) : left[n] \in 1 .. Len(requests)
  <2>1. left \in Seq(Nat) /\ \A k \in 1 .. Len(left) : left[k] \in ((DOMAIN requests \ known) \cup {n \in known : n > stop}) \cap 1 .. Len(requests)
    BY <1>2, PlacesChosen
  <2> QED
    BY <2>1
<1> HIDE DEF aborted, left, bad, abortsBatch
<1>5. requests' \in Seq(RequestType)
  <2>1. Len(left) \in Nat /\ DOMAIN left = 1 .. Len(left)
    BY <1>4
  <2>2. requests' = [n \in 1 .. Len(left) |-> requests[left[n]]]
    BY <1>1, <2>1
  <2>3. requests' \in [1 .. Len(left) -> RequestType]
    BY <1>2, <1>4, <2>2
  <2> QED
    BY <2>1, <2>3
<1>6. timers' \in Seq(TimerType)
  <2>1. Len(aborted) \in Nat /\ 2 * Len(aborted) \in Nat
    BY <1>3
  <2>2. ASSUME NEW n \in 1 .. 2 * Len(aborted) PROVE ends[n] \in TimerType
    <3> DEFINE r == requests[aborted[(n + 1) \div 2]]
    <3>1. (n + 1) \div 2 \in 1 .. Len(aborted)
      BY <2>1
    <3>2. r \in RequestType
      BY <1>2, <1>3, <3>1
    <3>3. ends[n] = Timer(IF n % 2 = 1 THEN "error" ELSE "complete", r, r.i)
      OBVIOUS
    <3> HIDE DEF r
    <3> QED
      BY <3>2, <3>3 DEF Timer, TimerType, RequestType
  <2>3. ends = [n \in 1 .. 2 * Len(aborted) |-> ends[n]]
    OBVIOUS
  <2> HIDE DEF ends
  <2>4. ends \in [1 .. 2 * Len(aborted) -> TimerType]
    BY <2>2, <2>3
  <2>5. ends \in Seq(TimerType)
    BY <2>1, <2>4
  <2> QED
    BY <1>1, <2>5 DEF TypeOK
<1>7. stack' \in Seq(Entry) /\ idx' \in [Files -> Nat] /\ isDisabled' \in BOOLEAN /\ off' \subseteq Files
  <2>1. stack \in Seq(Entry) /\ idx \in [Files -> Nat] /\ isDisabled \in BOOLEAN /\ off \subseteq Files
    BY DEF TypeOK, Entry
  <2>2. CASE bad = {} /\ (frames # <<>> \/ abortsBatch)
    <3>1. Unlock(TRUE, stack)
      BY <1>1, <2>2
    <3> QED
      BY <2>1, <3>1, UnlockTypes
  <2>3. CASE ~(bad = {} /\ (frames # <<>> \/ abortsBatch))
    BY <1>1, <2>1, <2>3
  <2> QED
    BY <2>2, <2>3
<1>8. /\ status' \in [Files -> Statuses] /\ bound' \in [Files -> Nat \cup {SuccessHandler}]
      /\ batch' = None \/ batch' \in Batch
  <2>1. CASE abortsBatch
    <3>1. batch' = None /\ status' = FailedBatch /\ BindSuccess(status')
      BY <1>1, <2>1
    <3>2. bound' \in [Files -> Nat \cup {SuccessHandler}]
      BY <3>1 DEF BindSuccess, TypeOK
    <3> QED
      BY <3>1, <3>2, FailedBatchType
  <2>2. CASE ~abortsBatch
    <3>1. UNCHANGED <<status, bound>> /\ (BatchForgotten(TRUE) \/ batch' = batch)
      BY <1>1, <2>2
    <3>2. batch' = None \/ batch' \in Batch
      BY <3>1, BatchForgottenType DEF TypeOK, Batch
    <3> QED
      BY <3>1, <3>2 DEF TypeOK, Statuses
  <2> QED
    BY <2>1, <2>2
<1>9. clicks' \in 0 .. MaxClicks /\ events' \subseteq EventNames
  BY <1>1, BoundsAssumption DEF TypeOK, EventNames
<1> QED
  BY <1>1, <1>5, <1>6, <1>7, <1>8, <1>9 DEF TypeOK, Entry, Batch, EventNames, Statuses, progress

LEMMA InitTypes ==
  ASSUME Init
  PROVE  TypeOK
<1>1. <<>> \in Seq(Files \cup {None}) /\ <<>> \in Seq(Files) /\ <<>> \in Seq(Nat) /\ <<>> \in Seq(TimerType) /\ <<>> \in Seq(RequestType)
  OBVIOUS
<1>2. 0 \in 0 .. MaxClicks
  BY BoundsAssumption
<1> QED
  BY <1>1, <1>2 DEF Init, TypeOK

LEMMA NextTypes ==
  ASSUME TypeOK, [Next]_vars
  PROVE  TypeOK'
<1>1. CASE UNCHANGED vars
  BY <1>1 DEF TypeOK, vars, thumbs, progress, history
<1>2. ASSUME NEW S \in Selections, Select(S) PROVE TypeOK'
  BY <1>2, SelectTypes
<1>3. ASSUME NEW f \in Files, UploadOne(f) \/ Remove(f) PROVE TypeOK'
  BY <1>3, UploadOneTypes, RemoveTypes
<1>4. ASSUME NEW n \in DOMAIN requests, Accept(n) \/ Refuse(n) \/ Reject(n) PROVE TypeOK'
  BY <1>4, AnswerTypes
<1>5. ASSUME NEW keys, AcceptBatch \/ AcceptPart(keys) \/ RejectBatch PROVE TypeOK'
  BY <1>5, BatchAnswerTypes
<1>6. ASSUME NEW r \in loads, Load(r) PROVE TypeOK'
  BY <1>6, LoadTypes
<1>7. ASSUME NEW x, Faded(x) PROVE TypeOK'
  BY <1>7, FadedTypes
<1>8. CASE User
  BY <1>2, <1>3, <1>8, UploadAllTypes, UploadBatchTypes, CancelTypes, ClearTypes DEF User
<1>9. CASE Server
  BY <1>4, <1>5, <1>9 DEF Server
<1>10. CASE Browser
  BY <1>6, <1>7, <1>10, ReadNextTypes, SuccessTypes, ErrorTypes, CompleteTypes, CheckTypes DEF Browser, Tick
<1> QED
  BY <1>1, <1>8, <1>9, <1>10 DEF Next

\* The stack, the thumbnails, the timers and the requests keep their types,
\* whatever the user, the server and the timers do in whatever order.
THEOREM FileInputTypes == Spec => []TypeOK
<1>1. Init => TypeOK
  BY InitTypes
<1>2. TypeOK /\ [Next]_vars => TypeOK'
  BY NextTypes
<1> QED
  BY <1>1, <1>2, PTL DEF Spec

-----------------------------------------------------------------------------
(* The calls under way: the requests that are open, and the handlers of those *)
(* that have ended, which wait in the queue of timers.                        *)

SettlesIn(ts) == {n \in DOMAIN ts : ts[n].kind \in {"success", "error"}}
CompletesIn(ts) == {n \in DOMAIN ts : ts[n].kind = "complete"}
ChecksIn(ts) == {n \in DOMAIN ts : ts[n].kind = "check"}
SilentIn(ts) == SettlesIn(ts) = {} /\ CompletesIn(ts) = {} /\ ChecksIn(ts) = {}

\* The two handlers of a request stay side by side.
Pairs(ts) ==
  /\ \A n \in SettlesIn(ts) : n + 1 \in CompletesIn(ts) /\ ts[n + 1].req = ts[n].req
  /\ \A n \in CompletesIn(ts) : n > 1 => n - 1 \in SettlesIn(ts)

\* There is a call of one file (all is FALSE), or of an upload of all.
Calls(reqs, ts, all) ==
  \/ \E n \in DOMAIN reqs : reqs[n].all = all
  \/ \E n \in SettlesIn(ts) \cup CompletesIn(ts) : ts[n].req.all = all

OneCall(reqs, ts) ==
  /\ ChecksIn(ts) = {}
  /\ reqs # <<>> => Len(reqs) = 1 /\ SettlesIn(ts) = {} /\ CompletesIn(ts) = {}
  /\ \A n, m \in CompletesIn(ts) : n = m

OneCheck(reqs, ts) ==
  /\ reqs = <<>> /\ SettlesIn(ts) = {} /\ CompletesIn(ts) = {}
  /\ \A n, m \in ChecksIn(ts) : n = m

Over(reqs, ts) == reqs = <<>> /\ SettlesIn(ts) = {} /\ ChecksIn(ts) = {}

\* The log does not fill up before the last answer has been dealt with.
Counted(reqs, ts, log, count) == count = 0 \/ Len(reqs) + Cardinality(SettlesIn(ts)) + Len(log) <= count

Track(reqs, ts, log, count, over) ==
  /\ Pairs(ts)
  /\ Calls(reqs, ts, FALSE) => OneCall(reqs, ts)
  /\ ChecksIn(ts) # {} => OneCheck(reqs, ts)
  /\ Calls(reqs, ts, TRUE) => (over => Over(reqs, ts)) /\ Counted(reqs, ts, log, count)

ControlInv ==
  \/ Happened({"cancel", "retry"})
  \/ /\ Track(requests, timers, uploadLog, uploadAsyncCount, fileBatchCompleted)
     /\ ~isDisabled \/ batch # None => requests = <<>> /\ SilentIn(timers)
     /\ ~isDisabled => batch = None

LEMMA SettlesFinite ==
  ASSUME NEW T, NEW ts \in Seq(T)
  PROVE  IsFiniteSet(SettlesIn(ts)) /\ Cardinality(SettlesIn(ts)) \in Nat
<1>1. SettlesIn(ts) \in SUBSET (1 .. Len(ts)) /\ Len(ts) \in Nat
  BY DEF SettlesIn
<1>2. IsFiniteSet(SettlesIn(ts))
  BY <1>1, UpToSize, FS_Subset
<1> QED
  BY <1>2, FS_CardinalityType

LEMMA ShiftedCardinality ==
  ASSUME NEW S, S \subseteq Nat, IsFiniteSet(S), NEW T, T \subseteq Nat, NEW k \in Nat, \A n \in T : n + k \in S
  PROVE  Cardinality(T) <= Cardinality(S)
<1> DEFINE f == [n \in T |-> n + k]
<1>1. f \in [T -> S]
  OBVIOUS
<1>2. \A m, n \in T : m # n => f[m] # f[n]
  OBVIOUS
<1>3. f \in Injection(T, S)
  BY <1>1, <1>2 DEF Injection, IsInjective
<1> QED
  BY <1>3, FS_Injection

\* us is what is left of ts without its first k timers, readings apart.
Follows(us, ts, k) ==
  /\ \A n \in SettlesIn(us) : n + k \in SettlesIn(ts) /\ us[n].req = ts[n + k].req
  /\ \A n \in CompletesIn(us) : n + k \in CompletesIn(ts) /\ us[n].req = ts[n + k].req
  /\ \A n \in ChecksIn(us) : n + k \in ChecksIn(ts)
  /\ \A n \in Nat \ {0} : n + k \in SettlesIn(ts) => n \in SettlesIn(us) /\ us[n].req = ts[n + k].req
  /\ \A n \in Nat \ {0} : n + k \in CompletesIn(ts) => n \in CompletesIn(us) /\ us[n].req = ts[n + k].req

LEMMA TrackFollows ==
  ASSUME NEW reqs, NEW ts \in Seq(TimerType), NEW us \in Seq(TimerType), NEW k \in {0, 1}, Follows(us, ts, k),
         NEW log, NEW count, NEW over, Len(log) \in Nat, count \in Nat, Len(reqs) \in Nat,
         Track(reqs, ts, log, count, over)
  PROVE  Track(reqs, us, log, count, over) /\ (SilentIn(ts) => SilentIn(us))
<1>1. /\ SettlesIn(us) \subseteq Nat \ {0} /\ CompletesIn(us) \subseteq Nat \ {0} /\ ChecksIn(us) \subseteq Nat \ {0}
      /\ SettlesIn(ts) \subseteq Nat \ {0} /\ CompletesIn(ts) \subseteq Nat \ {0} /\ ChecksIn(ts) \subseteq Nat \ {0}
  BY DEF SettlesIn, CompletesIn, ChecksIn
<1>2. Pairs(us)
  <2>1. ASSUME NEW n \in SettlesIn(us) PROVE n + 1 \in CompletesIn(us) /\ us[n + 1].req = us[n].req
    <3>1. n \in Nat \ {0} /\ n + 1 \in Nat \ {0} /\ (n + 1) + k = (n + k) + 1
      BY <1>1
    <3>2. n + k \in SettlesIn(ts) /\ us[n].req = ts[n + k].req
      BY DEF Follows
    <3>3. (n + k) + 1 \in CompletesIn(ts) /\ ts[(n + k) + 1].req = ts[n + k].req
      BY <3>2 DEF Track, Pairs
    <3>4. n + 1 \in CompletesIn(us) /\ us[n + 1].req = ts[(n + 1) + k].req
      BY <3>1, <3>3 DEF Follows
    <3> QED
      BY <3>1, <3>2, <3>3, <3>4
  <2>2. ASSUME NEW n \in CompletesIn(us), n > 1 PROVE n - 1 \in SettlesIn(us)
    <3>1. n \in Nat \ {0} /\ n - 1 \in Nat \ {0} /\ (n - 1) + k = (n + k) - 1 /\ n + k > 1
      BY <1>1, <2>2
    <3>2. n + k \in CompletesIn(ts)
      BY DEF Follows
    <3>3. (n + k) - 1 \in SettlesIn(ts)
      BY <3>1, <3>2 DEF Track, Pairs
    <3> QED
      BY <3>1, <3>3 DEF Follows
  <2> QED
    BY <2>1, <2>2 DEF Pairs
<1>3. ASSUME NEW all, Calls(reqs, us, all) PROVE Calls(reqs, ts, all)
  BY <1>3 DEF Calls, Follows
<1>4. /\ SettlesIn(ts) = {} => SettlesIn(us) = {}
      /\ CompletesIn(ts) = {} => CompletesIn(us) = {}
      /\ ChecksIn(ts) = {} => ChecksIn(us) = {}
  BY DEF Follows
<1>5. /\ (\A n, m \in CompletesIn(ts) : n = m) => (\A n, m \in CompletesIn(us) : n = m)
      /\ (\A n, m \in ChecksIn(ts) : n = m) => (\A n, m \in ChecksIn(us) : n = m)
  <2>1. ASSUME \A n, m \in CompletesIn(ts) : n = m, NEW n \in CompletesIn(us), NEW m \in CompletesIn(us) PROVE n = m
    <3>1. n + k = m + k
      BY <2>1 DEF Follows
    <3> QED
      BY <1>1, <3>1
  <2>2. ASSUME \A n, m \in ChecksIn(ts) : n = m, NEW n \in ChecksIn(us), NEW m \in ChecksIn(us) PROVE n = m
    <3>1. n + k = m + k
      BY <2>2 DEF Follows
    <3> QED
      BY <1>1, <3>1
  <2> QED
    BY <2>1, <2>2
<1>6. Cardinality(SettlesIn(us)) <= Cardinality(SettlesIn(ts)) /\ Cardinality(SettlesIn(us)) \in Nat /\ Cardinality(SettlesIn(ts)) \in Nat
  <2>1. IsFiniteSet(SettlesIn(ts)) /\ SettlesIn(ts) \subseteq Nat /\ SettlesIn(us) \subseteq Nat /\ k \in Nat
    BY <1>1, SettlesFinite
  <2>2. \A n \in SettlesIn(us) : n + k \in SettlesIn(ts)
    BY DEF Follows
  <2>3. Cardinality(SettlesIn(us)) <= Cardinality(SettlesIn(ts))
    BY <2>1, <2>2, ShiftedCardinality
  <2> QED
    BY <2>3, SettlesFinite
<1>7. Calls(reqs, us, FALSE) => OneCall(reqs, us)
  BY <1>3, <1>4, <1>5 DEF Track, OneCall
<1>8. ChecksIn(us) # {} => OneCheck(reqs, us)
  BY <1>4, <1>5 DEF Track, OneCheck
<1>9. Calls(reqs, us, TRUE) => (over => Over(reqs, us)) /\ Counted(reqs, us, log, count)
  <2>1. SUFFICES ASSUME Calls(reqs, us, TRUE) PROVE (over => Over(reqs, us)) /\ Counted(reqs, us, log, count)
    OBVIOUS
  <2>2. (over => Over(reqs, ts)) /\ Counted(reqs, ts, log, count)
    BY <1>3, <2>1 DEF Track
  <2>3. over => Over(reqs, us)
    BY <1>4, <2>2 DEF Over
  <2> DEFINE c == Cardinality(SettlesIn(us))
             d == Cardinality(SettlesIn(ts))
  <2>4. c <= d /\ c \in Nat /\ d \in Nat
    BY <1>6
  <2>5. count = 0 \/ Len(reqs) + d + Len(log) <= count
    BY <2>2 DEF Counted
  <2> HIDE DEF c, d
  <2>6. count = 0 \/ Len(reqs) + c + Len(log) <= count
    BY <2>4, <2>5
  <2> QED
    BY <2>3, <2>6 DEF Counted, c
<1> QED
  BY <1>2, <1>4, <1>7, <1>8, <1>9 DEF Track, SilentIn

LEMMA TailFollows ==
  ASSUME NEW ts \in Seq(TimerType), ts # <<>>
  PROVE  Tail(ts) \in Seq(TimerType) /\ Follows(Tail(ts), ts, 1)
<1>1. /\ Tail(ts) \in Seq(TimerType) /\ Len(Tail(ts)) = Len(ts) - 1 /\ Len(ts) \in Nat \ {0}
      /\ \A n \in 1 .. Len(ts) - 1 : Tail(ts)[n] = ts[n + 1]
  OBVIOUS
<1>2. DOMAIN Tail(ts) = 1 .. Len(ts) - 1 /\ DOMAIN ts = 1 .. Len(ts)
  BY <1>1
<1>3. \A n \in 1 .. Len(ts) - 1 : n + 1 \in 1 .. Len(ts)
  BY <1>1
<1>4. \A n \in Nat \ {0} : n + 1 \in 1 .. Len(ts) => n \in 1 .. Len(ts) - 1
  BY <1>1
<1> QED
  BY <1>1, <1>2, <1>3, <1>4 DEF Follows, SettlesIn, CompletesIn, ChecksIn

LEMMA ReadAppended ==
  ASSUME NEW ts \in Seq(TimerType), NEW t \in TimerType, t.kind = "read"
  PROVE  Append(ts, t) \in Seq(TimerType) /\ Follows(Append(ts, t), ts, 0)
<1>1. /\ Append(ts, t) \in Seq(TimerType) /\ Len(Append(ts, t)) = Len(ts) + 1 /\ Len(ts) \in Nat
      /\ \A n \in 1 .. Len(ts) : Append(ts, t)[n] = ts[n]
      /\ Append(ts, t)[Len(ts) + 1] = t
  OBVIOUS
<1>2. DOMAIN Append(ts, t) = 1 .. Len(ts) + 1 /\ DOMAIN ts = 1 .. Len(ts)
  BY <1>1
<1>3. \A n \in 1 .. Len(ts) + 1 : n = Len(ts) + 1 \/ n \in 1 .. Len(ts)
  BY <1>1
<1>4. \A n \in 1 .. Len(ts) : n \in 1 .. Len(ts) + 1 /\ n + 0 = n
  BY <1>1
<1>5. \A n \in Nat : n + 0 = n
  OBVIOUS
<1> QED
  BY <1>1, <1>2, <1>3, <1>4, <1>5 DEF Follows, SettlesIn, CompletesIn, ChecksIn

\* What a reading adds to the queue, or takes from it.
ReadsOnly(us, ts) == us = ts \/ \E t \in TimerType : t.kind = "read" /\ us = Append(ts, t)

LEMMA TrackReads ==
  ASSUME NEW reqs, NEW ts \in Seq(TimerType), NEW us, ReadsOnly(us, ts),
         NEW log, NEW count, NEW over, Len(log) \in Nat, count \in Nat, Len(reqs) \in Nat,
         Track(reqs, ts, log, count, over)
  PROVE  Track(reqs, us, log, count, over) /\ (SilentIn(ts) => SilentIn(us))
<1>1. CASE us = ts
  BY <1>1
<1>2. ASSUME NEW t \in TimerType, t.kind = "read", us = Append(ts, t)
      PROVE  Track(reqs, us, log, count, over) /\ (SilentIn(ts) => SilentIn(us))
  <2>1. us \in Seq(TimerType) /\ Follows(us, ts, 0)
    BY <1>2, ReadAppended
  <2> QED
    BY <2>1, TrackFollows
<1> QED
  BY <1>1, <1>2 DEF ReadsOnly

\* A request that has ended makes way for its two handlers, or for nothing.
LEMMA TrackDropped ==
  ASSUME NEW reqs \in Seq(RequestType), NEW n \in 1 .. Len(reqs), NEW ts \in Seq(TimerType),
         NEW log, NEW count \in Nat, NEW over, Len(log) \in Nat, Track(reqs, ts, log, count, over)
  PROVE  Track(Seqs!RemoveAt(reqs, n), ts, log, count, over)
<1> DEFINE rest == Seqs!RemoveAt(reqs, n)
<1>1. /\ rest \in Seq(RequestType) /\ Len(rest) = Len(reqs) - 1 /\ Len(reqs) \in Nat /\ reqs # <<>>
      /\ \A i \in 1 .. Len(reqs) - 1 : rest[i] = IF i < n THEN reqs[i] ELSE reqs[i + 1]
  BY RemoveAtProperties
<1> HIDE DEF rest
<1>2. ASSUME NEW all, Calls(rest, ts, all) PROVE Calls(reqs, ts, all)
  <2>1. \A i \in DOMAIN rest : i \in DOMAIN reqs /\ i + 1 \in DOMAIN reqs
    BY <1>1
  <2>2. \A i \in DOMAIN rest : rest[i] = reqs[i] \/ rest[i] = reqs[i + 1]
    BY <1>1
  <2> QED
    BY <1>2, <2>1, <2>2 DEF Calls
<1>3. Calls(rest, ts, FALSE) => OneCall(rest, ts)
  <2>1. SUFFICES ASSUME OneCall(reqs, ts) PROVE OneCall(rest, ts)
    BY <1>2 DEF Track
  <2>2. rest = <<>>
    BY <1>1, <2>1 DEF OneCall
  <2> QED
    BY <1>1, <2>1, <2>2 DEF OneCall
<1>4. ChecksIn(ts) = {}
  BY <1>1 DEF Track, OneCheck
<1>5. Calls(rest, ts, TRUE) => (over => Over(rest, ts)) /\ Counted(rest, ts, log, count)
  <2>1. SUFFICES ASSUME over => Over(reqs, ts), Counted(reqs, ts, log, count)
                 PROVE  (over => Over(rest, ts)) /\ Counted(rest, ts, log, count)
    BY <1>2 DEF Track
  <2>2. ~over
    BY <1>1, <2>1 DEF Over
  <2>3. Counted(rest, ts, log, count)
    <3> DEFINE c == Cardinality(SettlesIn(ts))
    <3>1. c \in Nat
      BY SettlesFinite
    <3>2. count = 0 \/ Len(reqs) + c + Len(log) <= count
      BY <2>1 DEF Counted
    <3> HIDE DEF c
    <3>3. count = 0 \/ Len(rest) + c + Len(log) <= count
      BY <1>1, <3>1, <3>2
    <3> QED
      BY <3>3 DEF Counted, c
  <2> QED
    BY <2>2, <2>3
<1> QED
  BY <1>3, <1>4, <1>5 DEF Track, rest

LEMMA PairAppended ==
  ASSUME NEW ts \in Seq(TimerType), NEW a \in TimerType, NEW b \in TimerType,
         a.kind \in {"success", "error"}, b.kind = "complete"
  PROVE  LET us == ts \o <<a, b>> IN
         /\ us \in Seq(TimerType)
         /\ SettlesIn(us) = SettlesIn(ts) \cup {Len(ts) + 1}
         /\ CompletesIn(us) = CompletesIn(ts) \cup {Len(ts) + 2}
         /\ ChecksIn(us) = ChecksIn(ts)
         /\ \A n \in 1 .. Len(ts) : us[n] = ts[n]
         /\ us[Len(ts) + 1] = a /\ us[Len(ts) + 2] = b
<1> DEFINE us == ts \o <<a, b>>
           k == Len(ts)
<1>1. /\ us \in Seq(TimerType) /\ Len(us) = k + 2 /\ k \in Nat
      /\ \A n \in 1 .. k : us[n] = ts[n]
      /\ us[k + 1] = a /\ us[k + 2] = b
  OBVIOUS
<1>2. DOMAIN us = 1 .. k + 2 /\ DOMAIN ts = 1 .. k
  BY <1>1
<1> HIDE DEF us, k
<1>3. \A n : n \in 1 .. k + 2 <=> n \in 1 .. k \/ n = k + 1 \/ n = k + 2
  BY <1>1
<1>4. SettlesIn(us) = SettlesIn(ts) \cup {k + 1}
  BY <1>1, <1>2, <1>3 DEF SettlesIn
<1>5. CompletesIn(us) = CompletesIn(ts) \cup {k + 2}
  BY <1>1, <1>2, <1>3 DEF CompletesIn
<1>6. ChecksIn(us) = ChecksIn(ts)
  BY <1>1, <1>2, <1>3 DEF ChecksIn
<1> QED
  BY <1>1, <1>4, <1>5, <1>6 DEF us, k

LEMMA TrackAnswered ==
  ASSUME NEW reqs \in Seq(RequestType), NEW n \in 1 .. Len(reqs), NEW ts \in Seq(TimerType),
         NEW a \in TimerType, NEW b \in TimerType,
         a.kind \in {"success", "error"}, b.kind = "complete", a.req = reqs[n], b.req = reqs[n],
         NEW log, NEW count \in Nat, NEW over, Len(log) \in Nat, Track(reqs, ts, log, count, over)
  PROVE  Track(Seqs!RemoveAt(reqs, n), ts \o <<a, b>>, log, count, over)
<1> DEFINE rest == Seqs!RemoveAt(reqs, n)
           us == ts \o <<a, b>>
           k == Len(ts)
<1>1. /\ rest \in Seq(RequestType) /\ Len(rest) = Len(reqs) - 1 /\ Len(reqs) \in Nat /\ reqs # <<>>
      /\ \A i \in 1 .. Len(reqs) - 1 : rest[i] = IF i < n THEN reqs[i] ELSE reqs[i + 1]
  BY RemoveAtProperties
<1>2. /\ SettlesIn(us) = SettlesIn(ts) \cup {k + 1} /\ CompletesIn(us) = CompletesIn(ts) \cup {k + 2}
      /\ ChecksIn(us) = ChecksIn(ts)
      /\ \A m \in 1 .. k : us[m] = ts[m]
      /\ us[k + 1] = a /\ us[k + 2] = b
  BY PairAppended
<1>3. k \in Nat /\ SettlesIn(ts) \subseteq 1 .. k /\ CompletesIn(ts) \subseteq 1 .. k
  BY DEF SettlesIn, CompletesIn
<1> HIDE DEF rest, us, k
<1>4. Pairs(us)
  <2>1. ASSUME NEW m \in SettlesIn(us) PROVE m + 1 \in CompletesIn(us) /\ us[m + 1].req = us[m].req
    <3>1. CASE m = k + 1
      <4>1. m + 1 = k + 2
        BY <1>3, <3>1
      <4> QED
        BY <1>2, <3>1, <4>1
    <3>2. CASE m \in SettlesIn(ts)
      <4>1. m + 1 \in CompletesIn(ts) /\ ts[m + 1].req = ts[m].req
        BY <3>2 DEF Track, Pairs
      <4>2. m \in 1 .. k /\ m + 1 \in 1 .. k
        BY <1>3, <3>2, <4>1
      <4> QED
        BY <1>2, <4>1, <4>2
    <3> QED
      BY <1>2, <3>1, <3>2
  <2>2. ASSUME NEW m \in CompletesIn(us), m > 1 PROVE m - 1 \in SettlesIn(us)
    <3>1. CASE m = k + 2
      <4>1. m - 1 = k + 1
        BY <1>3, <3>1
      <4> QED
        BY <1>2, <4>1
    <3>2. CASE m \in CompletesIn(ts)
      <4>1. m - 1 \in SettlesIn(ts)
        BY <2>2, <3>2 DEF Track, Pairs
      <4> QED
        BY <1>2, <4>1
    <3> QED
      BY <1>2, <3>1, <3>2
  <2> QED
    BY <2>1, <2>2 DEF Pairs
<1>5. ASSUME NEW all, Calls(rest, us, all) PROVE Calls(reqs, ts, all)
  <2>1. \A i \in DOMAIN rest : i \in DOMAIN reqs /\ i + 1 \in DOMAIN reqs
    BY <1>1
  <2>2. \A i \in DOMAIN rest : rest[i] = reqs[i] \/ rest[i] = reqs[i + 1]
    BY <1>1
  <2>3. ASSUME NEW m \in SettlesIn(us) \cup CompletesIn(us), us[m].req.all = all PROVE Calls(reqs, ts, all)
    <3>1. CASE m \in SettlesIn(ts) \cup CompletesIn(ts)
      <4>1. us[m] = ts[m]
        BY <1>2, <1>3, <3>1
      <4> QED
        BY <2>3, <3>1, <4>1 DEF Calls
    <3>2. CASE m \in {k + 1, k + 2}
      <4>1. us[m].req = reqs[n] /\ n \in DOMAIN reqs
        BY <1>2, <3>2
      <4> QED
        BY <2>3, <4>1 DEF Calls
    <3> QED
      BY <1>2, <3>1, <3>2
  <2> QED
    BY <1>5, <2>1, <2>2, <2>3 DEF Calls
<1>6. Calls(rest, us, FALSE) => OneCall(rest, us)
  <2>1. SUFFICES ASSUME OneCall(reqs, ts) PROVE OneCall(rest, us)
    BY <1>5 DEF Track
  <2>2. rest = <<>> /\ ChecksIn(us) = {} /\ CompletesIn(us) = {k + 2}
    BY <1>1, <1>2, <2>1 DEF OneCall
  <2> QED
    BY <2>2 DEF OneCall
<1>7. ChecksIn(us) = {}
  BY <1>1, <1>2 DEF Track, OneCheck
<1>8. Calls(rest, us, TRUE) => (over => Over(rest, us)) /\ Counted(rest, us, log, count)
  <2>1. SUFFICES ASSUME over => Over(reqs, ts), Counted(reqs, ts, log, count)
                 PROVE  (over => Over(rest, us)) /\ Counted(rest, us, log, count)
    BY <1>5 DEF Track
  <2>2. ~over
    BY <1>1, <2>1 DEF Over
  <2>3. Counted(rest, us, log, count)
    <3> DEFINE c == Cardinality(SettlesIn(ts))
               d == Cardinality(SettlesIn(us))
    <3>1. c \in Nat /\ IsFiniteSet(SettlesIn(ts)) /\ k + 1 \notin SettlesIn(ts)
      BY <1>3, SettlesFinite
    <3>2. d = c + 1
      BY <1>2, <3>1, FS_AddElement
    <3>3. count = 0 \/ Len(reqs) + c + Len(log) <= count
      BY <2>1 DEF Counted
    <3> HIDE DEF c, d
    <3>4. count = 0 \/ Len(rest) + d + Len(log) <= count
      BY <1>1, <3>1, <3>2, <3>3
    <3> QED
      BY <3>4 DEF Counted, d
  <2> QED
    BY <2>2, <2>3
<1> QED
  BY <1>4, <1>6, <1>7, <1>8 DEF Track, rest, us

\* A settled call leaves the queue; one of an upload of all enters the log.
LEMMA TrackSettled ==
  ASSUME NEW reqs \in Seq(RequestType), NEW ts \in Seq(TimerType), ts # <<>>, ts[1].kind \in {"success", "error"},
         NEW log \in Seq(Nat), NEW count \in Nat, NEW over, Track(reqs, ts, log, count, over),
         NEW log2 \in Seq(Nat), NEW over2,
         IF ts[1].req.all THEN Len(log2) = Len(log) + 1 /\ (over2 => over \/ count = Len(log2))
         ELSE log2 = log /\ (over2 => over)
  PROVE  Track(reqs, Tail(ts), log2, count, over2)
<1> DEFINE us == Tail(ts)
<1>1. us \in Seq(TimerType) /\ Follows(us, ts, 1)
  BY TailFollows
<1>2. Len(log) \in Nat /\ Len(log2) \in Nat /\ Len(reqs) \in Nat /\ 1 \in {0, 1}
  OBVIOUS
<1>3. Track(reqs, us, log, count, over)
  BY <1>1, <1>2, TrackFollows
<1>4. 1 \in SettlesIn(ts) /\ SettlesIn(ts) \subseteq Nat /\ SettlesIn(us) \subseteq Nat \ {0}
  BY DEF SettlesIn
<1> HIDE DEF us
<1>5. CASE ts[1].req.all
  <2>1. Calls(reqs, ts, TRUE) \/ ts[1].req.all # TRUE
    BY <1>4 DEF Calls
  <2>2. ts[1].req.all = TRUE
    <3>1. ts[1] \in TimerType
      OBVIOUS
    <3> QED
      BY <1>5, <3>1 DEF TimerType, RequestType
  <2>3. (over => Over(reqs, ts)) /\ Counted(reqs, ts, log, count)
    BY <2>1, <2>2 DEF Track
  <2>4. ~over
    BY <1>4, <2>3 DEF Over
  <2> DEFINE c == Cardinality(SettlesIn(ts))
             d == Cardinality(SettlesIn(us))
  <2>5. c \in Nat /\ d \in Nat /\ d + 1 <= c
    <3> DEFINE S == SettlesIn(ts) \ {1}
    <3>1. IsFiniteSet(SettlesIn(ts)) /\ c \in Nat /\ d \in Nat
      BY <1>1, SettlesFinite
    <3>2. IsFiniteSet(S) /\ Cardinality(S) = c - 1
      BY <1>4, <3>1, FS_RemoveElement
    <3>3. \A n \in SettlesIn(us) : n + 1 \in S
      <4>1. \A n \in SettlesIn(us) : n + 1 \in SettlesIn(ts) /\ n + 1 # 1
        BY <1>1, <1>4 DEF Follows
      <4> QED
        BY <4>1
    <3>4. S \subseteq Nat /\ SettlesIn(us) \subseteq Nat
      BY <1>4
    <3> HIDE DEF S
    <3>5. d <= Cardinality(S)
      BY <3>2, <3>3, <3>4, ShiftedCardinality
    <3> HIDE DEF c, d
    <3> QED
      BY <3>1, <3>2, <3>5
  <2>6. count = 0 \/ Len(reqs) + c + Len(log) <= count
    BY <2>3 DEF Counted
  <2>7. Counted(reqs, us, log2, count)
    <3>1. Len(log2) = Len(log) + 1
      BY <1>5
    <3> HIDE DEF c, d
    <3>2. count = 0 \/ Len(reqs) + d + Len(log2) <= count
      BY <1>2, <2>5, <2>6, <3>1
    <3> QED
      BY <3>2 DEF Counted, d
  <2>8. over2 => Over(reqs, us)
    <3>1. SUFFICES ASSUME over2 PROVE Over(reqs, us)
      OBVIOUS
    <3>2. count = Len(log2) /\ Len(log2) = Len(log) + 1
      BY <1>5, <2>4, <3>1
    <3> HIDE DEF c, d
    <3>3. Len(reqs) = 0 /\ d = 0
      BY <1>2, <2>5, <2>6, <3>2
    <3>4. SettlesIn(us) = {}
      BY <1>1, <3>3, SettlesFinite, FS_EmptySet DEF d
    <3>5. ChecksIn(ts) = {}
      BY <1>4 DEF Track, OneCheck
    <3>6. ChecksIn(us) = {}
      BY <1>1, <3>5 DEF Follows
    <3> QED
      BY <3>3, <3>4, <3>6 DEF Over
  <2> QED
    BY <1>3, <2>7, <2>8 DEF Track, us
<1>6. CASE ~ts[1].req.all
  <2>1. log2 = log /\ (over2 => over)
    BY <1>6
  <2>2. Track(reqs, us, log2, count, over)
    BY <1>3, <2>1
  <2> QED
    BY <2>1, <2>2 DEF Track, us
<1> QED
  BY <1>5, <1>6 DEF us

\* Requests that are forgotten are still open.
LEMMA TrackForgotten ==
  ASSUME TypeOK, NEW ts, NEW log, NEW over, Track(requests, ts, log, uploadAsyncCount, over)
  PROVE  /\ Track(Forgotten, ts, <<>>, 0, over)
         /\ requests = <<>> => Forgotten = <<>>
<1>1. /\ Forgotten \in Seq(RequestType) /\ Len(Forgotten) = Len(requests) /\ requests \in Seq(RequestType)
      /\ \A n \in DOMAIN requests : Forgotten[n] = [requests[n] EXCEPT !.kept = FALSE]
  BY RequestTypes DEF TypeOK
<1>2. DOMAIN Forgotten = DOMAIN requests /\ (Forgotten = <<>> <=> requests = <<>>)
  BY <1>1
<1>3. \A n \in DOMAIN requests : Forgotten[n].all = requests[n].all
  <2>1. ASSUME NEW n \in DOMAIN requests PROVE Forgotten[n].all = requests[n].all
    <3>1. requests[n] \in RequestType
      BY <1>1
    <3> QED
      BY <1>1, <3>1 DEF RequestType
  <2> QED
    BY <2>1
<1> DEFINE reqs == Forgotten
<1> HIDE DEF reqs
<1>4. \A all : Calls(reqs, ts, all) <=> Calls(requests, ts, all)
  BY <1>2, <1>3 DEF Calls, reqs
<1>5. Calls(reqs, ts, FALSE) => OneCall(reqs, ts)
  BY <1>1, <1>2, <1>4 DEF Track, OneCall, reqs
<1>6. ChecksIn(ts) # {} => OneCheck(reqs, ts)
  BY <1>2 DEF Track, OneCheck, reqs
<1>7. Calls(reqs, ts, TRUE) => (over => Over(reqs, ts)) /\ Counted(reqs, ts, <<>>, 0)
  BY <1>2, <1>4 DEF Track, Over, Counted, reqs
<1> QED
  BY <1>2, <1>5, <1>6, <1>7 DEF Track, reqs

LEMMA TimersOfRead ==
  ASSUME TypeOK, NEW node \in Nat, NEW todo \in Seq(Files), NEW s, NEW fr, NEW tm \in Seq(TimerType),
         ReadFile(node, todo, s, fr, tm)
  PROVE  ReadsOnly(timers', tm)
<1>1. CASE timers' = tm
  BY <1>1 DEF ReadsOnly
<1>2. CASE timers' # tm
  <2>1. todo # <<>> /\ timers' = Append(tm, Later(node + 1, Tail(todo)))
    BY <1>2, Zenon DEF ReadFile
  <2>2. Later(node + 1, Tail(todo)) \in TimerType /\ Later(node + 1, Tail(todo)).kind = "read"
    BY <2>1 DEF Later, TimerType
  <2> QED
    BY <2>1, <2>2 DEF ReadsOnly
<1> QED
  BY <1>1, <1>2

\* What the control of an upload looks at.
Controls == <<isDisabled, uploadLog, uploadAsyncCount, fileBatchCompleted, requests, batch>>

\* The widget is idle: nothing is under way.
Idle == requests = <<>> /\ SilentIn(timers) /\ batch = None

Tracked == Track(requests, timers, uploadLog, uploadAsyncCount, fileBatchCompleted)

Control ==
  /\ Tracked
  /\ ~isDisabled \/ batch # None => requests = <<>> /\ SilentIn(timers)
  /\ ~isDisabled => batch = None

LEMMA Lengths ==
  ASSUME TypeOK
  PROVE  /\ Len(uploadLog) \in Nat /\ uploadAsyncCount \in Nat /\ Len(requests) \in Nat
         /\ timers \in Seq(TimerType) /\ requests \in Seq(RequestType) /\ uploadLog \in Seq(Nat)
BY DEF TypeOK

LEMMA ControlReads ==
  ASSUME TypeOK, Control, UNCHANGED Controls, ReadsOnly(timers', timers)
  PROVE  Control'
<1>1. Track(requests, timers', uploadLog, uploadAsyncCount, fileBatchCompleted) /\ (SilentIn(timers) => SilentIn(timers'))
  BY Lengths, TrackReads DEF Control, Tracked
<1> QED
  BY <1>1 DEF Control, Tracked, Controls

LEMMA ControlLoad ==
  ASSUME TypeOK, Control, NEW r \in loads, Load(r)
  PROVE  Control'
<1>1. r \in Loads
  BY DEF TypeOK, Loads
<1>2. Later(r.node + 1, Tail(r.todo)) \in TimerType /\ Later(r.node + 1, Tail(r.todo)).kind = "read"
  BY <1>1 DEF Loads, Later, TimerType
<1>3. ReadsOnly(timers', timers)
  BY <1>2 DEF Load, ReadsOnly
<1> QED
  BY <1>3, ControlReads DEF Load, Controls, progress

LEMMA SilentTrack ==
  ASSUME NEW ts, SilentIn(ts), NEW log, NEW count, NEW over
  PROVE  Track(<<>>, ts, log, count, over)
BY DEF SilentIn, Track, Pairs, Calls, OneCall, OneCheck, Over, Counted

LEMMA ControlSelect ==
  ASSUME TypeOK, Control, NEW S \in Selections, Select(S)
  PROVE  Control'
<1>1. ~isDisabled /\ isDisabled' = isDisabled /\ requests' = Forgotten /\ (batch = None => batch' = None)
  BY DEF Select, BatchForgotten
<1>2. requests = <<>> /\ SilentIn(timers) /\ batch = None
  BY <1>1 DEF Control
<1>3. requests' = <<>> /\ batch' = None
  BY <1>1, <1>2, RequestTypes, Lengths
<1>4. ReadsOnly(timers', timers)
  <2>1. CASE NoneTaken(S)
    BY <2>1 DEF Select, ReadsOnly
  <2>2. CASE ~NoneTaken(S)
    <3>1. S \in Seq(Files)
      <4>1. InStack(stack) \subseteq Files
        BY AtType DEF TypeOK, Entry
      <4> DEFINE choice == InStack(stack) \cup {f \in Files : \A g \in chosen : g < f}
      <4>2. choice \subseteq Files
        BY <4>1
      <4>3. PICK n \in 1 .. MaxChosen : S \in [1 .. n -> choice]
        BY DEF Selections
      <4> HIDE DEF choice
      <4>4. n \in Nat
        BY <4>3, BoundsAssumption
      <4> QED
        BY <4>2, <4>3, <4>4
    <3>2. Fresh(S) \in Seq(Files) /\ 1 \in Nat /\ Len(stack) + 1 \in Nat
      <4>1. Len(stack) + 1 \in Nat
        BY DEF TypeOK
      <4> QED
        BY <3>1, <4>1, FreshType
    <3>3. \/ ReadFile(1, Fresh(S), <<>>, Only(frames, {f \in Files : status[f] = "Success"}), timers)
          \/ ReadFile(Len(stack) + 1, Fresh(S), stack, frames, timers)
      BY <2>2 DEF Select
    <3> QED
      BY <3>2, <3>3, Lengths, TimersOfRead
  <2> QED
    BY <2>1, <2>2
<1>5. SilentIn(timers')
  BY <1>2, <1>4, Lengths, TrackReads DEF Control, Tracked
<1> QED
  BY <1>3, <1>5, SilentTrack DEF Control, Tracked

LEMMA ControlUploadAll ==
  ASSUME TypeOK, Control, UploadAll
  PROVE  Control'
<1> DEFINE sent == Only([n \in DOMAIN stack |-> n], {i \in DOMAIN stack : stack[i] # None})
           reqs == [n \in DOMAIN sent |-> Request(sent[n], TRUE)]
<1>1. /\ ~isDisabled /\ isDisabled' = TRUE /\ uploadLog' = <<>> /\ uploadAsyncCount' = Len(sent)
      /\ fileBatchCompleted' = FALSE /\ requests' = Forgotten \o reqs /\ timers' = timers /\ batch' = batch
  BY DEF UploadAll, Lock
<1>2. requests = <<>> /\ SilentIn(timers) /\ batch = None
  BY <1>1 DEF Control
<1>3. Forgotten = <<>>
  BY <1>2, RequestTypes, Lengths
<1>4. sent \in Seq(Nat)
  BY PlacesChosen DEF TypeOK
<1> HIDE DEF sent
<1>5. reqs \in Seq({Request(sent[n], TRUE) : n \in 1 .. Len(sent)}) /\ Len(reqs) = Len(sent) /\ Len(sent) \in Nat
  <2>1. Len(sent) \in Nat /\ DOMAIN sent = 1 .. Len(sent)
    BY <1>4
  <2>2. reqs = [n \in 1 .. Len(sent) |-> Request(sent[n], TRUE)]
    BY <2>1
  <2> DEFINE R == {Request(sent[n], TRUE) : n \in 1 .. Len(sent)}
  <2>3. reqs \in [1 .. Len(sent) -> R]
    BY <2>2
  <2> HIDE DEF reqs, R
  <2>4. reqs \in Seq(R) /\ Len(reqs) = Len(sent)
    BY <2>1, <2>3
  <2> QED
    BY <2>1, <2>4 DEF R
<1>6. \A n \in DOMAIN reqs : reqs[n].all = TRUE
  BY DEF Request
<1> HIDE DEF reqs
<1>7. requests' = reqs
  BY <1>1, <1>3, <1>5
<1>8. ~Calls(reqs, timers, FALSE)
  BY <1>2, <1>6 DEF Calls, SilentIn
<1>9. Cardinality(SettlesIn(timers)) = 0
  BY <1>2, FS_EmptySet DEF SilentIn
<1>10. Counted(reqs, timers, <<>>, Len(sent))
  BY <1>5, <1>9 DEF Counted
<1>11. Track(reqs, timers, <<>>, Len(sent), FALSE)
  BY <1>2, <1>8, <1>10 DEF Track, Pairs, SilentIn
<1> QED
  BY <1>1, <1>2, <1>7, <1>11 DEF Control, Tracked

LEMMA ControlUploadBatch ==
  ASSUME TypeOK, Control, UploadBatch
  PROVE  Control'
<1>1. /\ ~isDisabled /\ isDisabled' = TRUE /\ requests' = Forgotten /\ timers' = timers
  BY DEF UploadBatch, Lock
<1>2. requests = <<>> /\ SilentIn(timers)
  BY <1>1 DEF Control
<1>3. requests' = <<>>
  BY <1>1, <1>2, RequestTypes, Lengths
<1> QED
  BY <1>1, <1>2, <1>3, SilentTrack DEF Control, Tracked

LEMMA ControlUploadOne ==
  ASSUME TypeOK, Control, NEW f \in Files, UploadOne(f), ~isDisabled
  PROVE  Control'
<1> DEFINE r == Request(idx[f], FALSE)
<1>1. isDisabled' = TRUE /\ requests' = Append(requests, r) /\ timers' = timers /\ batch' = batch
  BY DEF UploadOne, Lock
<1>2. requests = <<>> /\ SilentIn(timers) /\ batch = None
  BY DEF Control
<1>3. r.all = FALSE
  BY DEF Request
<1> HIDE DEF r
<1>4. requests' = <<r>> /\ Len(<<r>>) = 1 /\ DOMAIN <<r>> = {1} /\ <<r>>[1] = r
  BY <1>1, <1>2
<1>5. ~Calls(<<r>>, timers, TRUE)
  BY <1>2, <1>3, <1>4 DEF Calls, SilentIn
<1>6. OneCall(<<r>>, timers)
  BY <1>2, <1>4 DEF OneCall, SilentIn
<1>7. \A log, count, over : Track(<<r>>, timers, log, count, over)
  BY <1>2, <1>5, <1>6 DEF Track, Pairs, SilentIn
<1> QED
  BY <1>1, <1>2, <1>4, <1>7 DEF Control, Tracked

\* Without Happened, an answer comes while the widget is locked.
LEMMA ControlAnswer ==
  ASSUME TypeOK, Control, NEW n \in DOMAIN requests, Accept(n) \/ Refuse(n) \/ Reject(n)
  PROVE  Control'
<1> DEFINE r == requests[n]
<1>1. requests # <<>> /\ n \in 1 .. Len(requests) /\ r \in RequestType
  BY Lengths
<1>2. isDisabled /\ batch = None /\ Tracked
  BY <1>1 DEF Control
<1>3. r.i \in Nat /\ IdOf(r) \in Nat
  BY <1>1, RequestTypes DEF RequestType
<1>4. \A kind \in {"success", "error", "complete"}, id \in Nat :
        Timer(kind, r, id) \in TimerType /\ Timer(kind, r, id).kind = kind /\ Timer(kind, r, id).req = r
  BY <1>1 DEF Timer, TimerType
<1>5. /\ requests' = Seqs!RemoveAt(requests, n)
      /\ UNCHANGED <<isDisabled, batch, uploadLog, uploadAsyncCount, fileBatchCompleted>>
  BY DEF Accept, Refuse, Reject, progress
<1>6. \/ timers' = timers
      \/ \E kind \in {"success", "error"}, id \in Nat : timers' = timers \o <<Timer(kind, r, id), Timer("complete", r, r.i)>>
  <2>1. CASE Accept(n)
    BY <1>3, <2>1 DEF Accept
  <2>2. CASE Refuse(n)
    BY <1>3, <2>2 DEF Refuse
  <2>3. CASE Reject(n)
    <3>1. timers' = timers \o Refused(r)
      BY <2>3 DEF Reject
    <3>2. CASE Throws(r)
      <4>1. Refused(r) = <<>> /\ timers \in Seq(TimerType)
        BY <3>2, Lengths DEF Refused
      <4> QED
        BY <3>1, <4>1
    <3>3. CASE ~Throws(r)
      BY <1>3, <3>1, <3>3 DEF Refused
    <3> QED
      BY <3>2, <3>3
  <2> QED
    BY <2>1, <2>2, <2>3
<1> HIDE DEF r
<1>7. Track(requests', timers', uploadLog, uploadAsyncCount, fileBatchCompleted)
  <2>1. CASE timers' = timers
    BY <1>1, <1>2, <1>5, <2>1, Lengths, TrackDropped DEF Tracked
  <2>2. ASSUME NEW kind \in {"success", "error"}, NEW id \in Nat,
               timers' = timers \o <<Timer(kind, r, id), Timer("complete", r, r.i)>>
        PROVE  Track(requests', timers', uploadLog, uploadAsyncCount, fileBatchCompleted)
    <3> DEFINE a == Timer(kind, r, id)
               b == Timer("complete", r, r.i)
    <3>1. a \in TimerType /\ b \in TimerType /\ a.kind \in {"success", "error"} /\ b.kind = "complete" /\ a.req = r /\ b.req = r
      BY <1>3, <1>4
    <3> HIDE DEF a, b
    <3>2. timers' = timers \o <<a, b>>
      BY <2>2 DEF a, b
    <3>3. Track(Seqs!RemoveAt(requests, n), timers \o <<a, b>>, uploadLog, uploadAsyncCount, fileBatchCompleted)
      BY <1>1, <1>2, <3>1, Lengths, TrackAnswered DEF Tracked, r
    <3> QED
      BY <1>5, <3>2, <3>3
  <2> QED
    BY <1>6, <2>1, <2>2
<1> QED
  BY <1>2, <1>5, <1>7 DEF Control, Tracked

LEMMA HeadPlaces ==
  ASSUME TypeOK, timers # <<>>
  PROVE  /\ Head(timers) = timers[1] /\ timers[1] \in TimerType
         /\ SettlesIn(timers) \cup CompletesIn(timers) \cup ChecksIn(timers) \subseteq Nat \ {0}
         /\ Head(timers).kind \in {"success", "error"} => 1 \in SettlesIn(timers)
         /\ Head(timers).kind = "complete" => 1 \in CompletesIn(timers)
         /\ Head(timers).kind = "check" => 1 \in ChecksIn(timers)
         /\ Tail(timers) \in Seq(TimerType) /\ Follows(Tail(timers), timers, 1)
<1>1. Head(timers) = timers[1] /\ timers[1] \in TimerType /\ 1 \in DOMAIN timers /\ DOMAIN timers \subseteq Nat \ {0}
  BY Lengths
<1>2. Tail(timers) \in Seq(TimerType) /\ Follows(Tail(timers), timers, 1)
  BY Lengths, TailFollows
<1> QED
  BY <1>1, <1>2 DEF SettlesIn, CompletesIn, ChecksIn

LEMMA ControlTail ==
  ASSUME TypeOK, Control, timers # <<>>
  PROVE  /\ Track(requests, Tail(timers), uploadLog, uploadAsyncCount, fileBatchCompleted)
         /\ SilentIn(timers) => SilentIn(Tail(timers))
BY Lengths, HeadPlaces, TrackFollows DEF Control, Tracked

LEMMA ControlReadNext ==
  ASSUME TypeOK, Control, ReadNext
  PROVE  Control'
<1>1. /\ timers # <<>> /\ Head(timers).kind = "read"
      /\ ReadFile(Head(timers).node, Head(timers).todo, stack, frames, Tail(timers))
      /\ UNCHANGED Controls
  BY DEF ReadNext, Controls, progress
<1>2. Tail(timers) \in Seq(TimerType) /\ ReadsOnly(timers', Tail(timers))
  BY <1>1, HeadTimer, TimersOfRead
<1>3. /\ Track(requests, timers', uploadLog, uploadAsyncCount, fileBatchCompleted)
      /\ SilentIn(timers) => SilentIn(timers')
  BY <1>1, <1>2, Lengths, ControlTail, TrackReads
<1> QED
  BY <1>1, <1>3 DEF Control, Tracked, Controls

LEMMA ControlSettled ==
  ASSUME TypeOK, Control, Success \/ Error
  PROVE  Control'
<1> DEFINE r == Head(timers).req
<1>1. /\ timers # <<>> /\ Head(timers).kind \in {"success", "error"} /\ timers' = Tail(timers)
      /\ UNCHANGED <<isDisabled, requests, batch>>
      /\ IF r.all THEN \E s : Log(s, Head(timers).id) ELSE UNCHANGED progress
  BY DEF Success, Error, Fire
<1>2. isDisabled /\ batch = None /\ Tracked
  BY <1>1, HeadPlaces DEF Control, SilentIn
<1>3. timers[1].kind \in {"success", "error"} /\ timers[1].req = r /\ Head(timers).id \in Nat
  BY <1>1, HeadPlaces, HeadTimer
<1> HIDE DEF r
<1>4. Track(requests, Tail(timers), uploadLog', uploadAsyncCount, fileBatchCompleted') /\ uploadAsyncCount' = uploadAsyncCount
  <2>1. CASE r.all
    <3>1. PICK s : Log(s, Head(timers).id)
      BY <1>1, <2>1
    <3>2. /\ uploadLog' = Append(uploadLog, Head(timers).id) /\ uploadAsyncCount' = uploadAsyncCount
          /\ fileBatchCompleted' => fileBatchCompleted \/ uploadAsyncCount = Len(uploadLog')
      BY <3>1 DEF Log, AsyncComplete
    <3>3. uploadLog' \in Seq(Nat) /\ Len(uploadLog') = Len(uploadLog) + 1
      BY <1>3, <3>2, Lengths
    <3> QED
      BY <1>1, <1>2, <1>3, <2>1, <3>2, <3>3, Lengths, TrackSettled DEF Tracked
  <2>2. CASE ~r.all
    <3>1. uploadLog' = uploadLog /\ uploadAsyncCount' = uploadAsyncCount /\ fileBatchCompleted' = fileBatchCompleted
      BY <1>1, <2>2 DEF progress
    <3> QED
      BY <1>1, <1>2, <1>3, <2>2, <3>1, Lengths, TrackSettled DEF Tracked
  <2> QED
    BY <2>1, <2>2
<1> QED
  BY <1>1, <1>2, <1>4 DEF Control, Tracked

\* No handler is left behind the completion that comes first, when it is the only one.
LEMMA LastCompletion ==
  ASSUME TypeOK, Tracked, 1 \in CompletesIn(timers), \A m, n \in CompletesIn(timers) : m = n
  PROVE  SettlesIn(timers) = {} /\ CompletesIn(Tail(timers)) = {}
<1>1. timers # <<>>
  BY DEF CompletesIn
<1>2. /\ SettlesIn(timers) \subseteq Nat \ {0} /\ \A n \in SettlesIn(timers) : n + 1 \in CompletesIn(timers)
      /\ \A n \in CompletesIn(Tail(timers)) : n + 1 \in CompletesIn(timers) /\ n \in Nat \ {0}
  <2>1. CompletesIn(Tail(timers)) \subseteq Nat \ {0}
    BY <1>1, HeadPlaces DEF CompletesIn
  <2> QED
    BY <1>1, <2>1, HeadPlaces DEF Tracked, Track, Pairs, Follows
<1>3. ASSUME NEW n \in Nat \ {0}, n + 1 \in CompletesIn(timers) PROVE FALSE
  BY <1>3
<1> QED
  BY <1>2, <1>3

\* A check may follow what is left of the queue.
LEMMA CheckAppended ==
  ASSUME NEW ts \in Seq(TimerType), NEW us, us = ts \o <<[kind |-> "check"]>>
  PROVE  /\ SettlesIn(us) = SettlesIn(ts) /\ CompletesIn(us) = CompletesIn(ts)
         /\ ChecksIn(us) = ChecksIn(ts) \cup {Len(ts) + 1}
         /\ \A n \in DOMAIN ts : us[n] = ts[n]
         /\ \A n \in DOMAIN us : us[n].kind # "read" \/ (n \in DOMAIN ts /\ us[n] = ts[n])
<1> DEFINE c == [kind |-> "check"]
<1>1. /\ DOMAIN us = 1 .. Len(ts) + 1 /\ DOMAIN ts = 1 .. Len(ts) /\ Len(ts) \in Nat
      /\ \A n \in 1 .. Len(ts) : us[n] = ts[n]
      /\ us[Len(ts) + 1] = c
  OBVIOUS
<1>2. \A n \in 1 .. Len(ts) + 1 : n \in 1 .. Len(ts) \/ n = Len(ts) + 1
  BY <1>1
<1>3. Len(ts) + 1 \in 1 .. Len(ts) + 1 /\ \A n \in 1 .. Len(ts) : n \in 1 .. Len(ts) + 1
  BY <1>1
<1>4. c.kind = "check"
  OBVIOUS
<1> HIDE DEF c
<1>5. SettlesIn(us) = SettlesIn(ts) /\ CompletesIn(us) = CompletesIn(ts)
  BY <1>1, <1>2, <1>3, <1>4 DEF SettlesIn, CompletesIn
<1>6. ChecksIn(us) = ChecksIn(ts) \cup {Len(ts) + 1}
  BY <1>1, <1>2, <1>3, <1>4 DEF ChecksIn
<1> QED
  BY <1>1, <1>2, <1>4, <1>5, <1>6

LEMMA ControlComplete ==
  ASSUME TypeOK, Control, Complete
  PROVE  Control'
<1> DEFINE r == Head(timers).req
<1>1. /\ timers # <<>> /\ Head(timers).kind = "complete"
      /\ IF r.all
         THEN /\ timers' = Tail(timers) \o IF fileBatchCompleted THEN <<[kind |-> "check"]>> ELSE <<>>
              /\ isDisabled' = isDisabled
         ELSE timers' = Tail(timers) /\ isDisabled' = FALSE
      /\ UNCHANGED <<requests, batch, uploadLog, uploadAsyncCount, fileBatchCompleted>>
  BY DEF Complete, Enable, progress
<1>2. isDisabled /\ batch = None /\ Tracked
  BY <1>1, HeadPlaces DEF Control, SilentIn
<1>3. 1 \in CompletesIn(timers) /\ timers[1].req = r /\ r \in RequestType /\ Follows(Tail(timers), timers, 1)
  BY <1>1, HeadPlaces, HeadTimer
<1> HIDE DEF r
<1>4. CASE r.all
  <2>1. Calls(requests, timers, TRUE)
    <3>1. r.all = TRUE
      BY <1>3, <1>4 DEF RequestType
    <3> QED
      BY <1>3, <3>1 DEF Calls
  <2>2. CASE ~fileBatchCompleted
    <3>1. timers' = Tail(timers)
      <4>1. Tail(timers) \in Seq(TimerType)
        BY <1>1, HeadPlaces
      <4>2. timers' = Tail(timers) \o <<>>
        BY <1>1, <1>4, <2>2
      <4> QED
        BY <4>1, <4>2
    <3> QED
      BY <1>1, <1>2, <1>4, <3>1, ControlTail DEF Control, Tracked
  <2>3. CASE fileBatchCompleted
    <3>1. Over(requests, timers)
      BY <1>2, <2>1, <2>3 DEF Tracked, Track
    <3>2. \A m, n \in CompletesIn(timers) : m = n
      <4>1. ASSUME NEW m \in CompletesIn(timers) PROVE m = 1
        <5>1. m \in Nat \ {0} /\ (m > 1 => m - 1 \in SettlesIn(timers))
          BY <1>1, <1>2, HeadPlaces DEF Tracked, Track, Pairs
        <5> QED
          BY <3>1, <5>1 DEF Over
      <4> QED
        BY <4>1
    <3>3. CompletesIn(Tail(timers)) = {} /\ SettlesIn(Tail(timers)) = {} /\ ChecksIn(Tail(timers)) = {}
      BY <1>2, <1>3, <3>1, <3>2, LastCompletion DEF Over, Follows
    <3>4. Tail(timers) \in Seq(TimerType)
      BY <1>1, HeadPlaces
    <3>5. timers' = Tail(timers) \o <<[kind |-> "check"]>>
      BY <1>1, <1>4, <2>3
    <3>6. SettlesIn(timers') = {} /\ CompletesIn(timers') = {} /\ ChecksIn(timers') = {Len(Tail(timers)) + 1}
      BY <3>3, <3>4, <3>5, CheckAppended
    <3>7. requests = <<>>
      BY <3>1 DEF Over
    <3>8. \A log, count, over : Track(<<>>, timers', log, count, over)
      BY <3>6 DEF Track, Pairs, Calls, OneCall, OneCheck
    <3> QED
      BY <1>1, <1>2, <1>4, <3>7, <3>8 DEF Control, Tracked
  <2> QED
    BY <2>2, <2>3
<1>5. CASE ~r.all
  <2>1. Calls(requests, timers, FALSE)
    <3>1. r.all = FALSE
      BY <1>3, <1>5 DEF RequestType
    <3> QED
      BY <1>3, <3>1 DEF Calls
  <2>2. OneCall(requests, timers)
    BY <1>2, <2>1 DEF Tracked, Track
  <2>3. requests = <<>> /\ ChecksIn(timers) = {}
    BY <1>3, <2>2 DEF OneCall
  <2>4. SettlesIn(timers) = {} /\ CompletesIn(Tail(timers)) = {}
    BY <1>2, <1>3, <2>2, LastCompletion DEF OneCall
  <2>5. SilentIn(Tail(timers))
    BY <1>3, <2>3, <2>4 DEF SilentIn, Follows
  <2> QED
    BY <1>1, <1>2, <1>5, <2>3, <2>5, SilentTrack DEF Control, Tracked
<1> QED
  BY <1>4, <1>5

LEMMA ControlCheck ==
  ASSUME TypeOK, Control, Check
  PROVE  Control'
<1>1. /\ timers # <<>> /\ Head(timers).kind = "check" /\ timers' = Tail(timers) /\ isDisabled' = FALSE
      /\ UNCHANGED <<requests, batch>>
  BY DEF Check, Fire, Unlock, Enable
<1>2. batch = None /\ Tracked /\ 1 \in ChecksIn(timers) /\ Follows(Tail(timers), timers, 1)
  BY <1>1, HeadPlaces DEF Control, SilentIn
<1>3. requests = <<>> /\ SettlesIn(timers) = {} /\ CompletesIn(timers) = {} /\ \A m, n \in ChecksIn(timers) : m = n
  BY <1>2 DEF Tracked, Track, OneCheck
<1>4. ChecksIn(Tail(timers)) = {}
  <2>1. ChecksIn(Tail(timers)) \subseteq Nat \ {0}
    BY <1>1, HeadPlaces DEF ChecksIn
  <2>2. ASSUME NEW n \in ChecksIn(Tail(timers)) PROVE FALSE
    <3>1. n \in Nat \ {0} /\ n + 1 = 1
      BY <1>2, <1>3, <2>1 DEF Follows
    <3> QED
      BY <3>1
  <2> QED
    BY <2>2
<1>5. SilentIn(Tail(timers))
  BY <1>2, <1>3, <1>4 DEF SilentIn, Follows
<1> QED
  BY <1>1, <1>2, <1>3, <1>5, SilentTrack DEF Control, Tracked

LEMMA ControlBatchAnswer ==
  ASSUME TypeOK, Control, NEW keys, AcceptBatch \/ AcceptPart(keys) \/ RejectBatch
  PROVE  Control'
<1>1. batch # None /\ \E s, st : BatchOver(s, st)
  BY DEF AcceptBatch, AcceptPart, RejectBatch
<1>2. batch' = None /\ UNCHANGED <<timers, requests>>
  BY <1>1 DEF BatchOver
<1>3. requests = <<>> /\ SilentIn(timers)
  BY <1>1 DEF Control
<1> QED
  BY <1>2, <1>3, SilentTrack DEF Control, Tracked

LEMMA ControlFaded ==
  ASSUME TypeOK, Control, NEW x, Faded(x)
  PROVE  Control'
<1>1. UNCHANGED <<isDisabled, fileBatchCompleted, timers>>
  BY DEF Faded
<1>2. CASE Last(x)
  <2>1. uploadLog' = <<>> /\ uploadAsyncCount' = 0 /\ requests' = Forgotten /\ (batch = None => batch' = None)
    BY <1>2 DEF Faded, ResetUpload, BatchForgotten
  <2>2. Track(Forgotten, timers, <<>>, 0, fileBatchCompleted) /\ (requests = <<>> => Forgotten = <<>>)
    BY TrackForgotten DEF Control, Tracked
  <2> QED
    BY <1>1, <2>1, <2>2 DEF Control, Tracked
<1>3. CASE ~Last(x)
  BY <1>1, <1>3 DEF Faded, Control, Tracked
<1> QED
  BY <1>2, <1>3

LEMMA ControlClear ==
  ASSUME TypeOK, Control, Clear
  PROVE  Control'
<1>1. ~isDisabled /\ requests' = Forgotten /\ (batch = None => batch' = None) /\ timers' = timers
  BY DEF Clear, BatchForgotten
<1>2. requests = <<>> /\ SilentIn(timers) /\ batch = None
  BY <1>1 DEF Control
<1>3. requests' = <<>>
  BY <1>1, <1>2, RequestTypes, Lengths
<1> QED
  BY <1>1, <1>2, <1>3, SilentTrack DEF Control, Tracked

LEMMA ControlRemove ==
  ASSUME Control, NEW f, Remove(f)
  PROVE  Control'
BY DEF Remove, Control, Tracked, progress

LEMMA ControlInit ==
  ASSUME Init
  PROVE  ControlInv
<1>1. SilentIn(<<>>)
  BY DEF SilentIn, SettlesIn, CompletesIn, ChecksIn
<1> QED
  BY <1>1, SilentTrack DEF Init, ControlInv

\* The history of events only grows.
LEMMA EventsGrow ==
  ASSUME [Next]_vars
  PROVE  events \subseteq events'
<1>1. CASE UNCHANGED vars
  BY <1>1 DEF vars, history
<1>2. CASE User
  BY <1>2 DEF User, Select, UploadAll, UploadBatch, UploadOne, Remove, Cancel, Clear
<1>3. CASE Server
  BY <1>3 DEF Server, Accept, Refuse, Reject, AcceptBatch, AcceptPart, RejectBatch, BatchOver, history
<1>4. CASE Browser
  BY <1>4 DEF Browser, Tick, Load, Faded, ReadNext, Success, Error, Complete, Check, history
<1> QED
  BY <1>1, <1>2, <1>3, <1>4 DEF Next

LEMMA ControlNext ==
  ASSUME TypeOK, ControlInv, [Next]_vars
  PROVE  ControlInv'
<1>1. CASE Happened({"cancel", "retry"})
  BY <1>1, EventsGrow DEF Happened, ControlInv
<1>2. CASE ~Happened({"cancel", "retry"})
  <2>1. Control
    BY <1>2 DEF ControlInv, Control, Tracked
  <2>2. SUFFICES Control' \/ {"cancel", "retry"} \cap events' # {}
    BY DEF ControlInv, Control, Tracked, Happened
  <2>3. CASE UNCHANGED vars
    BY <2>1, <2>3 DEF vars, progress, Control, Tracked
  <2>4. ASSUME NEW S \in Selections, Select(S) PROVE Control'
    BY <2>1, <2>4, ControlSelect
  <2>5. ASSUME NEW f \in Files, UploadOne(f) PROVE Control' \/ {"cancel", "retry"} \cap events' # {}
    <3>1. CASE isDisabled
      BY <2>5, <3>1 DEF UploadOne
    <3>2. CASE ~isDisabled
      BY <2>1, <2>5, <3>2, ControlUploadOne
    <3> QED
      BY <3>1, <3>2
  <2>6. ASSUME Cancel PROVE {"cancel", "retry"} \cap events' # {}
    BY <2>6 DEF Cancel
  <2>7. CASE User
    BY <2>1, <2>4, <2>5, <2>6, <2>7, ControlUploadAll, ControlUploadBatch, ControlRemove, ControlClear DEF User
  <2>8. CASE Server
    BY <2>1, <2>8, ControlAnswer, ControlBatchAnswer DEF Server
  <2>9. CASE Browser
    BY <2>1, <2>9, ControlLoad, ControlFaded, ControlReadNext, ControlSettled, ControlComplete, ControlCheck DEF Browser, Tick
  <2> QED
    BY <2>3, <2>7, <2>8, <2>9 DEF Next
<1> QED
  BY <1>1, <1>2

\* As long as a request is open the widget stays locked, unless an upload was
\* cancelled or a file was sent by itself during one.
THEOREM Locked == Spec => []LockedWhileUploading
<1>1. Init => TypeOK /\ ControlInv
  BY InitTypes, ControlInit
<1>2. (TypeOK /\ ControlInv) /\ [Next]_vars => (TypeOK /\ ControlInv)'
  BY NextTypes, ControlNext
<1>3. ControlInv => LockedWhileUploading
  BY DEF ControlInv, LockedWhileUploading
<1> QED
  BY <1>1, <1>2, <1>3, PTL DEF Spec

-----------------------------------------------------------------------------
(* The index, the thumbnail and the handlers of a file.  What follows is true *)
(* as long as none of the situations occurred that LinkInv excludes.          *)

Undisturbed == ~Happened({"overlap", "cancel", "retry", "fading", "stale", "reset"})

Thumbs(fr) == {fr[n] : n \in DOMAIN fr}

Unique(s, fr) ==
  /\ \A i, j \in DOMAIN s : s[i] = s[j] /\ s[i] # None => i = j
  /\ Distinct(fr)

\* A file of the stack that is not being read has its thumbnail.
Linked(s, fr) ==
  \A i \in DOMAIN s : s[i] # None =>
    \/ \E r \in loads : Head(r.todo) = s[i]
    \/ s[i] \in Thumbs(fr) /\ idx[s[i]] = i /\ bound[s[i]] = i

\* The index of a thumbnail is that of its file or of a hole.
Indexed(s, fr) ==
  \A t \in Thumbs(fr) :
    /\ idx[t] <= Len(s) /\ (idx[t] > 0 => s[idx[t]] \in {None, t})
    /\ bound[t] > 0 => bound[t] = idx[t]

Ordered(s, fr) ==
  \A m, n \in DOMAIN fr :
    m < n /\ fr[m] \in InStack(s) /\ fr[n] \in InStack(s) => idx[fr[m]] < idx[fr[n]]

Marked(s, fr) ==
  /\ \A t \in Thumbs(fr) \cap InStack(s) : status[t] # "Success"
  /\ \A t \in Thumbs(fr) \cap Valid : status[t] # "Success" => t \in InStack(s)

Linkage(s, fr) == Unique(s, fr) /\ Linked(s, fr) /\ Indexed(s, fr) /\ Ordered(s, fr) /\ Marked(s, fr)

Known == Shown \cup InStack(stack) \subseteq chosen

Pending == {n \in DOMAIN timers : timers[n].kind = "read" /\ timers[n].todo # <<>>}

Ahead(f) == f \notin InStack(stack) /\ f \notin Shown /\ f \in chosen

\* One file is read after the other, and only while the widget is not locked.
Apart ==
  /\ isDisabled => loads = {} /\ Pending = {}
  /\ \A r, s \in loads : r = s
  /\ loads # {} => Pending = {}
  /\ \A m, n \in Pending : m = n

\* The file that is being read is the last of the stack; the others are to come.
LoadInv ==
  \A r \in loads :
    /\ r.node = Len(stack) /\ stack # <<>> /\ stack[r.node] = Head(r.todo) /\ Head(r.todo) \in Valid
    /\ Head(r.todo) \notin Shown
    /\ \A k \in 2 .. Len(r.todo) : Ahead(r.todo[k])
    /\ Distinct(r.todo)

\* The next one goes to the end of the stack.  Until then some thumbnail stays,
\* so that the widget is not reset.
PendingInv ==
  \A n \in Pending :
    /\ timers[n].node = Len(stack) + 1
    /\ \E t \in Shown : \A x \in fading : x[1] = t => x[3] >= n
    /\ \A k \in DOMAIN timers[n].todo : Ahead(timers[n].todo[k])
    /\ Distinct(timers[n].todo)

Read == Apart /\ LoadInv /\ PendingInv

FadingFiles == {x[1] : x \in fading}

Fades ==
  /\ \A x \in fading :
       /\ x[1] \in Shown \cap discarded
       /\ x[2] > 0 => x[2] = idx[x[1]]
       /\ x[1] \in InStack(stack) => x[2] = idx[x[1]]
  /\ \A x, y \in fading : x[1] = y[1] => x = y

\* A request that has no result yet is that of its thumbnail and of its entry.
Open(r) ==
  /\ r.file \in Shown \cap off /\ r.thumb = r.file /\ r.file \notin FadingFiles
  /\ r.i \in DOMAIN stack /\ stack[r.i] = r.file

Opened(reqs, ts) ==
  /\ \A n \in DOMAIN reqs : Open(reqs[n])
  /\ \A n \in SettlesIn(ts) : Open(ts[n].req) /\ (ts[n].kind = "success" => ts[n].req.file \in accepted)

\* No two calls are of the same thumbnail.
Single(reqs, ts) ==
  /\ \A m, n \in DOMAIN reqs : reqs[m].thumb = reqs[n].thumb => m = n
  /\ \A m, n \in SettlesIn(ts) : ts[m].req.thumb = ts[n].req.thumb => m = n
  /\ \A m \in DOMAIN reqs, n \in CompletesIn(ts) \cup SettlesIn(ts) : reqs[m].thumb # ts[n].req.thumb
  /\ \A m \in SettlesIn(ts), n \in CompletesIn(ts) : ts[m].req.thumb = ts[n].req.thumb => n = m + 1

AllMode(reqs, ts) == ChecksIn(ts) # {} \/ Calls(reqs, ts, TRUE)

\* What the user can remove while the widget is locked.
Removable ==
  /\ isDisabled => \A t \in Shown \ off : status[t] = "Success" => bound[t] < 1
  /\ AllMode(requests, timers) => \A x \in fading : x[1] \notin off /\ (x[2] > 0 => bound[x[1]] = x[2])

Sent ==
  batch # None => isDisabled /\ batch.keys = 0 /\ batch.sent = Only(stack, Files) /\ fading = {} /\ off = Shown

Under == Opened(requests, timers) /\ Single(requests, timers) /\ Removable /\ Sent

Sound == Linkage(stack, frames) /\ Known /\ Read /\ Fades /\ Under

LinkInv == Undisturbed => Sound

-----------------------------------------------------------------------------

LEMMA AppendStack ==
  ASSUME NEW T, NEW s \in Seq(T), NEW e \in T
  PROVE  /\ Append(s, e) \in Seq(T) /\ Len(Append(s, e)) = Len(s) + 1 /\ Len(s) \in Nat
         /\ DOMAIN Append(s, e) = 1 .. Len(s) + 1 /\ DOMAIN s = 1 .. Len(s)
         /\ \A i \in 1 .. Len(s) : Append(s, e)[i] = s[i]
         /\ Append(s, e)[Len(s) + 1] = e
         /\ \A i \in 1 .. Len(s) + 1 : i \in 1 .. Len(s) \/ i = Len(s) + 1
  OBVIOUS

LEMMA InAppended ==
  ASSUME NEW s \in Seq(Entry), NEW e \in Entry
  PROVE  InStack(Append(s, e)) = InStack(s) \cup ({e} \ {None})
<1>1. /\ Len(s) \in Nat
      /\ DOMAIN Append(s, e) = 1 .. Len(s) + 1 /\ DOMAIN s = 1 .. Len(s)
      /\ \A i \in 1 .. Len(s) : Append(s, e)[i] = s[i]
      /\ Append(s, e)[Len(s) + 1] = e
      /\ \A i \in 1 .. Len(s) + 1 : i \in 1 .. Len(s) \/ i = Len(s) + 1
  BY AppendStack
<1>2. 1 .. Len(s) \subseteq 1 .. Len(s) + 1 /\ Len(s) + 1 \in 1 .. Len(s) + 1
  BY <1>1
<1> QED
  BY <1>1, <1>2 DEF InStack

LEMMA ThumbsAppended ==
  ASSUME NEW fr \in Seq(Files), NEW f \in Files
  PROVE  Thumbs(Append(fr, f)) = Thumbs(fr) \cup {f}
<1>1. /\ Len(fr) \in Nat
      /\ DOMAIN Append(fr, f) = 1 .. Len(fr) + 1 /\ DOMAIN fr = 1 .. Len(fr)
      /\ \A i \in 1 .. Len(fr) : Append(fr, f)[i] = fr[i]
      /\ Append(fr, f)[Len(fr) + 1] = f
      /\ \A i \in 1 .. Len(fr) + 1 : i \in 1 .. Len(fr) \/ i = Len(fr) + 1
  BY AppendStack
<1>2. 1 .. Len(fr) \subseteq 1 .. Len(fr) + 1 /\ Len(fr) + 1 \in 1 .. Len(fr) + 1
  BY <1>1
<1> QED
  BY <1>1, <1>2 DEF Thumbs

\* The entry of a place of the stack is written.
LEMMA EntryWritten ==
  ASSUME NEW s \in Seq(Entry), NEW i \in DOMAIN s, NEW v \in Entry
  PROVE  /\ UpdateStack(s, i, v) = [s EXCEPT ![i] = v]
         /\ UpdateStack(s, i, v) \in Seq(Entry) /\ DOMAIN UpdateStack(s, i, v) = DOMAIN s /\ Len(UpdateStack(s, i, v)) = Len(s)
         /\ UpdateStack(s, i, v)[i] = v /\ \A j \in DOMAIN s : j # i => UpdateStack(s, i, v)[j] = s[j]
<1>1. i \in Nat /\ i >= 1 /\ i <= Len(s) /\ Len(s) \in Nat /\ DOMAIN s = 1 .. Len(s)
  OBVIOUS
<1>2. UpdateStack(s, i, v) = [n \in 1 .. Len(s) |-> IF n = i THEN v ELSE At(s, n)]
  BY <1>1 DEF UpdateStack
<1>3. \A n \in 1 .. Len(s) : At(s, n) = s[n]
  BY <1>1 DEF At
<1>4. s = [n \in 1 .. Len(s) |-> s[n]]
  BY <1>1
<1>5. UpdateStack(s, i, v) = [s EXCEPT ![i] = v]
  BY <1>1, <1>2, <1>3, <1>4
<1> QED
  BY <1>1, <1>5

LEMMA EntryGone ==
  ASSUME NEW s \in Seq(Entry), NEW fr, Unique(s, fr), NEW i \in DOMAIN s
  PROVE  InStack(UpdateStack(s, i, None)) = InStack(s) \ {s[i]}
<1>1. /\ DOMAIN UpdateStack(s, i, None) = DOMAIN s /\ UpdateStack(s, i, None)[i] = None
      /\ \A j \in DOMAIN s : j # i => UpdateStack(s, i, None)[j] = s[j]
  BY EntryWritten DEF Entry
<1> QED
  BY <1>1 DEF InStack, Unique

LEMMA Typed ==
  ASSUME TypeOK
  PROVE  /\ stack \in Seq(Entry) /\ frames \in Seq(Files)
         /\ idx \in [Files -> Nat] /\ bound \in [Files -> Nat \cup {SuccessHandler}]
         /\ DOMAIN stack = 1 .. Len(stack) /\ Len(stack) \in Nat
         /\ DOMAIN frames = 1 .. Len(frames) /\ Len(frames) \in Nat
         /\ Shown \subseteq Files /\ InStack(stack) \subseteq Files /\ Thumbs(frames) = Shown
         /\ \A f \in Files : idx[f] \in Nat /\ bound[f] \in Int
         /\ None \notin Files
<1>1. Shown \subseteq Files /\ InStack(stack) \subseteq Files
  BY ShownType, AtType DEF TypeOK, Entry
<1> QED
  BY <1>1, FilesAssumption DEF TypeOK, Entry, Thumbs, Shown, SuccessHandler

\* A thumbnail whose file is in the stack has its index, and so has the handler.
LEMMA OwnIndex ==
  ASSUME TypeOK, Linkage(stack, frames), LoadInv, NEW t \in Shown \cap InStack(stack)
  PROVE  idx[t] \in DOMAIN stack /\ stack[idx[t]] = t /\ bound[t] = idx[t] /\ idx[t] > 0
<1>1. PICK i \in DOMAIN stack : stack[i] = t /\ t # None
  BY DEF InStack
<1>2. idx[t] = i /\ bound[t] = i
  BY <1>1 DEF Linkage, Linked, LoadInv
<1>3. i > 0
  BY Typed
<1> QED
  BY <1>1, <1>2, <1>3

\* When nothing is read every file of the stack has a thumbnail.
LEMMA AllShown ==
  ASSUME TypeOK, Linkage(stack, frames), loads = {}, NEW f \in InStack(stack)
  PROVE  f \in Shown
<1>1. PICK i \in DOMAIN stack : stack[i] = f /\ f # None
  BY DEF InStack
<1> QED
  BY <1>1, Typed DEF Linkage, Linked

\* While nothing is under way only the reading and the links count.
LEMMA QuietUnder ==
  ASSUME Control', ~isDisabled'
  PROVE  Under'
<1>1. requests' = <<>> /\ SettlesIn(timers') = {} /\ CompletesIn(timers') = {} /\ ChecksIn(timers') = {} /\ batch' = None
  BY DEF Control, SilentIn
<1> QED
  BY <1>1 DEF Under, Opened, Single, AllMode, Calls, Removable, Sent

LEMMA NothingRead ==
  ASSUME loads' = {}, Pending' = {}
  PROVE  Read'
BY DEF Read, Apart, LoadInv, PendingInv

-----------------------------------------------------------------------------
(* Reading files keeps the links *)

\* What is left of the links when a file, or a hole, is put on the stack.
LEMMA PutOnStack ==
  ASSUME TypeOK, NEW s \in Seq(Entry), NEW fr \in Seq(Files), loads = {}, Linkage(s, fr),
         NEW h \in Files, h \notin InStack(s), h \notin Thumbs(fr), h \in Valid,
         stack' = Append(s, h), frames' = fr, UNCHANGED <<idx, bound, status>>,
         NEW r, loads' = {r}, Head(r.todo) = h
  PROVE  Linkage(stack, frames)'
<1>1. /\ Len(s) \in Nat /\ DOMAIN stack' = 1 .. Len(s) + 1 /\ DOMAIN s = 1 .. Len(s) /\ Len(stack') = Len(s) + 1
      /\ \A i \in 1 .. Len(s) : stack'[i] = s[i]
      /\ stack'[Len(s) + 1] = h
      /\ \A i \in 1 .. Len(s) + 1 : i \in 1 .. Len(s) \/ i = Len(s) + 1
  BY AppendStack DEF Entry
<1>2. InStack(stack') = InStack(s) \cup {h} /\ h # None
  BY InAppended, FilesAssumption DEF Entry
<1>3. \A i \in 1 .. Len(s) : s[i] # h
  BY <1>1, <1>2 DEF InStack
<1>4. \A t \in Thumbs(fr) : t # h /\ t \in Files /\ idx[t] \in Nat
  BY Typed DEF Thumbs
<1>5. Unique(stack', frames')
  BY <1>1, <1>3 DEF Linkage, Unique
<1>6. Linked(stack, frames)'
  BY <1>1 DEF Linkage, Linked
<1>7. Indexed(stack, frames)'
  <2>1. ASSUME NEW t \in Thumbs(fr)
        PROVE  idx[t] <= Len(s) + 1 /\ (idx[t] > 0 => stack'[idx[t]] = s[idx[t]])
    <3>1. idx[t] \in Nat /\ idx[t] <= Len(s)
      BY <1>4 DEF Linkage, Indexed
    <3> QED
      BY <1>1, <3>1
  <2> QED
    BY <1>1, <2>1 DEF Linkage, Indexed
<1>8. \A t \in Thumbs(fr) : t \in InStack(stack') <=> t \in InStack(s)
  BY <1>2, <1>4
<1>9. Ordered(stack, frames)'
  BY <1>8 DEF Linkage, Ordered, Thumbs
<1>10. Marked(stack, frames)'
  BY <1>8 DEF Linkage, Marked
<1> QED
  BY <1>5, <1>6, <1>7, <1>9, <1>10 DEF Linkage

\* The same when the file has its thumbnail at once, or when it gets it.
LEMMA PutOnPage ==
  ASSUME TypeOK, TypeOK', NEW s \in Seq(Entry), NEW fr \in Seq(Files), NEW h \in Files, h \notin Thumbs(fr),
         Unique(s, fr), Indexed(s, fr), Ordered(s, fr), Marked(s, fr),
         \A i \in DOMAIN s : s[i] # None =>
           s[i] = h \/ (s[i] \in Thumbs(fr) /\ idx[s[i]] = i /\ bound[s[i]] = i),
         h \in InStack(s) => s[Len(s)] = h,
         NEW node \in Nat, node = Len(stack'), frames' = Append(fr, h), idx' = [idx EXCEPT ![h] = node], bound' = Bind(frames', idx'),
         \/ stack' = s /\ stack' # <<>> /\ s[Len(s)] = h /\ status' = [status EXCEPT ![h] = "New"]
         \/ stack' = Append(s, None) /\ h \notin InStack(s) /\ h \notin Valid /\ status' = [status EXCEPT ![h] = "Error"]
  PROVE  Linkage(stack, frames)'
<1>1. /\ Len(s) \in Nat /\ DOMAIN s = 1 .. Len(s) /\ DOMAIN stack' = 1 .. node /\ Len(s) <= node
      /\ \A i \in 1 .. Len(s) : stack'[i] = s[i]
      /\ \A i \in 1 .. node : i \notin 1 .. Len(s) => stack'[i] = None
      /\ node > 0 /\ stack'[node] \in {None, h} /\ (stack'[node] = h <=> h \in InStack(s))
      /\ InStack(stack') = InStack(s)
  <2>1. CASE stack' = s /\ stack' # <<>> /\ s[Len(s)] = h
    <3>1. Len(s) \in Nat /\ DOMAIN s = 1 .. Len(s) /\ Len(s) > 0
      BY <2>1
    <3>2. h \in InStack(s)
      BY <2>1, <3>1, FilesAssumption DEF InStack
    <3> QED
      BY <2>1, <3>1, <3>2
  <2>2. CASE stack' = Append(s, None) /\ h \notin InStack(s)
    <3>1. InStack(stack') = InStack(s)
      BY <2>2, InAppended DEF Entry
    <3>2. /\ Len(s) \in Nat /\ DOMAIN stack' = 1 .. Len(s) + 1 /\ DOMAIN s = 1 .. Len(s) /\ Len(stack') = Len(s) + 1
          /\ \A i \in 1 .. Len(s) : stack'[i] = s[i]
          /\ stack'[Len(s) + 1] = None
          /\ \A i \in 1 .. Len(s) + 1 : i \in 1 .. Len(s) \/ i = Len(s) + 1
      BY <2>2, AppendStack DEF Entry
    <3>3. node = Len(s) + 1 /\ None # h
      BY <3>2, FilesAssumption
    <3>4. Len(s) <= node /\ node > 0 /\ \A i \in 1 .. node : i \notin 1 .. Len(s) => stack'[i] = None
      BY <3>2, <3>3
    <3> QED
      BY <2>2, <3>1, <3>2, <3>3, <3>4
  <2> QED
    BY <2>1, <2>2
<1>2. Thumbs(frames') = Thumbs(fr) \cup {h} /\ Thumbs(fr) \subseteq Files
  <2>1. Thumbs(frames') = Thumbs(fr) \cup {h}
    <3>1. Thumbs(Append(fr, h)) = Thumbs(fr) \cup {h}
      BY ThumbsAppended
    <3>2. frames' = Append(fr, h)
      OBVIOUS
    <3> QED
      BY <3>1, <3>2, Zenon
  <2>2. Thumbs(fr) \subseteq Files
    <3>1. \A n \in DOMAIN fr : fr[n] \in Files
      OBVIOUS
    <3> QED
      BY <3>1 DEF Thumbs
  <2> QED
    BY <2>1, <2>2
<1>3. /\ Len(fr) \in Nat /\ DOMAIN frames' = 1 .. Len(fr) + 1 /\ DOMAIN fr = 1 .. Len(fr)
      /\ \A n \in 1 .. Len(fr) : frames'[n] = fr[n]
      /\ frames'[Len(fr) + 1] = h
      /\ \A n \in 1 .. Len(fr) + 1 : n \in 1 .. Len(fr) \/ n = Len(fr) + 1
  BY AppendStack
<1>4. /\ \A t \in Thumbs(fr) : t # h /\ idx'[t] = idx[t] /\ idx[t] \in Nat /\ status'[t] = status[t]
      /\ idx'[h] = node /\ status'[h] \in {"New", "Error"}
  <2>1. idx \in [Files -> Nat] /\ DOMAIN status = Files
    BY DEF TypeOK
  <2>2. idx'[h] = node /\ status'[h] \in {"New", "Error"}
    BY <2>1
  <2>3. ASSUME NEW t \in Thumbs(fr) PROVE t # h /\ idx'[t] = idx[t] /\ idx[t] \in Nat /\ status'[t] = status[t]
    <3>1. t \in Files /\ t # h
      BY <1>2
    <3> QED
      BY <2>1, <3>1
  <2> QED
    BY <2>2, <2>3
<1>5. \A t \in Thumbs(frames') : bound'[t] = idx'[t]
  BY <1>2 DEF Bind, Thumbs
<1>6. Unique(stack', frames')
  <2>1. \A i, j \in DOMAIN stack' : stack'[i] = stack'[j] /\ stack'[i] # None => i = j
    BY <1>1 DEF Unique
  <2>2. Distinct(frames')
    <3>1. \A n \in 1 .. Len(fr) : fr[n] # h
      BY <1>3 DEF Thumbs
    <3> QED
      BY <1>3, <3>1 DEF Unique, Distinct
  <2> QED
    BY <2>1, <2>2 DEF Unique
<1>7. Linked(stack, frames)'
  <2>1. ASSUME NEW i \in DOMAIN stack', stack'[i] # None
        PROVE  stack'[i] \in Thumbs(frames') /\ idx'[stack'[i]] = i /\ bound'[stack'[i]] = i
    <3>1. i \in DOMAIN s /\ stack'[i] = s[i]
      BY <1>1, <2>1
    <3>2. CASE s[i] = h
      <4>1. stack'[node] = h /\ node \in DOMAIN stack'
        BY <1>1, <3>1, <3>2, FilesAssumption DEF InStack
      <4>2. i = node
        BY <1>6, <2>1, <3>1, <3>2, <4>1 DEF Unique
      <4>3. h \in Thumbs(frames') /\ idx'[h] = i
        BY <1>2, <1>4, <4>2
      <4>4. bound'[h] = i
        BY <1>5, <4>3
      <4> QED
        BY <3>1, <3>2, <4>3, <4>4
    <3>3. CASE s[i] # h
      <4>1. s[i] \in Thumbs(fr) /\ idx[s[i]] = i
        BY <2>1, <3>1, <3>3
      <4>2. s[i] \in Thumbs(frames') /\ idx'[s[i]] = i
        BY <1>2, <1>4, <4>1
      <4>3. bound'[s[i]] = i
        BY <1>5, <4>2
      <4> QED
        BY <3>1, <4>2, <4>3
    <3> QED
      BY <3>2, <3>3
  <2> QED
    BY <2>1 DEF Linked
<1>8. Indexed(stack, frames)'
  <2>1. ASSUME NEW t \in Thumbs(fr)
        PROVE  idx'[t] <= node /\ (idx'[t] > 0 => stack'[idx'[t]] \in {None, t})
    <3>1. idx[t] \in Nat /\ idx[t] <= Len(s) /\ idx'[t] = idx[t]
      BY <1>4 DEF Indexed
    <3> QED
      BY <1>1, <3>1 DEF Indexed
  <2>2. idx'[h] <= node /\ stack'[idx'[h]] \in {None, h}
    BY <1>1, <1>4
  <2>3. ASSUME NEW t \in Thumbs(frames')
        PROVE  /\ idx'[t] <= Len(stack') /\ (idx'[t] > 0 => stack'[idx'[t]] \in {None, t})
               /\ bound'[t] > 0 => bound'[t] = idx'[t]
    BY <1>2, <1>5, <2>1, <2>2
  <2> QED
    BY <2>3 DEF Indexed
<1>9. Ordered(stack, frames)'
  <2>1. ASSUME NEW m \in DOMAIN frames', NEW n \in DOMAIN frames', m < n,
               frames'[m] \in InStack(stack'), frames'[n] \in InStack(stack')
        PROVE  idx'[frames'[m]] < idx'[frames'[n]]
    <3>1. m \in 1 .. Len(fr) /\ frames'[m] = fr[m] /\ fr[m] \in Thumbs(fr)
      BY <1>3, <2>1 DEF Thumbs
    <3>2. CASE n \in 1 .. Len(fr)
      <4>1. frames'[n] = fr[n] /\ fr[n] \in Thumbs(fr)
        BY <1>3, <3>2 DEF Thumbs
      <4>2. idx[fr[m]] < idx[fr[n]]
        BY <1>1, <1>3, <2>1, <3>1, <3>2, <4>1 DEF Ordered
      <4> QED
        BY <1>4, <3>1, <4>1, <4>2
    <3>3. CASE n = Len(fr) + 1
      <4>1. frames'[n] = h /\ h \in InStack(s) /\ idx'[h] = node
        BY <1>1, <1>3, <1>4, <2>1, <3>3
      <4>2. PICK i \in DOMAIN s : s[i] = fr[m]
        BY <1>1, <2>1, <3>1 DEF InStack
      <4>3. idx[fr[m]] = i /\ stack'[i] = fr[m] /\ fr[m] # h
        BY <1>1, <1>2, <1>4, <3>1, <4>2, FilesAssumption
      <4>4. i # node /\ i <= node /\ i \in Nat
        BY <1>1, <4>1, <4>3
      <4> QED
        BY <1>4, <3>1, <4>1, <4>3, <4>4
    <3> QED
      BY <1>3, <3>2, <3>3
  <2> QED
    BY <2>1 DEF Ordered
<1>10. Marked(stack, frames)'
  <2>1. h \in Valid => h \in InStack(s)
    BY FilesAssumption, <1>1 DEF InStack
  <2> QED
    BY <1>1, <1>2, <1>4, <2>1 DEF Marked
<1> QED
  BY <1>6, <1>7, <1>8, <1>9, <1>10 DEF Linkage

\* Thumbnails that stay keep their links, and a removed one its index.
Lasts(s, fr) ==
  Thumbs(fr) \subseteq Shown' /\ \A t \in Thumbs(fr) : (t \in InStack(stack') => t \in InStack(s)) /\ idx'[t] = idx[t]

\* A file has been read, or refused, and a timer is set for the next one.
LEMMA NextToRead ==
  ASSUME NEW tm \in Seq(TimerType), NEW node \in Nat, NEW todo \in Seq(Files), todo # <<>>, Distinct(todo),
         timers' = Append(tm, Later(node + 1, Tail(todo))), \A n \in DOMAIN tm : tm[n].kind = "read" => tm[n].todo = <<>>,
         loads' = {}, ~isDisabled', Len(stack') = node,
         Head(todo) \in Shown', \A x \in fading' : x[1] # Head(todo),
         \A k \in 2 .. Len(todo) : todo[k] \notin InStack(stack') /\ todo[k] \notin Shown' /\ todo[k] \in chosen'
  PROVE  Read'
<1> DEFINE t == Later(node + 1, Tail(todo))
<1>1. t.node = node + 1 /\ t.todo = Tail(todo) /\ t.kind = "read" /\ t \in TimerType
  BY DEF Later, TimerType
<1>2. timers' = Append(tm, t)
  OBVIOUS
<1> HIDE DEF t
<1>3. /\ DOMAIN timers' = 1 .. Len(tm) + 1 /\ DOMAIN tm = 1 .. Len(tm) /\ \A i \in 1 .. Len(tm) : timers'[i] = tm[i]
      /\ timers'[Len(tm) + 1] = t /\ \A i \in 1 .. Len(tm) + 1 : i \in 1 .. Len(tm) \/ i = Len(tm) + 1
  BY <1>1, <1>2, AppendStack
<1>4. \A n \in Pending' : n = Len(tm) + 1 /\ timers'[n] = t
  BY <1>3 DEF Pending
<1>5. Apart'
  BY <1>4 DEF Apart
<1>6. LoadInv'
  BY DEF LoadInv
<1>7. PendingInv'
  <2>1. ASSUME NEW k \in DOMAIN Tail(todo)
        PROVE  Tail(todo)[k] \notin InStack(stack') /\ Tail(todo)[k] \notin Shown' /\ Tail(todo)[k] \in chosen'
    <3>1. Tail(todo)[k] = todo[k + 1] /\ k + 1 \in 2 .. Len(todo)
      OBVIOUS
    <3> QED
      BY <3>1
  <2>2. Distinct(Tail(todo))
    <3>1. \A k \in DOMAIN Tail(todo) : Tail(todo)[k] = todo[k + 1] /\ k + 1 \in DOMAIN todo /\ k \in Nat
      OBVIOUS
    <3>2. \A j, k \in Nat : j + 1 = k + 1 => j = k
      OBVIOUS
    <3> QED
      BY <3>1, <3>2 DEF Distinct
  <2> QED
    BY <1>1, <1>4, <2>1, <2>2 DEF PendingInv, Ahead
<1> QED
  BY <1>5, <1>6, <1>7 DEF Read

\* A file is next: whether it is valid or not, the links hold and the others are still to come.
LEMMA ReadFileSound ==
  ASSUME TypeOK, TypeOK', NEW todo \in Seq(Files), todo # <<>>, Distinct(todo),
         NEW s \in Seq(Entry), NEW fr \in Seq(Files), NEW tm \in Seq(TimerType),
         ReadFile(Len(s) + 1, todo, s, fr, tm),
         loads = {}, Linkage(s, fr), InStack(s) \cup Thumbs(fr) \subseteq chosen',
         \A k \in DOMAIN todo : todo[k] \notin InStack(s) /\ todo[k] \notin Thumbs(fr) /\ todo[k] \in chosen',
         \A n \in DOMAIN tm : tm[n].kind = "read" => tm[n].todo = <<>>,
         ~isDisabled', \A x \in fading' : x[1] \in Thumbs(fr)
  PROVE  Linkage(stack, frames)' /\ Known' /\ Read' /\ Lasts(s, fr)
<1> DEFINE h == Head(todo)
<1>1. /\ h \in Files /\ h = todo[1] /\ DOMAIN todo = 1 .. Len(todo) /\ Len(todo) \in Nat \ {0} /\ 1 \in DOMAIN todo
      /\ \A k \in 2 .. Len(todo) : k \in DOMAIN todo /\ k # 1
      /\ Tail(todo) \in Seq(Files) /\ DOMAIN Tail(todo) = 1 .. Len(todo) - 1
      /\ \A k \in 1 .. Len(todo) - 1 : Tail(todo)[k] = todo[k + 1] /\ k + 1 \in 2 .. Len(todo)
  OBVIOUS
<1> HIDE DEF h
<1>2. h \notin InStack(s) /\ h \notin Thumbs(fr) /\ h \in chosen' /\ h # None
  BY <1>1, FilesAssumption
<1>3. \A k \in 2 .. Len(todo) : todo[k] # h
  BY <1>1 DEF Distinct
<1>4. Shown' = Thumbs(frames') /\ Len(s) \in Nat
  BY DEF Shown, Thumbs
<1>5. CASE h \in Valid
  <2> DEFINE r == [node |-> Len(s) + 1, todo |-> todo]
  <2>1. stack' = Append(s, h) /\ frames' = fr /\ timers' = tm /\ loads' = {r} /\ UNCHANGED <<idx, bound, status>>
    BY <1>5, Zenon DEF ReadFile, h
  <2>2. r.node = Len(s) + 1 /\ r.todo = todo /\ Head(r.todo) = h
    BY DEF h
  <2> HIDE DEF r
  <2>3. Linkage(stack, frames)'
    <3>1. h \in Files /\ h \notin InStack(s) /\ h \notin Thumbs(fr)
      BY <1>1, <1>2
    <3> QED
      BY <3>1, <1>5, <2>1, <2>2, PutOnStack, Zenon
  <2>4. InStack(stack') = InStack(s) \cup {h} /\ Len(stack') = Len(s) + 1 /\ stack'[Len(s) + 1] = h /\ stack' # <<>>
    <3>1. h \in Entry /\ h # None /\ stack' = Append(s, h)
      BY <1>1, <1>2, <2>1 DEF Entry
    <3>2. InStack(Append(s, h)) = InStack(s) \cup {h}
      BY <3>1, InAppended
    <3>3. Len(stack') = Len(s) + 1 /\ stack'[Len(s) + 1] = h /\ stack' # <<>>
      BY <3>1
    <3> QED
      BY <3>1, <3>2, <3>3
  <2>5. Shown' = Thumbs(fr)
    BY <1>4, <2>1
  <2>6. Known'
    BY <1>2, <2>4, <2>5 DEF Known
  <2>7. Pending' = {}
    BY <2>1 DEF Pending
  <2>8. Apart'
    BY <2>1, <2>7 DEF Apart
  <2>9. LoadInv'
    <3>1. \A k \in 2 .. Len(todo) : todo[k] \notin InStack(stack') /\ todo[k] \notin Shown' /\ todo[k] \in chosen'
      BY <1>1, <1>3, <2>4, <2>5
    <3> QED
      BY <1>2, <1>5, <2>1, <2>2, <2>4, <2>5, <3>1 DEF LoadInv, Ahead
  <2>10. PendingInv'
    BY <2>7 DEF PendingInv
  <2>11. Lasts(s, fr)
    BY <1>2, <2>1, <2>4, <2>5 DEF Lasts
  <2> QED
    BY <2>3, <2>6, <2>8, <2>9, <2>10, <2>11 DEF Read
<1>6. CASE h \notin Valid
  <2> DEFINE node == Len(s) + 1
             t == Later(node + 1, Tail(todo))
  <2>1. /\ stack' = Append(s, None) /\ frames' = Append(fr, h) /\ idx' = [idx EXCEPT ![h] = node]
        /\ status' = [status EXCEPT ![h] = "Error"] /\ bound' = Bind(frames', idx')
        /\ timers' = Append(tm, t) /\ UNCHANGED loads
    BY <1>6, Zenon DEF ReadFile, h
  <2>2. t.node = Len(s) + 2 /\ t.todo = Tail(todo) /\ t.kind = "read" /\ t \in TimerType
    BY <1>1, <1>4 DEF Later, TimerType
  <2> HIDE DEF t
  <2>3. Len(stack') = Len(s) + 1 /\ InStack(stack') = InStack(s)
    <3>1. InStack(Append(s, None)) = InStack(s) \cup ({None} \ {None}) /\ None \in Entry
      BY InAppended DEF Entry
    <3>2. Len(stack') = Len(s) + 1
      BY <2>1, <3>1
    <3> QED
      BY <2>1, <3>1, <3>2
  <2>4. Shown' = Thumbs(fr) \cup {h}
    <3>1. Thumbs(Append(fr, h)) = Thumbs(fr) \cup {h}
      BY <1>1, ThumbsAppended
    <3> QED
      BY <1>4, <2>1, <3>1
  <2>5. Linkage(stack, frames)'
    <3>1. \A i \in DOMAIN s : s[i] # None => s[i] \in Thumbs(fr) /\ idx[s[i]] = i /\ bound[s[i]] = i
      BY DEF Linkage, Linked
    <3>2. node \in Nat /\ node = Len(stack')
      BY <1>4, <2>3
    <3> HIDE DEF node
    <3>3. Unique(s, fr) /\ Indexed(s, fr) /\ Ordered(s, fr) /\ Marked(s, fr)
      BY DEF Linkage
    <3>4. h \in Files /\ h \notin Thumbs(fr) /\ h \notin InStack(s)
      BY <1>1, <1>2
    <3>5. \A i \in DOMAIN s : s[i] # None => s[i] = h \/ (s[i] \in Thumbs(fr) /\ idx[s[i]] = i /\ bound[s[i]] = i)
      BY <3>1
    <3> QED
      BY <1>6, <2>1, <3>2, <3>3, <3>4, <3>5, PutOnPage, Zenon
  <2>6. Known'
    BY <1>2, <2>3, <2>4 DEF Known
  <2>7. Read'
    <3>1. \A x \in fading' : x[1] # h
      BY <1>2
    <3>2. \A k \in 2 .. Len(todo) : todo[k] \notin InStack(stack') /\ todo[k] \notin Shown' /\ todo[k] \in chosen'
      BY <1>1, <1>3, <2>3, <2>4
    <3>3. h \in Shown' /\ node \in Nat /\ Len(stack') = node /\ loads' = {}
      BY <1>4, <2>1, <2>3, <2>4
    <3> HIDE DEF node
    <3>4. timers' = Append(tm, Later(node + 1, Tail(todo)))
      BY <2>1 DEF t
    <3> QED
      BY <3>1, <3>2, <3>3, <3>4, NextToRead DEF h
  <2>8. Lasts(s, fr)
    <3>1. idx \in [Files -> Nat] /\ Thumbs(fr) \subseteq Files
      <4>1. \A n \in DOMAIN fr : fr[n] \in Files
        OBVIOUS
      <4> QED
        BY <4>1 DEF TypeOK, Thumbs
    <3> QED
      BY <1>1, <1>2, <2>1, <2>3, <2>4, <3>1 DEF Lasts
  <2> QED
    BY <2>5, <2>6, <2>7, <2>8
<1> QED
  BY <1>5, <1>6

\* Removals under way keep to their thumbnails.
LEMMA FadesStay ==
  ASSUME Fades, NEW s, NEW fr, Lasts(s, fr), InStack(s) \subseteq InStack(stack), \A x \in fading : x[1] \in Thumbs(fr),
         discarded \subseteq discarded', fading' = fading \/ fading' = Nearer
  PROVE  Fades'
<1>1. \A y \in fading' : \E x \in fading : y[1] = x[1] /\ y[2] = x[2]
  BY DEF Nearer
<1>2. \A y, z \in fading' : y[1] = z[1] => y = z
  BY DEF Nearer, Fades
<1> QED
  BY <1>1, <1>2 DEF Fades, Lasts

LEMMA SoundLoad ==
  ASSUME TypeOK, TypeOK', Control', Sound, NEW r \in loads, Load(r)
  PROVE  Sound'
<1> DEFINE h == Head(r.todo)
<1>1. r \in Loads
  BY DEF TypeOK, Loads
<1>2. /\ r.node \in Nat /\ r.todo \in Seq(Files) /\ r.todo # <<>> /\ h \in Files /\ 1 \in DOMAIN r.todo /\ h = r.todo[1]
      /\ \A k \in 2 .. Len(r.todo) : k \in DOMAIN r.todo /\ k # 1
  BY <1>1 DEF Loads
<1>3. /\ frames' = Append(frames, h) /\ idx' = [idx EXCEPT ![h] = r.node] /\ status' = [status EXCEPT ![h] = "New"]
      /\ bound' = Bind(frames', idx') /\ timers' = Append(timers, Later(r.node + 1, Tail(r.todo)))
      /\ loads' = loads \ {r} /\ UNCHANGED <<stack, fading, isDisabled, chosen, discarded>>
  BY DEF Load, history
<1>4. /\ ~isDisabled /\ loads = {r} /\ Pending = {}
      /\ r.node = Len(stack) /\ stack # <<>> /\ stack[r.node] = h /\ h \in Valid /\ h \notin Shown
      /\ \A k \in 2 .. Len(r.todo) : Ahead(r.todo[k])
      /\ Distinct(r.todo)
  BY DEF Sound, Read, Apart, LoadInv
<1> HIDE DEF h
<1>5. \A n \in DOMAIN timers : timers[n].kind = "read" => timers[n].todo = <<>>
  BY <1>4 DEF Pending
<1>6. Thumbs(frames) = Shown /\ Thumbs(frames') = Shown'
  BY DEF Thumbs, Shown
<1>7. Thumbs(frames') = Thumbs(frames) \cup {h}
  <2>1. Thumbs(Append(frames, h)) = Thumbs(frames) \cup {h}
    BY <1>2, Typed, ThumbsAppended
  <2> QED
    BY <1>3, <2>1
<1>8. Linkage(stack, frames)'
  <2>1. /\ stack \in Seq(Entry) /\ frames \in Seq(Files) /\ h \notin Thumbs(frames) /\ r.node = Len(stack')
        /\ stack' = stack /\ stack' # <<>> /\ stack[Len(stack)] = h
    BY <1>3, <1>4, <1>6, Typed
  <2>2. Unique(stack, frames) /\ Indexed(stack, frames) /\ Ordered(stack, frames) /\ Marked(stack, frames)
    BY DEF Sound, Linkage
  <2>3. \A i \in DOMAIN stack : stack[i] # None =>
          stack[i] = h \/ (stack[i] \in Thumbs(frames) /\ idx[stack[i]] = i /\ bound[stack[i]] = i)
    BY <1>4 DEF Sound, Linkage, Linked, h
  <2> QED
    BY <1>2, <1>3, <2>1, <2>2, <2>3, PutOnPage, Zenon
<1>9. InStack(stack') = InStack(stack) /\ h \in InStack(stack)
  <2>1. Len(stack) \in DOMAIN stack /\ h # None
    BY <1>2, <1>4, Typed
  <2> QED
    BY <1>3, <1>4, <2>1 DEF InStack
<1>10. Known'
  BY <1>3, <1>6, <1>7, <1>9 DEF Sound, Known
<1>11. Read'
  <2>1. \A k \in 2 .. Len(r.todo) : r.todo[k] \notin InStack(stack') /\ r.todo[k] \notin Shown' /\ r.todo[k] \in chosen'
    <3>1. \A k \in 2 .. Len(r.todo) : r.todo[k] # h
      BY <1>2, <1>4 DEF Distinct
    <3> QED
      BY <1>3, <1>4, <1>6, <1>7, <1>9, <3>1 DEF Ahead
  <2>2. \A x \in fading' : x[1] # h
    BY <1>3, <1>4 DEF Sound, Fades
  <2>3. h \in Shown' /\ loads' = {} /\ ~isDisabled' /\ Len(stack') = r.node
    BY <1>3, <1>4, <1>6, <1>7
  <2> QED
    BY <1>2, <1>3, <1>4, <1>5, <2>1, <2>2, <2>3, Lengths, NextToRead DEF h
<1>12. Fades'
  <2>1. \A t \in Shown : t # h /\ t \in Shown' /\ idx'[t] = idx[t]
    BY <1>2, <1>3, <1>4, <1>6, <1>7, Typed
  <2> QED
    BY <1>3, <1>9, <2>1 DEF Sound, Fades
<1>13. Under'
  BY <1>3, <1>4, QuietUnder
<1> QED
  BY <1>8, <1>10, <1>11, <1>12, <1>13 DEF Sound

\* The selection starts with an empty stack: the thumbnails of files that are
\* uploaded stay.
LEMMA FreshStart ==
  ASSUME TypeOK, Linkage(stack, frames), stack = <<>>
  PROVE  LET fr == Only(frames, {f \in Files : status[f] = "Success"})
         IN fr \in Seq(Files) /\ Linkage(<<>>, fr) /\ Thumbs(fr) \subseteq Thumbs(frames)
<1> DEFINE S == {f \in Files : status[f] = "Success"}
           fr == Only(frames, S)
<1>1. frames \in Seq(Files) /\ idx \in [Files -> Nat]
  BY Typed
<1>2. fr \in Seq(Files)
  <2>1. fr \in Seq(Files \cap S) /\ Files \cap S \subseteq Files
    BY <1>1, OnlyProperties
  <2> QED
    BY <2>1, SeqOfLarger, Zenon
<1>3. /\ \A e : (\E n \in DOMAIN fr : fr[n] = e) <=> (e \in S /\ \E i \in DOMAIN frames : frames[i] = e)
      /\ (\A i, j \in DOMAIN frames : frames[i] = frames[j] => i = j) => \A m, n \in DOMAIN fr : fr[m] = fr[n] => m = n
  BY <1>1, OnlyElements
<1> HIDE DEF fr
<1>4. Thumbs(fr) = Thumbs(frames) \cap S
  BY <1>3 DEF Thumbs
<1>5. Unique(<<>>, fr)
  BY <1>3 DEF Linkage, Unique, Distinct
<1>6. Linked(<<>>, fr)
  BY DEF Linked
<1>7. Indexed(<<>>, fr)
  BY <1>4 DEF Linkage, Indexed
<1>8. InStack(<<>>) = {}
  BY DEF InStack
<1>9. Ordered(<<>>, fr) /\ Marked(<<>>, fr)
  BY <1>4, <1>8 DEF Ordered, Marked
<1> QED
  BY <1>2, <1>4, <1>5, <1>6, <1>7, <1>9 DEF Linkage, fr

-----------------------------------------------------------------------------
(* The actions of the user that choose and remove *)

LEMMA LinkageKept ==
  ASSUME Linkage(stack, frames), UNCHANGED <<stack, frames, idx, bound, status, loads>>
  PROVE  Linkage(stack, frames)'
BY DEF Linkage, Unique, Linked, Indexed, Ordered, Marked

\* What is new in a selection has not been chosen before.
LEMMA FreshAhead ==
  ASSUME TypeOK, Known, NEW S \in Selections
  PROVE  /\ Fresh(S) \in Seq(Files) /\ Distinct(Fresh(S))
         /\ \A k \in DOMAIN Fresh(S) :
              Fresh(S)[k] \notin InStack(stack) /\ Fresh(S)[k] \notin Shown /\ \E n \in DOMAIN S : S[n] = Fresh(S)[k]
<1> DEFINE later == {f \in Files : \A g \in chosen : g < f}
<1>1. InStack(stack) \subseteq Files /\ Shown \subseteq Files
  BY Typed
<1>2. PICK n \in 1 .. MaxChosen : S \in [1 .. n -> InStack(stack) \cup later] /\ \A i, j \in DOMAIN S : i < j => S[i] < S[j]
  BY DEF Selections
<1>3. n \in Nat /\ DOMAIN S = 1 .. n
  BY <1>2, BoundsAssumption
<1> HIDE DEF later
<1>4. \A i \in 1 .. n : S[i] \in Files
  BY <1>1, <1>2 DEF later
<1>5. S \in Seq(Files)
  BY <1>2, <1>3, <1>4
<1>6. \A i, j \in DOMAIN S : S[i] = S[j] => i = j
  <2>1. \A i \in DOMAIN S : i \in Nat /\ S[i] \in Nat
    <3>1. 1 .. n \subseteq Nat /\ Files \subseteq Nat
      BY FilesAssumption
    <3> QED
      BY <1>3, <1>4, <3>1
  <2>2. ASSUME NEW i \in DOMAIN S, NEW j \in DOMAIN S, S[i] = S[j] PROVE i = j
    <3>1. ~(i < j) /\ ~(j < i)
      BY <1>2, <2>1, <2>2, SmallerIsOther
    <3> QED
      BY <2>1, <3>1
  <2> QED
    BY <2>2
<1> DEFINE o == Only(S, Files \ InStack(stack))
<1>7. /\ \A e : (\E k \in DOMAIN o : o[k] = e) <=> (e \in Files \ InStack(stack) /\ \E i \in DOMAIN S : S[i] = e)
      /\ \A j, k \in DOMAIN o : o[j] = o[k] => j = k
  BY <1>5, <1>6, OnlyElements
<1>8. o = Fresh(S) /\ Fresh(S) \in Seq(Files)
  BY <1>5, FreshType DEF Fresh
<1> HIDE DEF o
<1>9. \A f \in later : f \notin chosen
  BY FilesAssumption DEF later
<1>10. \A k \in DOMAIN o : o[k] \notin InStack(stack) /\ \E i \in DOMAIN S : S[i] = o[k]
  BY <1>7
<1>11. \A k \in DOMAIN o : o[k] \notin Shown
  BY <1>2, <1>3, <1>9, <1>10 DEF Known
<1> QED
  BY <1>7, <1>8, <1>10, <1>11 DEF Distinct

LEMMA SoundSelect ==
  ASSUME TypeOK, TypeOK', Control', Sound, Undisturbed', NEW S \in Selections, Select(S)
  PROVE  Sound'
<1>1. /\ ~isDisabled /\ isDisabled' = isDisabled /\ fading' = fading /\ chosen \subseteq chosen' /\ discarded \subseteq discarded'
      /\ chosen' = chosen \cup {S[n] : n \in DOMAIN S}
  BY DEF Select
<1>2. loads = {} /\ Pending = {} /\ (stack = <<>> /\ ~NoneTaken(S) => fading = {})
  <2>1. ~Reading
    BY DEF Select, Undisturbed, Happened
  <2>2. loads = {} /\ Pending = {}
    BY <2>1 DEF Reading, Pending
  <2>3. stack = <<>> => fading = {}
    BY DEF Select, Undisturbed, Happened
  <2> QED
    BY <2>2, <2>3
<1>3. Under'
  BY <1>1, QuietUnder
<1>4. CASE NoneTaken(S)
  <2>1. UNCHANGED <<stack, frames, idx, bound, status, loads, timers>>
    BY <1>4 DEF Select
  <2>2. Linkage(stack, frames)'
    BY <2>1, LinkageKept DEF Sound
  <2>3. Known' /\ Fades'
    BY <1>1, <2>1 DEF Sound, Known, Fades, Shown
  <2>4. Read'
    BY <1>2, <2>1, NothingRead DEF Pending
  <2> QED
    BY <1>3, <2>2, <2>3, <2>4 DEF Sound
<1>5. CASE ~NoneTaken(S)
  <2> DEFINE todo == Fresh(S)
  <2>1. /\ todo \in Seq(Files) /\ Distinct(todo) /\ todo # <<>>
        /\ \A k \in DOMAIN todo : todo[k] \notin InStack(stack) /\ todo[k] \notin Shown /\ todo[k] \in chosen'
    <3>1. todo \in Seq(Files) /\ Distinct(todo) /\ todo # <<>>
      BY <1>5, FreshAhead DEF Sound, NoneTaken
    <3>2. \A k \in DOMAIN todo : todo[k] \notin InStack(stack) /\ todo[k] \notin Shown /\ \E n \in DOMAIN S : S[n] = todo[k]
      BY FreshAhead DEF Sound
    <3> QED
      BY <1>1, <3>1, <3>2
  <2> HIDE DEF todo
  <2>2. \A n \in DOMAIN timers : timers[n].kind = "read" => timers[n].todo = <<>>
    BY <1>2 DEF Pending
  <2>3. ~isDisabled' /\ InStack(stack) \cup Thumbs(frames) \subseteq chosen'
    BY <1>1, Typed DEF Sound, Known
  <2>4. CASE stack = <<>>
    <3> DEFINE fr == Only(frames, {f \in Files : status[f] = "Success"})
    <3>1. fr \in Seq(Files) /\ Linkage(<<>>, fr) /\ Thumbs(fr) \subseteq Thumbs(frames)
      BY <2>4, FreshStart DEF Sound
    <3>2. ReadFile(1, todo, <<>>, fr, timers)
      BY <1>5, <2>4 DEF Select, todo
    <3> HIDE DEF fr
    <3> DEFINE s == <<>>
    <3>3. s \in Seq(Entry) /\ Len(s) + 1 = 1 /\ InStack(s) = {}
      BY DEF InStack
    <3>4. ReadFile(Len(s) + 1, todo, s, fr, timers) /\ Linkage(s, fr)
      BY <3>1, <3>2, <3>3
    <3> HIDE DEF s
    <3>5. InStack(s) \cup Thumbs(fr) \subseteq chosen'
      BY <2>3, <3>1, <3>3
    <3>6. \A k \in DOMAIN todo : todo[k] \notin InStack(s) /\ todo[k] \notin Thumbs(fr) /\ todo[k] \in chosen'
      BY <2>1, <3>1, <3>3, Typed
    <3>7. fading' = {}
      BY <1>1, <1>2, <1>5, <2>4
    <3>8. Linkage(stack, frames)' /\ Known' /\ Read'
      BY <1>2, <2>1, <2>2, <2>3, <3>1, <3>3, <3>4, <3>5, <3>6, <3>7, Lengths, ReadFileSound
    <3>9. Fades'
      BY <3>7 DEF Fades
    <3> QED
      BY <1>3, <3>8, <3>9 DEF Sound
  <2>5. CASE stack # <<>>
    <3>1. ReadFile(Len(stack) + 1, todo, stack, frames, timers)
      BY <1>5, <2>5 DEF Select, todo
    <3>2. stack \in Seq(Entry) /\ frames \in Seq(Files) /\ Thumbs(frames) = Shown /\ Linkage(stack, frames)
      BY Typed DEF Sound
    <3>3. \A x \in fading : x[1] \in Thumbs(frames)
      BY <3>2 DEF Sound, Fades
    <3>4. \A x \in fading' : x[1] \in Thumbs(frames)
      BY <1>1, <3>3
    <3>5. \A k \in DOMAIN todo : todo[k] \notin InStack(stack) /\ todo[k] \notin Thumbs(frames) /\ todo[k] \in chosen'
      BY <2>1, <3>2
    <3>6. Linkage(stack, frames)' /\ Known' /\ Read' /\ Lasts(stack, frames)
      BY <1>2, <2>1, <2>2, <2>3, <3>1, <3>2, <3>4, <3>5, Lengths, ReadFileSound
    <3>7. Fades'
      BY <1>1, <3>3, <3>6, FadesStay DEF Sound
    <3> QED
      BY <1>3, <3>6, <3>7 DEF Sound
  <2> QED
    BY <2>4, <2>5
<1> QED
  BY <1>4, <1>5

LEMMA SoundClear ==
  ASSUME TypeOK', Control', Undisturbed', Clear
  PROVE  Sound'
<1>1. /\ ~isDisabled' /\ stack' = <<>> /\ frames' = <<>> /\ fading' = fading /\ loads' = loads /\ timers' = timers
  BY DEF Clear
<1>2. loads = {} /\ Pending = {} /\ fading = {}
  BY DEF Clear, Undisturbed, Happened, Reading, Pending
<1>3. Linkage(stack, frames)'
  BY <1>1 DEF Linkage, Unique, Distinct, Linked, Indexed, Ordered, Marked, Thumbs
<1>4. Known'
  BY <1>1 DEF Known, Shown, InStack
<1>5. Read'
  BY <1>1, <1>2, NothingRead DEF Pending
<1>6. Fades'
  BY <1>1, <1>2 DEF Fades
<1> QED
  BY <1>1, <1>3, <1>4, <1>5, <1>6, QuietUnder DEF Sound

LEMMA SoundRemove ==
  ASSUME TypeOK, Sound, NEW f \in Files, Remove(f)
  PROVE  Sound'
<1> DEFINE x == <<f, bound[f], Len(timers)>>
<1>1. /\ f \in Shown /\ f \notin off /\ f \notin FadingFiles /\ fading' = fading \cup {x} /\ discarded' = discarded \cup {f}
      /\ UNCHANGED <<stack, frames, idx, bound, status, off, isDisabled, loads, timers, requests, batch, chosen, accepted>>
  BY DEF Remove, thumbs, FadingFiles
<1>2. x[1] = f /\ x[2] = bound[f] /\ x[3] = Len(timers)
  OBVIOUS
<1> HIDE DEF x
<1>3. Linkage(stack, frames)'
  BY <1>1, LinkageKept DEF Sound
<1>4. Known'
  BY <1>1 DEF Sound, Known, Shown
<1>5. Read'
  <2>1. Apart' /\ LoadInv'
    BY <1>1 DEF Sound, Read, Apart, LoadInv, Ahead, Pending, Shown
  <2>2. PendingInv'
    <3>1. ASSUME NEW n \in Pending PROVE \E t \in Shown : \A y \in fading' : y[1] = t => y[3] >= n
      <4>1. PICK t \in Shown : \A y \in fading : y[1] = t => y[3] >= n
        BY DEF Sound, Read, PendingInv
      <4>2. Len(timers) >= n
        BY Lengths DEF Pending
      <4> QED
        BY <1>1, <1>2, <4>1, <4>2
    <3>2. Pending' = Pending /\ Shown' = Shown /\ \A g : Ahead(g) => Ahead(g)'
      BY <1>1 DEF Pending, Shown, Ahead
    <3>3. ASSUME NEW n \in Pending
          PROVE  timers[n].node = Len(stack) + 1 /\ Distinct(timers[n].todo) /\ \A k \in DOMAIN timers[n].todo : Ahead(timers[n].todo[k])
      BY DEF Sound, Read, PendingInv
    <3> QED
      BY <1>1, <3>1, <3>2, <3>3 DEF PendingInv
  <2> QED
    BY <2>1, <2>2 DEF Read
<1>6. Fades'
  <2>1. x[2] > 0 => x[2] = idx[f]
    BY <1>1, <1>2, Typed DEF Sound, Linkage, Indexed
  <2>2. f \in InStack(stack) => x[2] = idx[f]
    BY <1>1, <1>2, OwnIndex DEF Sound, Read
  <2>3. \A y \in fading : y[1] # f
    BY <1>1 DEF FadingFiles
  <2> QED
    BY <1>1, <1>2, <2>1, <2>2, <2>3 DEF Sound, Fades, Shown
<1>7. Under'
  <2>1. FadingFiles' = FadingFiles \cup {f}
    BY <1>1, <1>2 DEF FadingFiles
  <2>2. \A r : Open(r) => Open(r)'
    BY <1>1, <2>1 DEF Open, Shown
  <2>3. Opened(requests, timers)' /\ Single(requests, timers)'
    BY <1>1, <2>2 DEF Sound, Under, Opened, Single
  <2>4. Removable'
    BY <1>1, <1>2 DEF Sound, Under, Removable, AllMode, Shown
  <2>5. batch = None
    BY <1>1 DEF Sound, Under, Sent
  <2> QED
    BY <1>1, <2>3, <2>4, <2>5 DEF Under, Sent
<1> QED
  BY <1>3, <1>4, <1>5, <1>6, <1>7 DEF Sound

\* What a timer that fires leaves of the queue.
LEMMA TailTimers ==
  ASSUME TypeOK, timers # <<>>
  PROVE  /\ \A n \in DOMAIN Tail(timers) : n + 1 \in DOMAIN timers /\ Tail(timers)[n] = timers[n + 1] /\ n \in Nat \ {0}
         /\ \A n \in DOMAIN timers : n = 1 \/ (n - 1 \in DOMAIN Tail(timers) /\ (n - 1) + 1 = n)
         /\ \A m, n \in Nat : m + 1 = n + 1 => m = n
<1>1. timers \in Seq(TimerType)
  BY Lengths
<1> QED
  BY <1>1

\* Removals under way come nearer, and stay what they are.
LEMMA NearerSame ==
  ASSUME TypeOK
  PROVE  /\ \A y \in Nearer : \E x \in fading : y[1] = x[1] /\ y[2] = x[2] /\ \A n \in Nat \ {0} : x[3] >= n + 1 => y[3] >= n
         /\ {y[1] : y \in Nearer} = FadingFiles
         /\ fading = {} => Nearer = {}
         /\ (\A x, y \in fading : x[1] = y[1] => x = y) => \A x, y \in Nearer : x[1] = y[1] => x = y
<1> DEFINE near(x) == <<x[1], x[2], IF x[3] = 0 THEN 0 ELSE x[3] - 1>>
<1>1. Nearer = {near(x) : x \in fading} /\ \A x \in fading : near(x)[1] = x[1] /\ near(x)[2] = x[2]
  BY DEF Nearer
<1>2. ASSUME NEW x \in fading, NEW n \in Nat \ {0}, x[3] >= n + 1 PROVE near(x)[3] >= n
  <2>1. x[3] \in Nat
    BY DEF TypeOK
  <2> QED
    BY <1>2, <2>1
<1> HIDE DEF near
<1> QED
  BY <1>1, <1>2 DEF FadingFiles

\* The calls after a timer that is none of theirs, or the last of its own, has fired.
LEMMA CallsTail ==
  ASSUME TypeOK, timers # <<>>, Opened(requests, timers), Single(requests, timers)
  PROVE  LET ts == Tail(timers)
         IN /\ \A n \in SettlesIn(ts) : Open(ts[n].req) /\ (ts[n].kind = "success" => ts[n].req.file \in accepted)
            /\ Single(requests, ts)
            /\ AllMode(requests, ts) => AllMode(requests, timers)
<1> DEFINE ts == Tail(timers)
<1>1. /\ \A n \in DOMAIN ts : n + 1 \in DOMAIN timers /\ ts[n] = timers[n + 1] /\ n \in Nat \ {0}
      /\ \A m, n \in Nat : m + 1 = n + 1 => m = n
  BY TailTimers
<1> HIDE DEF ts
<1>2. /\ \A n \in SettlesIn(ts) : n + 1 \in SettlesIn(timers) /\ ts[n] = timers[n + 1] /\ n \in Nat
      /\ \A n \in CompletesIn(ts) : n + 1 \in CompletesIn(timers) /\ ts[n] = timers[n + 1] /\ n \in Nat
      /\ \A n \in ChecksIn(ts) : n + 1 \in ChecksIn(timers)
  BY <1>1 DEF SettlesIn, CompletesIn, ChecksIn
<1>3. \A n \in SettlesIn(ts) : Open(ts[n].req) /\ (ts[n].kind = "success" => ts[n].req.file \in accepted)
  BY <1>2 DEF Opened
<1>4. Single(requests, ts)
  <2>1. \A m, n \in SettlesIn(ts) : ts[m].req.thumb = ts[n].req.thumb => m = n
    BY <1>1, <1>2 DEF Single
  <2>2. \A m \in DOMAIN requests, n \in CompletesIn(ts) \cup SettlesIn(ts) : requests[m].thumb # ts[n].req.thumb
    BY <1>2 DEF Single
  <2>3. ASSUME NEW m \in SettlesIn(ts), NEW n \in CompletesIn(ts), ts[m].req.thumb = ts[n].req.thumb
        PROVE  n = m + 1
    <3>1. n + 1 = (m + 1) + 1 /\ m + 1 \in Nat /\ n \in Nat
      BY <1>2, <2>3 DEF Single
    <3> QED
      BY <1>1, <3>1
  <2> QED
    BY <2>1, <2>2, <2>3 DEF Single
<1>5. AllMode(requests, ts) => AllMode(requests, timers)
  BY <1>2 DEF AllMode, Calls
<1> QED
  BY <1>3, <1>4, <1>5 DEF ts

LEMMA SoundReadNext ==
  ASSUME TypeOK, TypeOK', Control', Sound, ReadNext
  PROVE  Sound'
<1> DEFINE t == Head(timers)
           ts == Tail(timers)
<1>1. /\ timers # <<>> /\ t.kind = "read" /\ ReadFile(t.node, t.todo, stack, frames, ts) /\ fading' = Nearer
      /\ UNCHANGED <<off, isDisabled, requests, batch, chosen, accepted, discarded>>
  BY DEF ReadNext, history
<1>2. t = timers[1] /\ t \in TimerType /\ ts \in Seq(TimerType)
  BY <1>1, HeadPlaces
<1>3. t.node \in Nat /\ t.todo \in Seq(Files)
  BY <1>1, <1>2 DEF TimerType
<1>4. /\ \A n \in DOMAIN ts : n + 1 \in DOMAIN timers /\ ts[n] = timers[n + 1] /\ n \in Nat \ {0}
      /\ \A m, n \in Nat : m + 1 = n + 1 => m = n
  BY <1>1, TailTimers
<1>5. 1 \in DOMAIN timers
  BY <1>1, Lengths
<1> HIDE DEF t, ts
<1>6. CASE t.todo = <<>>
  <2>1. UNCHANGED <<stack, frames, idx, bound, status, loads>> /\ timers' = ts
    BY <1>1, <1>6, Zenon DEF ReadFile
  <2>2. Linkage(stack, frames)' /\ Known'
    BY <1>1, <2>1, LinkageKept DEF Sound, Known, Shown
  <2>3. \A n \in Pending' : n + 1 \in Pending /\ timers'[n] = timers[n + 1] /\ n \in Nat \ {0}
    BY <1>4, <2>1 DEF Pending
  <2>4. Shown' = Shown /\ \A f : Ahead(f) => Ahead(f)'
    BY <1>1, <2>1 DEF Shown, Ahead
  <2>5. Apart' /\ LoadInv'
    <3>1. Apart'
      BY <1>1, <1>4, <2>1, <2>3 DEF Sound, Read, Apart
    <3> QED
      BY <2>1, <2>4, <3>1 DEF Sound, Read, LoadInv
  <2>6. PendingInv'
    <3>1. ASSUME NEW n \in Pending' PROVE \E u \in Shown : \A y \in fading' : y[1] = u => y[3] >= n
      <4>1. PICK u \in Shown : \A x \in fading : x[1] = u => x[3] >= n + 1
        BY <2>3 DEF Sound, Read, PendingInv
      <4> QED
        BY <1>1, <2>3, <4>1, NearerSame
    <3>2. ASSUME NEW n \in Pending'
          PROVE  timers'[n].node = Len(stack) + 1 /\ Distinct(timers'[n].todo) /\ \A k \in DOMAIN timers'[n].todo : Ahead(timers'[n].todo[k])
      BY <2>3 DEF Sound, Read, PendingInv
    <3> QED
      BY <2>1, <2>4, <3>1, <3>2 DEF PendingInv
  <2>7. Fades'
    BY <1>1, <2>1, NearerSame DEF Sound, Fades, Shown
  <2>8. Under'
    <3>1. \A r : Open(r) => Open(r)'
      BY <1>1, <2>1, NearerSame DEF Open, Shown, FadingFiles
    <3>2. Opened(requests, timers) /\ Single(requests, timers)
      BY DEF Sound, Under
    <3>3. /\ \A n \in SettlesIn(ts) : Open(ts[n].req) /\ (ts[n].kind = "success" => ts[n].req.file \in accepted)
          /\ Single(requests, ts) /\ (AllMode(requests, ts) => AllMode(requests, timers))
      BY <1>1, <3>2, CallsTail DEF ts
    <3>4. Opened(requests, timers)'
      BY <1>1, <2>1, <3>1, <3>2, <3>3 DEF Opened
    <3>5. Single(requests, timers)'
      BY <1>1, <2>1, <3>3 DEF Single
    <3>6. Removable'
      <4>1. AllMode(requests, timers)' => AllMode(requests, timers)
        BY <1>1, <2>1, <3>3
      <4> QED
        BY <1>1, <2>1, <4>1, NearerSame DEF Sound, Under, Removable, Shown
    <3>7. Sent'
      BY <1>1, <2>1, NearerSame DEF Sound, Under, Sent, Shown
    <3> QED
      BY <3>4, <3>5, <3>6, <3>7 DEF Under
  <2> QED
    BY <2>2, <2>5, <2>6, <2>7, <2>8 DEF Sound, Read
<1>7. CASE t.todo # <<>>
  <2>1. 1 \in Pending
    BY <1>1, <1>2, <1>5, <1>7 DEF Pending
  <2>2. ~isDisabled /\ loads = {} /\ \A n \in Pending : n = 1
    BY <2>1 DEF Sound, Read, Apart
  <2>3. \A n \in DOMAIN ts : ts[n].kind = "read" => ts[n].todo = <<>>
    <3>1. ASSUME NEW n \in DOMAIN ts, ts[n].kind = "read", ts[n].todo # <<>> PROVE FALSE
      <4>1. n + 1 \in Pending /\ n \in Nat \ {0}
        BY <1>4, <3>1 DEF Pending
      <4> QED
        BY <2>2, <4>1
    <3> QED
      BY <3>1
  <2>4. t.node = Len(stack) + 1 /\ Distinct(t.todo) /\ \A k \in DOMAIN t.todo : Ahead(t.todo[k])
    BY <1>2, <2>1 DEF Sound, Read, PendingInv
  <2>5. stack \in Seq(Entry) /\ frames \in Seq(Files) /\ Thumbs(frames) = Shown /\ Linkage(stack, frames)
    BY Typed DEF Sound
  <2>6. /\ InStack(stack) \cup Thumbs(frames) \subseteq chosen' /\ ~isDisabled'
        /\ \A k \in DOMAIN t.todo : t.todo[k] \notin InStack(stack) /\ t.todo[k] \notin Thumbs(frames) /\ t.todo[k] \in chosen'
    BY <1>1, <2>2, <2>4, <2>5 DEF Sound, Known, Ahead
  <2>7. \A x \in fading : x[1] \in Thumbs(frames)
    BY <2>5 DEF Sound, Fades
  <2>8. \A x \in fading' : x[1] \in Thumbs(frames)
    BY <1>1, <2>7, NearerSame
  <2>9. ReadFile(Len(stack) + 1, t.todo, stack, frames, ts)
    BY <1>1, <2>4
  <2>10. Linkage(stack, frames)' /\ Known' /\ Read' /\ Lasts(stack, frames)
    BY <1>2, <1>3, <1>7, <2>2, <2>3, <2>4, <2>5, <2>6, <2>8, <2>9, ReadFileSound
  <2>11. Fades'
    BY <1>1, <2>7, <2>10, FadesStay DEF Sound
  <2> QED
    BY <2>6, <2>10, <2>11, QuietUnder DEF Sound
<1> QED
  BY <1>6, <1>7

-----------------------------------------------------------------------------
(* The answers and their timers *)

\* While the widget is locked nothing is read.
LEMMA LockedReads ==
  ASSUME Sound, isDisabled, loads' = loads, timers' = timers \/ \A n \in DOMAIN timers' : timers'[n].kind # "read" \/ \E m \in DOMAIN timers : timers'[n] = timers[m]
  PROVE  Read'
<1>1. loads = {} /\ Pending = {}
  BY DEF Sound, Read, Apart
<1>2. Pending' = {}
  BY <1>1 DEF Pending
<1> QED
  BY <1>1, <1>2, NothingRead

\* The request whose handler comes next, and how it differs from the others.
LEMMA SettledRequest ==
  ASSUME TypeOK, Control, Sound, timers # <<>>, Head(timers).kind \in {"success", "error"}
  PROVE  LET r == Head(timers).req
         IN /\ Open(r) /\ r.file \in Files /\ (Head(timers).kind = "success" => r.file \in accepted)
            /\ isDisabled /\ batch = None /\ loads = {}
            /\ \A n \in DOMAIN requests : requests[n].file # r.file
            /\ \A n \in SettlesIn(Tail(timers)) : Tail(timers)[n].req.file # r.file
<1> DEFINE r == Head(timers).req
           ts == Tail(timers)
<1>1. 1 \in SettlesIn(timers) /\ timers[1].req = r /\ Head(timers) = timers[1]
  BY HeadPlaces
<1>2. isDisabled /\ batch = None
  BY <1>1 DEF Control, SilentIn
<1>3. \A n \in DOMAIN ts : n + 1 \in DOMAIN timers /\ ts[n] = timers[n + 1] /\ n \in Nat \ {0}
  BY TailTimers
<1> HIDE DEF r, ts
<1>4. Open(r) /\ (Head(timers).kind = "success" => r.file \in accepted) /\ r.file \in Files
  BY <1>1, Typed DEF Sound, Under, Opened, Open
<1>5. \A n \in DOMAIN requests : requests[n].thumb = requests[n].file /\ requests[n].thumb # timers[1].req.thumb
  BY <1>1 DEF Sound, Under, Opened, Single, Open
<1>6. ASSUME NEW n \in SettlesIn(ts) PROVE ts[n].req.thumb = ts[n].req.file /\ ts[n].req.thumb # r.thumb
  <2>1. n + 1 \in SettlesIn(timers) /\ ts[n].req = timers[n + 1].req /\ n + 1 # 1
    BY <1>3 DEF SettlesIn
  <2> QED
    BY <1>1, <2>1 DEF Sound, Under, Opened, Single, Open
<1>7. loads = {}
  BY <1>2 DEF Sound, Read, Apart
<1> QED
  BY <1>1, <1>2, <1>4, <1>5, <1>6, <1>7 DEF r, ts, Open

\* The other calls are under way as before.
LEMMA OthersUnder ==
  ASSUME TypeOK, Control, Sound, timers # <<>>, Head(timers).kind \in {"success", "error"}, timers' = Tail(timers), fading' = Nearer,
         UNCHANGED <<frames, bound, off, isDisabled, requests, batch, accepted>>,
         LET f == Head(timers).req.file
         IN \A r : Open(r) /\ r.file # f => r.i \in DOMAIN stack' /\ stack'[r.i] = stack[r.i],
         \A t \in Files : t \notin off => status'[t] = status[t]
  PROVE  Under'
<1> DEFINE f == Head(timers).req.file
<1>1. /\ batch = None
      /\ \A n \in DOMAIN requests : requests[n].file # f
      /\ \A n \in SettlesIn(Tail(timers)) : Tail(timers)[n].req.file # f
  BY SettledRequest
<1>2. \A r : Open(r) /\ r.file # f => Open(r)'
  BY NearerSame DEF Open, Shown, FadingFiles
<1> HIDE DEF f
<1>3. Opened(requests, timers) /\ Single(requests, timers)
  BY DEF Sound, Under
<1> DEFINE ts == Tail(timers)
<1>4. /\ \A n \in SettlesIn(ts) : Open(ts[n].req) /\ (ts[n].kind = "success" => ts[n].req.file \in accepted)
      /\ Single(requests, ts) /\ (AllMode(requests, ts) => AllMode(requests, timers))
  BY <1>3, CallsTail
<1>5. timers' = ts /\ \A n \in SettlesIn(ts) : ts[n].req.file # f
  BY <1>1
<1> HIDE DEF ts
<1>6. Opened(requests, timers)'
  BY <1>1, <1>2, <1>3, <1>4, <1>5 DEF Opened
<1>7. Single(requests, timers)'
  <2>1. requests' = requests /\ timers' = ts /\ Single(requests, ts)
    BY <1>4, <1>5
  <2>2. Single(requests', timers')
    BY <2>1, Zenon
  <2> QED
    BY <2>2 DEF Single
<1>8. Removable'
  <2>1. AllMode(requests, timers)' => AllMode(requests, timers)
    BY <1>4, <1>5
  <2>2. Shown' = Shown /\ Shown \subseteq Files
    BY Typed DEF Shown
  <2> QED
    BY <2>1, <2>2, NearerSame DEF Sound, Under, Removable
<1>9. Sent'
  BY <1>1 DEF Sent
<1> QED
  BY <1>6, <1>7, <1>8, <1>9 DEF Under

LEMMA SoundSuccess ==
  ASSUME TypeOK, Control, Sound, Success
  PROVE  Sound'
<1> DEFINE r == Head(timers).req
<1>1. /\ timers # <<>> /\ Head(timers).kind = "success" /\ timers' = Tail(timers) /\ fading' = Nearer
      /\ status' = SetStatus(r.thumb, "Success") /\ stack' = UpdateStack(stack, r.i, None)
      /\ UNCHANGED <<frames, idx, bound, off, isDisabled, loads, requests, batch, chosen, accepted, discarded>>
  BY DEF Success, Fire, history
<1>2. Open(r) /\ r.file \in Files /\ isDisabled /\ loads = {}
  BY <1>1, SettledRequest
<1> HIDE DEF r
<1>3. r.thumb = r.file /\ r.file \in Shown \cap off /\ r.i \in DOMAIN stack /\ stack[r.i] = r.file /\ r.file # None
  BY <1>2, FilesAssumption DEF Open
<1>4. /\ DOMAIN stack' = DOMAIN stack /\ Len(stack') = Len(stack) /\ stack'[r.i] = None
      /\ \A j \in DOMAIN stack : j # r.i => stack'[j] = stack[j]
  <2>1. stack \in Seq(Entry) /\ None \in Entry /\ stack' = UpdateStack(stack, r.i, None)
    BY <1>1, Typed DEF Entry
  <2> QED
    <3>1. PICK i \in DOMAIN stack : i = r.i
      BY <1>3
    <3>2. LET w == UpdateStack(stack, i, None)
          IN DOMAIN w = DOMAIN stack /\ Len(w) = Len(stack) /\ w[i] = None /\ \A j \in DOMAIN stack : j # i => w[j] = stack[j]
      BY <2>1, EntryWritten
    <3> QED
      BY <2>1, <3>1, <3>2
<1>5. InStack(stack') = InStack(stack) \ {r.file}
  <2>1. stack \in Seq(Entry) /\ Unique(stack, frames)
    BY Typed DEF Sound, Linkage
  <2>2. InStack(UpdateStack(stack, r.i, None)) = InStack(stack) \ {stack[r.i]}
    BY <1>3, <2>1, EntryGone
  <2> QED
    BY <1>1, <1>3, <2>2
<1>6. status'[r.file] = "Success" /\ \A t \in Files : t # r.file => status'[t] = status[t]
  <2>1. status' = [status EXCEPT ![r.file] = "Success"]
    BY <1>1, <1>3 DEF SetStatus
  <2>2. DOMAIN status = Files
    BY DEF TypeOK
  <2> QED
    BY <1>2, <2>1, <2>2
<1>7. Shown' = Shown /\ Thumbs(frames) = Shown /\ Shown \subseteq Files /\ \A j \in DOMAIN stack : stack'[j] \in {None, stack[j]}
  BY <1>1, <1>4, Typed DEF Shown
<1>8. Linkage(stack, frames)'
  <2>1. Unique(stack, frames)'
    BY <1>1, <1>4, <1>7 DEF Sound, Linkage, Unique
  <2>2. Linked(stack, frames)'
    BY <1>1, <1>4, <1>7 DEF Sound, Linkage, Linked
  <2>3. Indexed(stack, frames)'
    <3>1. ASSUME NEW t \in Thumbs(frames)
          PROVE  idx[t] <= Len(stack') /\ (idx[t] > 0 => stack'[idx[t]] \in {None, t}) /\ (bound[t] > 0 => bound[t] = idx[t])
      <4>1. idx[t] <= Len(stack) /\ (idx[t] > 0 => stack[idx[t]] \in {None, t}) /\ (bound[t] > 0 => bound[t] = idx[t])
        BY DEF Sound, Linkage, Indexed
      <4>2. idx[t] > 0 => idx[t] \in DOMAIN stack
        BY <1>7, <4>1, Typed
      <4> QED
        BY <1>4, <1>7, <4>1, <4>2
    <3> QED
      BY <1>1, <3>1 DEF Indexed
  <2>4. Ordered(stack, frames)'
    BY <1>1, <1>5 DEF Sound, Linkage, Ordered
  <2>5. Marked(stack, frames)'
    BY <1>1, <1>5, <1>6, <1>7 DEF Sound, Linkage, Marked
  <2> QED
    BY <2>1, <2>2, <2>3, <2>4, <2>5 DEF Linkage
<1>9. Known'
  BY <1>1, <1>5, <1>7 DEF Sound, Known
<1>10. Read'
  <2>1. \A n \in DOMAIN timers' : \E m \in DOMAIN timers : timers'[n] = timers[m]
    BY <1>1, TailTimers
  <2> QED
    BY <1>1, <1>2, <2>1, LockedReads
<1>11. Fades'
  BY <1>1, <1>5, <1>7, NearerSame DEF Sound, Fades
<1>12. Under'
  <2>1. \A q : Open(q) /\ q.file # r.file => q.i \in DOMAIN stack' /\ stack'[q.i] = stack[q.i]
    BY <1>3, <1>4 DEF Open
  <2>2. \A t \in Files : t \notin off => status'[t] = status[t]
    BY <1>3, <1>6
  <2> QED
    BY <1>1, <2>1, <2>2, OthersUnder DEF r
<1> QED
  BY <1>8, <1>9, <1>10, <1>11, <1>12 DEF Sound

LEMMA SoundError ==
  ASSUME TypeOK, Control, Sound, Error
  PROVE  Sound'
<1> DEFINE r == Head(timers).req
<1>1. /\ timers # <<>> /\ Head(timers).kind = "error" /\ timers' = Tail(timers) /\ fading' = Nearer
      /\ status' = SetStatus(r.thumb, "Error") /\ stack' = UpdateStack(stack, r.i, At(stack, r.i))
      /\ UNCHANGED <<frames, idx, bound, off, isDisabled, loads, requests, batch, chosen, accepted, discarded>>
  BY DEF Error, Fire, history
<1>2. Open(r) /\ r.file \in Files /\ isDisabled /\ loads = {}
  BY <1>1, SettledRequest
<1> HIDE DEF r
<1>3. r.thumb = r.file /\ r.file \in Shown \cap off /\ r.i \in DOMAIN stack /\ stack[r.i] = r.file /\ r.file # None
  BY <1>2, FilesAssumption DEF Open
<1>4. stack' = stack
  <2>1. At(stack, r.i) = stack[r.i] /\ stack[r.i] \in Entry /\ stack \in Seq(Entry)
    BY <1>2, <1>3, Typed DEF At, Entry
  <2>2. stack' = [stack EXCEPT ![r.i] = stack[r.i]]
    <3>1. PICK i \in DOMAIN stack : i = r.i
      BY <1>3
    <3>2. PICK v \in Entry : v = stack[i]
      BY <2>1, <3>1
    <3>3. UpdateStack(stack, i, v) = [stack EXCEPT ![i] = v]
      BY <2>1, EntryWritten
    <3> QED
      BY <1>1, <2>1, <3>1, <3>2, <3>3
  <2> QED
    BY <2>1, <2>2
<1>5. status'[r.file] = "Error" /\ \A t \in Files : t # r.file => status'[t] = status[t]
  <2>1. status' = [status EXCEPT ![r.file] = "Error"]
    BY <1>1, <1>3 DEF SetStatus
  <2>2. DOMAIN status = Files
    BY DEF TypeOK
  <2> QED
    BY <1>2, <2>1, <2>2
<1>6. Shown' = Shown /\ Thumbs(frames) = Shown /\ Shown \subseteq Files
  BY <1>1, Typed DEF Shown
<1>7. Linkage(stack, frames)'
  <2>1. r.file \in InStack(stack)
    BY <1>3 DEF InStack
  <2>2. Marked(stack, frames)'
    BY <1>1, <1>4, <1>5, <1>6, <2>1 DEF Sound, Linkage, Marked
  <2> QED
    BY <1>1, <1>4, <2>2 DEF Sound, Linkage, Unique, Linked, Indexed, Ordered
<1>8. Known' /\ Fades'
  BY <1>1, <1>4, <1>6, NearerSame DEF Sound, Known, Fades
<1>9. Read'
  <2>1. \A n \in DOMAIN timers' : \E m \in DOMAIN timers : timers'[n] = timers[m]
    BY <1>1, TailTimers
  <2> QED
    BY <1>1, <1>2, <2>1, LockedReads
<1>10. Under'
  <2>1. \A q : Open(q) /\ q.file # r.file => q.i \in DOMAIN stack' /\ stack'[q.i] = stack[q.i]
    BY <1>4 DEF Open
  <2>2. \A t \in Files : t \notin off => status'[t] = status[t]
    BY <1>3, <1>5
  <2> QED
    BY <1>1, <2>1, <2>2, OthersUnder DEF r
<1> QED
  BY <1>7, <1>8, <1>9, <1>10 DEF Sound

LEMMA SoundComplete ==
  ASSUME TypeOK, Control, Control', Sound, Complete
  PROVE  Sound'
<1> DEFINE r == Head(timers).req
           ts == Tail(timers)
<1>1. /\ timers # <<>> /\ Head(timers).kind = "complete" /\ fading' = Nearer /\ BindSuccess(status)
      /\ UNCHANGED <<stack, frames, idx, status, loads, requests, batch, chosen, accepted, discarded>>
  BY DEF Complete, history
<1>2. ts \in Seq(TimerType) /\ 1 \in CompletesIn(timers) /\ timers[1].req = r /\ r \in RequestType
  BY <1>1, HeadPlaces, HeadTimer
<1>3. isDisabled /\ batch = None
  BY <1>2 DEF Control, SilentIn
<1>4. loads = {} /\ Shown' = Shown /\ Thumbs(frames) = Shown /\ Shown \subseteq Files
  BY <1>1, <1>3, Typed DEF Sound, Read, Apart, Shown
<1>5. /\ \A t \in Shown : bound'[t] = IF status[t] = "Success" THEN SuccessHandler ELSE bound[t]
      /\ \A t \in Shown : bound[t] \in Int
  BY <1>1, <1>4, Typed DEF BindSuccess
<1>6. timers' = ts \/ timers' = ts \o <<[kind |-> "check"]>>
  <2>1. ts \o <<>> = ts
    BY <1>2
  <2> QED
    BY <2>1 DEF Complete
<1>7. /\ SettlesIn(timers') = SettlesIn(ts) /\ CompletesIn(timers') = CompletesIn(ts) /\ \A n \in DOMAIN ts : timers'[n] = ts[n]
      /\ \A n \in DOMAIN timers' : timers'[n].kind # "read" \/ (n \in DOMAIN ts /\ timers'[n] = ts[n])
  <2>1. CASE timers' = ts
    BY <2>1
  <2>2. CASE timers' = ts \o <<[kind |-> "check"]>>
    BY <1>2, <2>2, CheckAppended
  <2> QED
    BY <1>6, <2>1, <2>2
<1>8. \A n \in DOMAIN ts : n + 1 \in DOMAIN timers /\ ts[n] = timers[n + 1] /\ n \in Nat \ {0}
  BY <1>1, TailTimers
<1> HIDE DEF r, ts
<1>9. Linkage(stack, frames)'
  <2>1. \A t \in Shown : t \in InStack(stack) => bound'[t] = bound[t]
    BY <1>4, <1>5 DEF Sound, Linkage, Marked
  <2>2. Linked(stack, frames)'
    <3>1. ASSUME NEW i \in DOMAIN stack, stack[i] # None
          PROVE  stack[i] \in Thumbs(frames) /\ idx[stack[i]] = i /\ bound'[stack[i]] = i
      <4>1. stack[i] \in Thumbs(frames) /\ idx[stack[i]] = i /\ bound[stack[i]] = i
        BY <1>4, <3>1 DEF Sound, Linkage, Linked
      <4>2. stack[i] \in InStack(stack)
        BY <3>1 DEF InStack
      <4> QED
        BY <1>4, <2>1, <4>1, <4>2
    <3> QED
      BY <1>1, <3>1 DEF Linked
  <2>3. Indexed(stack, frames)'
    <3>1. \A t \in Shown : bound'[t] > 0 => bound'[t] = idx[t]
      BY <1>4, <1>5 DEF Sound, Linkage, Indexed, SuccessHandler
    <3> QED
      BY <1>1, <1>4, <3>1 DEF Sound, Linkage, Indexed
  <2> QED
    BY <1>1, <2>2, <2>3 DEF Sound, Linkage, Unique, Ordered, Marked
<1>10. Known' /\ Fades'
  BY <1>1, <1>4, NearerSame DEF Sound, Known, Fades
<1>11. Read'
  <2>1. \A n \in DOMAIN timers' : timers'[n].kind # "read" \/ \E m \in DOMAIN timers : timers'[n] = timers[m]
    BY <1>7, <1>8
  <2> QED
    BY <1>1, <1>3, <2>1, LockedReads
<1>12. Under'
  <2>1. CASE r.all
    <3>1. off' = off \ {r.thumb} /\ isDisabled' = isDisabled
      BY <2>1 DEF Complete, r
    <3>2. Opened(requests, timers) /\ Single(requests, timers)
      BY DEF Sound, Under
    <3>3. /\ \A n \in SettlesIn(ts) : Open(ts[n].req) /\ (ts[n].kind = "success" => ts[n].req.file \in accepted)
          /\ Single(requests, ts)
      BY <1>1, <3>2, CallsTail DEF ts
    <3>4. \A n \in DOMAIN requests : requests[n].file # r.thumb
      BY <1>2, <3>2 DEF Opened, Single, Open
    <3>5. ASSUME NEW n \in SettlesIn(ts) PROVE ts[n].req.file # r.thumb
      <4>1. n + 1 \in SettlesIn(timers) /\ ts[n].req = timers[n + 1].req /\ n \in Nat \ {0}
        BY <1>8 DEF SettlesIn
      <4>2. timers[n + 1].req.thumb # timers[1].req.thumb
        <5>1. 1 # (n + 1) + 1
          BY <4>1
        <5> QED
          BY <1>2, <3>2, <4>1, <5>1 DEF Single
      <4> QED
        BY <1>2, <3>3, <4>1, <4>2 DEF Open
    <3>6. \A q : Open(q) /\ q.file # r.thumb => Open(q)'
      BY <1>1, <1>4, <3>1, NearerSame DEF Open, FadingFiles
    <3>7. Opened(requests, timers)'
      <4>1. \A n \in SettlesIn(ts) : timers'[n] = ts[n]
        BY <1>7 DEF SettlesIn
      <4> QED
        BY <1>1, <1>7, <3>2, <3>3, <3>4, <3>5, <3>6, <4>1 DEF Opened
    <3>8. Single(requests, timers)'
      <4>1. /\ \A n \in SettlesIn(ts) : timers'[n] = ts[n]
            /\ \A n \in CompletesIn(ts) : timers'[n] = ts[n]
        BY <1>7 DEF SettlesIn, CompletesIn
      <4> QED
        BY <1>1, <1>7, <3>3, <4>1 DEF Single
    <3>9. Removable'
      <4>1. \A t \in Shown : status[t] = "Success" => bound'[t] < 1
        BY <1>5 DEF SuccessHandler
      <4>2. AllMode(requests, timers)
        <5>1. r.all = TRUE
          BY <1>2, <2>1 DEF RequestType
        <5> QED
          BY <1>2, <5>1 DEF AllMode, Calls
      <4>3. ASSUME NEW x \in fading PROVE x[1] \notin off /\ (x[2] > 0 => bound'[x[1]] = x[2])
        <5>1. x[1] \in Shown /\ x[1] \notin off /\ (x[2] > 0 => bound[x[1]] = x[2])
          BY <4>2 DEF Sound, Under, Removable, Fades
        <5>2. x[2] \in Int
          BY DEF TypeOK, SuccessHandler
        <5>3. status[x[1]] = "Success" => bound[x[1]] < 1
          BY <1>3, <5>1 DEF Sound, Under, Removable
        <5>4. x[2] > 0 => status[x[1]] # "Success"
          BY <1>5, <5>1, <5>2, <5>3
        <5> QED
          BY <1>5, <5>1, <5>4
      <4>4. \A y \in fading' : y[1] \notin off /\ (y[2] > 0 => bound'[y[1]] = y[2])
        BY <1>1, <4>3, NearerSame
      <4> QED
        BY <1>1, <1>4, <3>1, <4>1, <4>4 DEF Removable
    <3>10. Sent'
      BY <1>1, <1>3 DEF Sent
    <3> QED
      BY <3>7, <3>8, <3>9, <3>10 DEF Under
  <2>2. CASE ~r.all
    <3>1. ~isDisabled'
      BY <2>2 DEF Complete, Enable, r
    <3> QED
      BY <3>1, QuietUnder
  <2> QED
    BY <2>1, <2>2
<1> QED
  BY <1>9, <1>10, <1>11, <1>12 DEF Sound

LEMMA SoundCheck ==
  ASSUME TypeOK, Control, Control', Sound, Undisturbed', Check
  PROVE  Sound'
<1>1. /\ timers # <<>> /\ Head(timers).kind = "check" /\ timers' = Tail(timers) /\ fading' = Nearer /\ isDisabled' = FALSE
      /\ IF InStack(stack) = {} THEN ResetFileStack(stack) ELSE stack' = stack /\ UNCHANGED idx
      /\ UNCHANGED <<frames, bound, status, loads, chosen, discarded>> /\ ~Stale
  BY DEF Check, Fire, Unlock, Enable, Undisturbed, Happened
<1>2. isDisabled /\ AllMode(requests, timers)
  BY <1>1, HeadPlaces DEF Control, SilentIn, AllMode
<1>3. loads = {} /\ Shown' = Shown /\ Thumbs(frames) = Shown /\ Shown \subseteq Files
  BY <1>1, <1>2, Typed DEF Sound, Read, Apart, Shown
<1>4. Read'
  <2>1. \A n \in DOMAIN timers' : \E m \in DOMAIN timers : timers'[n] = timers[m]
    BY <1>1, TailTimers
  <2> QED
    BY <1>1, <1>2, <2>1, LockedReads
<1>5. Under'
  BY <1>1, QuietUnder
<1>6. CASE InStack(stack) # {}
  <2>1. stack' = stack /\ idx' = idx
    BY <1>1, <1>6
  <2>2. Linkage(stack, frames)'
    BY <1>1, <2>1, LinkageKept DEF Sound
  <2>3. Known' /\ Fades'
    BY <1>1, <1>3, <2>1, NearerSame DEF Sound, Known, Fades
  <2> QED
    BY <1>4, <1>5, <2>2, <2>3 DEF Sound
<1>7. CASE InStack(stack) = {}
  <2>1. \A f \in Files : At(stack, idx[f]) = None
    BY <1>7 DEF InStack, At
  <2>2. DOMAIN Holding(stack) = {} /\ Len(Holding(stack)) = 0
    <3>1. frames \in Seq(Files)
      BY Typed
    <3>2. /\ Holding(stack) \in Seq(Files)
          /\ \A n \in DOMAIN Holding(stack) : Holding(stack)[n] \in Files /\ At(stack, idx[Holding(stack)[n]]) # None
      BY <3>1, HoldingType
    <3>3. DOMAIN Holding(stack) = {}
      BY <2>1, <3>2
    <3> QED
      BY <3>2, <3>3
  <2>3. stack' = <<>>
    BY <1>1, <1>7, <2>2 DEF ResetFileStack
  <2>4. \A t \in Shown : idx'[t] = 0
    BY <1>1, <1>3, <1>7, <2>2 DEF ResetFileStack, Renumbered
  <2>5. \A t \in Shown : ~(bound[t] > 0)
    BY <1>1, <2>4 DEF Stale
  <2>6. InStack(stack') = {} /\ DOMAIN stack' = {} /\ Len(stack') = 0
    BY <2>3 DEF InStack
  <2>7. Linkage(stack, frames)'
    <3>1. Unique(stack, frames)' /\ Linked(stack, frames)'
      BY <1>1, <2>6 DEF Sound, Linkage, Unique, Linked
    <3>2. Indexed(stack, frames)'
      BY <1>1, <1>3, <2>4, <2>5, <2>6 DEF Indexed
    <3>3. Ordered(stack, frames)'
      BY <2>6 DEF Ordered
    <3>4. Marked(stack, frames)'
      BY <1>1, <1>7, <2>6 DEF Sound, Linkage, Marked
    <3> QED
      BY <3>1, <3>2, <3>3, <3>4 DEF Linkage
  <2>8. Known'
    BY <1>1, <1>3, <2>6 DEF Sound, Known
  <2>9. Fades'
    <3>1. ASSUME NEW x \in fading PROVE x[1] \in Shown \cap discarded /\ ~(x[2] > 0)
      BY <1>2, <2>5 DEF Sound, Fades, Under, Removable
    <3> QED
      BY <1>1, <1>3, <2>6, <3>1, NearerSame DEF Sound, Fades
  <2> QED
    BY <1>4, <1>5, <2>7, <2>8, <2>9 DEF Sound
<1> QED
  BY <1>6, <1>7

\* One request ends, and its two handlers wait behind the others.
LEMMA SoundAnswered ==
  ASSUME TypeOK, Control, Sound, NEW n \in DOMAIN requests, NEW a \in TimerType, NEW b \in TimerType,
         a.kind \in {"success", "error"}, b.kind = "complete", a.req = requests[n], b.req = requests[n],
         requests' = Seqs!RemoveAt(requests, n), timers' = timers \o <<a, b>>,
         UNCHANGED <<stack, frames, idx, bound, status, off, fading, isDisabled, loads, batch, chosen, discarded>>,
         accepted \subseteq accepted', a.kind = "success" => requests[n].file \in accepted'
  PROVE  Sound'
<1> DEFINE k == Len(timers)
<1>1. requests \in Seq(RequestType) /\ timers \in Seq(TimerType) /\ n \in 1 .. Len(requests) /\ k \in Nat
  BY Lengths
<1>2. /\ requests' \in Seq(RequestType) /\ Len(requests') = Len(requests) - 1 /\ Len(requests) \in Nat
      /\ \A i \in 1 .. Len(requests) - 1 : requests'[i] = IF i < n THEN requests[i] ELSE requests[i + 1]
  <2>1. LET rest == Seqs!RemoveAt(requests, n)
        IN /\ rest \in Seq(RequestType) /\ Len(rest) = Len(requests) - 1
           /\ \A i \in 1 .. Len(requests) - 1 : rest[i] = IF i < n THEN requests[i] ELSE requests[i + 1]
    BY <1>1, RemoveAtProperties
  <2> QED
    BY <1>1, <2>1
<1>3. /\ SettlesIn(timers') = SettlesIn(timers) \cup {k + 1} /\ CompletesIn(timers') = CompletesIn(timers) \cup {k + 2}
      /\ ChecksIn(timers') = ChecksIn(timers)
      /\ \A m \in 1 .. k : timers'[m] = timers[m]
      /\ timers'[k + 1] = a /\ timers'[k + 2] = b
  BY <1>1, PairAppended
<1>4. /\ SettlesIn(timers) \subseteq 1 .. k /\ CompletesIn(timers) \subseteq 1 .. k /\ DOMAIN timers = 1 .. k
      /\ DOMAIN timers' = 1 .. k + 2 /\ \A m \in 1 .. k + 2 : m \in 1 .. k \/ m = k + 1 \/ m = k + 2
  <2>1. Len(timers') = k + 2 /\ DOMAIN timers' = 1 .. Len(timers')
    BY <1>1
  <2> QED
    BY <1>1, <2>1 DEF SettlesIn, CompletesIn
<1> HIDE DEF k
<1>5. /\ \A i \in DOMAIN requests' : \E j \in DOMAIN requests : j # n /\ requests'[i] = requests[j]
      /\ \A i, j \in DOMAIN requests' : requests'[i].thumb = requests'[j].thumb => i = j
  <2> DEFINE from(i) == IF i < n THEN i ELSE i + 1
  <2>1. \A i \in DOMAIN requests' : from(i) \in DOMAIN requests /\ from(i) # n /\ requests'[i] = requests[from(i)]
    BY <1>1, <1>2
  <2>2. \A i, j \in DOMAIN requests' : from(i) = from(j) => i = j
    BY <1>1, <1>2
  <2> HIDE DEF from
  <2> QED
    BY <2>1, <2>2 DEF Sound, Under, Single
<1>6. isDisabled /\ batch = None /\ requests # <<>>
  BY <1>1 DEF Control
<1>7. Linkage(stack, frames)'
  BY LinkageKept DEF Sound
<1>8. Known' /\ Fades'
  BY DEF Sound, Known, Fades, Shown
<1>9. Read'
  <2>1. \A m \in DOMAIN timers' : timers'[m].kind # "read" \/ \E j \in DOMAIN timers : timers'[m] = timers[j]
    BY <1>3, <1>4
  <2> QED
    BY <1>6, <2>1, LockedReads
<1>10. Under'
  <2>1. \A q : Open(q) => Open(q)'
    BY DEF Open, Shown, FadingFiles
  <2>2. Opened(requests, timers) /\ Single(requests, timers)
    BY DEF Sound, Under
  <2>3. \A m \in SettlesIn(timers) \cup CompletesIn(timers) : timers'[m] = timers[m]
    BY <1>3, <1>4
  <2>4. Opened(requests, timers)'
    <3>1. \A i \in DOMAIN requests' : Open(requests'[i])
      BY <1>5, <2>2 DEF Opened
    <3>2. ASSUME NEW m \in SettlesIn(timers') PROVE Open(timers'[m].req) /\ (timers'[m].kind = "success" => timers'[m].req.file \in accepted')
      BY <1>3, <2>2, <2>3 DEF Opened
    <3> QED
      BY <2>1, <3>1, <3>2 DEF Opened
  <2>5. Single(requests, timers)'
    <3>1. /\ \A l, m \in SettlesIn(timers) : timers[l].req.thumb = timers[m].req.thumb => l = m
          /\ \A m \in CompletesIn(timers) \cup SettlesIn(timers) : requests[n].thumb # timers[m].req.thumb
          /\ \A l \in SettlesIn(timers), m \in CompletesIn(timers) : timers[l].req.thumb = timers[m].req.thumb => m = l + 1
      BY <2>2 DEF Single
    <3>2. \A m \in SettlesIn(timers') :
            \/ m \in SettlesIn(timers) /\ timers'[m].req.thumb = timers[m].req.thumb
            \/ m = k + 1 /\ timers'[m].req.thumb = requests[n].thumb
      BY <1>3, <2>3
    <3>3. \A m \in CompletesIn(timers') :
            \/ m \in CompletesIn(timers) /\ timers'[m].req.thumb = timers[m].req.thumb
            \/ m = k + 2 /\ timers'[m].req.thumb = requests[n].thumb
      BY <1>3, <2>3
    <3>4. k + 2 = (k + 1) + 1
      BY <1>1 DEF k
    <3>5. ASSUME NEW l \in SettlesIn(timers'), NEW m \in SettlesIn(timers'), timers'[l].req.thumb = timers'[m].req.thumb PROVE l = m
      <4>1. CASE l \in SettlesIn(timers) /\ timers'[l].req.thumb = timers[l].req.thumb
        BY <3>1, <3>2, <3>5, <4>1
      <4>2. CASE l = k + 1 /\ timers'[l].req.thumb = requests[n].thumb
        BY <3>1, <3>2, <3>5, <4>2
      <4> QED
        BY <3>2, <4>1, <4>2
    <3>6. ASSUME NEW i \in DOMAIN requests', NEW m \in CompletesIn(timers') \cup SettlesIn(timers')
          PROVE  requests'[i].thumb # timers'[m].req.thumb
      <4>1. PICK j \in DOMAIN requests : j # n /\ requests'[i] = requests[j]
        BY <1>5
      <4>2. requests[j].thumb # requests[n].thumb /\ \A h \in CompletesIn(timers) \cup SettlesIn(timers) : requests[j].thumb # timers[h].req.thumb
        BY <2>2, <4>1 DEF Single
      <4> QED
        BY <3>2, <3>3, <4>1, <4>2
    <3>7. ASSUME NEW l \in SettlesIn(timers'), NEW m \in CompletesIn(timers'), timers'[l].req.thumb = timers'[m].req.thumb PROVE m = l + 1
      <4>1. CASE l \in SettlesIn(timers) /\ timers'[l].req.thumb = timers[l].req.thumb
        BY <3>1, <3>3, <3>7, <4>1
      <4>2. CASE l = k + 1 /\ timers'[l].req.thumb = requests[n].thumb
        BY <3>1, <3>3, <3>4, <3>7, <4>2
      <4> QED
        BY <3>2, <4>1, <4>2
    <3> QED
      BY <1>5, <3>5, <3>6, <3>7 DEF Single
  <2>6. Removable'
    <3>1. AllMode(requests, timers)' => AllMode(requests, timers)
      <4>1. ASSUME NEW m \in SettlesIn(timers') \cup CompletesIn(timers'), timers'[m].req.all = TRUE PROVE Calls(requests, timers, TRUE)
        <5>1. \/ m \in SettlesIn(timers) \cup CompletesIn(timers) /\ timers'[m] = timers[m]
              \/ timers'[m].req = requests[n]
          BY <1>3, <2>3
        <5> QED
          BY <4>1, <5>1 DEF Calls
      <4>2. ASSUME NEW i \in DOMAIN requests', requests'[i].all = TRUE PROVE Calls(requests, timers, TRUE)
        BY <1>5, <4>2 DEF Calls
      <4> QED
        BY <1>3, <4>1, <4>2 DEF AllMode, Calls
    <3> QED
      BY <3>1 DEF Sound, Under, Removable, Shown
  <2>7. Sent'
    BY <1>6 DEF Sent
  <2> QED
    BY <2>4, <2>5, <2>6, <2>7 DEF Under
<1> QED
  BY <1>7, <1>8, <1>9, <1>10 DEF Sound

\* The server takes the file, refuses it or does not answer.
LEMMA SoundAnswer ==
  ASSUME TypeOK, Control, Sound, NEW n \in DOMAIN requests, Accept(n) \/ Refuse(n) \/ Reject(n)
  PROVE  Sound'
<1> DEFINE r == requests[n]
<1>1. r \in RequestType /\ IdOf(r) \in Nat /\ r.i \in Nat
  <2>1. r \in RequestType
    BY DEF TypeOK
  <2> QED
    BY <2>1, RequestTypes DEF RequestType
<1>2. Open(r) /\ ~Throws(r)
  <2>1. Open(r)
    BY DEF Sound, Under, Opened
  <2>2. At(stack, r.i) = r.file /\ r.file # None
    BY <2>1, Typed DEF Open, At
  <2> QED
    BY <2>1, <2>2 DEF Throws
<1>3. /\ requests' = Seqs!RemoveAt(requests, n) /\ accepted \subseteq accepted'
      /\ UNCHANGED <<stack, frames, idx, bound, status, off, fading, isDisabled, loads, batch, chosen, discarded>>
  BY DEF Accept, Refuse, Reject, thumbs, history
<1>4. \E kind \in {"success", "error"}, id \in Nat :
        /\ timers' = timers \o <<Timer(kind, r, id), Timer("complete", r, r.i)>>
        /\ kind = "success" => r.file \in accepted'
  <2>1. CASE Accept(n)
    <3>1. r.file # None
      BY <1>2, Typed DEF Open
    <3> QED
      BY <1>1, <2>1, <3>1 DEF Accept
  <2>2. CASE Refuse(n)
    BY <1>1, <2>2 DEF Refuse
  <2>3. CASE Reject(n)
    BY <1>1, <1>2, <2>3 DEF Reject, Refused
  <2> QED
    BY <2>1, <2>2, <2>3
<1>5. PICK kind \in {"success", "error"}, id \in Nat :
        /\ timers' = timers \o <<Timer(kind, r, id), Timer("complete", r, r.i)>>
        /\ kind = "success" => r.file \in accepted'
  BY <1>4
<1> DEFINE a == Timer(kind, r, id)
           b == Timer("complete", r, r.i)
<1>6. a \in TimerType /\ b \in TimerType /\ a.kind = kind /\ b.kind = "complete" /\ a.req = requests[n] /\ b.req = requests[n]
  BY <1>1 DEF Timer, TimerType
<1>7. timers' = timers \o <<a, b>> /\ (a.kind = "success" => requests[n].file \in accepted')
  BY <1>5, <1>6
<1> HIDE DEF a, b, r
<1> QED
  BY <1>3, <1>6, <1>7, SoundAnswered

-----------------------------------------------------------------------------
(* Uploads begin *)

\* The thumbnail that carries the index of a file of the stack is that of the file.
LEMMA ThumbOf ==
  ASSUME TypeOK, Sound, NEW i \in DOMAIN stack, stack[i] # None, stack[i] \in Shown, idx[stack[i]] = i
  PROVE  ThumbAt(i) = stack[i]
<1> DEFINE at == {n \in DOMAIN frames : idx[frames[n]] = i}
<1>2. i \in Nat /\ i > 0 /\ DOMAIN frames \subseteq Nat
  BY Typed
<1>3. at # {}
  BY DEF Shown
<1>4. ASSUME NEW n \in at PROVE frames[n] = stack[i]
  <2>1. frames[n] \in Thumbs(frames)
    BY DEF Thumbs
  <2>2. idx[frames[n]] > 0 => stack[idx[frames[n]]] \in {None, frames[n]}
    BY <2>1 DEF Sound, Linkage, Indexed
  <2> QED
    BY <1>2, <2>2
<1>5. at \subseteq Nat
  BY <1>2
<1>6. ThumbAt(i) = frames[CHOOSE n \in at : \A m \in at : n <= m]
  BY <1>2, <1>3 DEF ThumbAt
<1> HIDE DEF at
<1>7. \E n \in at : \A m \in at : n <= m
  BY <1>3, <1>5, LeastNumber
<1>8. (CHOOSE n \in at : \A m \in at : n <= m) \in at
  BY <1>7
<1> QED
  BY <1>4, <1>6, <1>8

LEMMA OwnThumb ==
  ASSUME TypeOK, Sound, loads = {}, NEW i \in DOMAIN stack, stack[i] # None
  PROVE  ThumbAt(i) = stack[i] /\ stack[i] \in Shown /\ idx[stack[i]] = i /\ i # 0
<1>1. stack[i] \in Shown /\ idx[stack[i]] = i
  BY Typed DEF Sound, Linkage, Linked
<1>2. i # 0
  BY Typed
<1> QED
  BY <1>1, <1>2, ThumbOf

\* An upload begins: the thumbnails stay what they are, but for the indicator.
LEMMA UploadStarts ==
  ASSUME TypeOK, Sound, loads = {}, Pending = {}, NEW set, status' = Loading(set),
         UNCHANGED <<stack, frames, idx, bound, fading, loads, timers, chosen, discarded>>
  PROVE  Linkage(stack, frames)' /\ Known' /\ Read' /\ Fades'
<1>1. \A f \in Files : status'[f] = "Success" <=> status[f] = "Success"
  BY DEF Loading
<1>2. Shown \subseteq Files /\ Thumbs(frames) = Shown
  BY Typed
<1>3. Marked(stack, frames)'
  BY <1>1, <1>2 DEF Sound, Linkage, Marked
<1>4. Linkage(stack, frames)'
  BY <1>3 DEF Sound, Linkage, Unique, Linked, Indexed, Ordered
<1>5. Known' /\ Fades'
  BY DEF Sound, Known, Fades, Shown
<1>6. Read'
  BY NothingRead DEF Pending
<1> QED
  BY <1>4, <1>5, <1>6

LEMMA SoundUploadAll ==
  ASSUME TypeOK, Control, Sound, Undisturbed', UploadAll
  PROVE  Sound'
<1> DEFINE places == [n \in DOMAIN stack |-> n]
           held == {i \in DOMAIN stack : stack[i] # None}
           sent == Only(places, held)
           reqs == [n \in DOMAIN sent |-> Request(sent[n], TRUE)]
<1>1. /\ ~isDisabled /\ requests' = Forgotten \o reqs /\ status' = Loading({reqs[n].thumb : n \in DOMAIN reqs}) /\ off' = Shown
      /\ UNCHANGED <<stack, frames, idx, bound, fading, loads, timers, batch, chosen, discarded>>
      /\ ~Reading /\ fading = {}
  BY DEF UploadAll, Undisturbed, Happened
<1>2. requests = <<>> /\ SilentIn(timers) /\ batch = None
  BY <1>1 DEF Control
<1>3. loads = {} /\ Pending = {}
  BY <1>1 DEF Reading, Pending
<1>4. Linkage(stack, frames)' /\ Known' /\ Read' /\ Fades'
  <2> DEFINE set == {reqs[n].thumb : n \in DOMAIN reqs}
  <2>1. status' = Loading(set)
    BY <1>1
  <2> HIDE DEF set
  <2> QED
    BY <1>1, <1>3, <2>1, UploadStarts
<1>5. sent \in Seq(Nat)
  BY PlacesChosen DEF TypeOK
<1>6. /\ \A n \in DOMAIN sent : sent[n] \in DOMAIN stack /\ stack[sent[n]] # None
      /\ \A m, n \in DOMAIN sent : sent[m] = sent[n] => m = n
  <2>1. places \in Seq(Nat) /\ DOMAIN places = DOMAIN stack /\ \A n \in DOMAIN stack : places[n] = n
    BY Typed
  <2> HIDE DEF places
  <2>2. /\ \A e : (\E n \in DOMAIN sent : sent[n] = e) <=> (e \in held /\ \E i \in DOMAIN places : places[i] = e)
        /\ (\A i, j \in DOMAIN places : places[i] = places[j] => i = j) => \A m, n \in DOMAIN sent : sent[m] = sent[n] => m = n
    BY <2>1, OnlyElements
  <2>3. \A n \in DOMAIN sent : sent[n] \in held
    BY <2>2
  <2> QED
    BY <2>1, <2>2, <2>3
<1> HIDE DEF sent
<1>7. requests' = reqs
  <2>1. Forgotten = <<>>
    BY <1>2, RequestTypes, Lengths
  <2>2. Len(sent) \in Nat /\ DOMAIN sent = 1 .. Len(sent)
    BY <1>5
  <2> DEFINE R == {Request(sent[n], TRUE) : n \in 1 .. Len(sent)}
  <2>3. reqs \in [1 .. Len(sent) -> R]
    BY <2>2
  <2> HIDE DEF reqs, R
  <2>4. reqs \in Seq(R)
    BY <2>2, <2>3
  <2> QED
    BY <1>1, <2>1, <2>4
<1>8. /\ DOMAIN reqs = DOMAIN sent
      /\ \A n \in DOMAIN sent : reqs[n].i = sent[n] /\ reqs[n].thumb = stack[sent[n]] /\ reqs[n].file = stack[sent[n]] /\ stack[sent[n]] \in Shown
  <2>1. \A n \in DOMAIN sent : ThumbAt(sent[n]) = stack[sent[n]] /\ At(stack, sent[n]) = stack[sent[n]] /\ stack[sent[n]] \in Shown
    BY <1>3, <1>6, OwnThumb DEF At
  <2> QED
    BY <2>1 DEF Request
<1> HIDE DEF reqs
<1>9. SettlesIn(timers') = {} /\ CompletesIn(timers') = {}
  BY <1>1, <1>2 DEF SilentIn
<1>10. Opened(requests, timers)'
  <2>1. FadingFiles' = {} /\ Shown' = Shown
    BY <1>1 DEF FadingFiles, Shown
  <2>2. off' = Shown /\ stack' = stack
    BY <1>1
  <2>3. ASSUME NEW n \in DOMAIN requests' PROVE Open(requests[n])'
    <3>1. /\ requests'[n].file \in Shown /\ requests'[n].thumb = requests'[n].file
          /\ requests'[n].i \in DOMAIN stack /\ stack[requests'[n].i] = requests'[n].file
      BY <1>6, <1>7, <1>8
    <3> QED
      BY <2>1, <2>2, <3>1 DEF Open
  <2> QED
    BY <1>9, <2>3 DEF Opened
<1>11. Single(requests, timers)'
  <2>1. \A m, n \in DOMAIN sent : stack[sent[m]] = stack[sent[n]] => m = n
    BY <1>6 DEF Sound, Linkage, Unique
  <2> QED
    BY <1>7, <1>8, <1>9, <2>1 DEF Single
<1>12. Removable' /\ Sent'
  BY <1>1, <1>2 DEF Removable, Sent, Shown
<1> QED
  BY <1>4, <1>10, <1>11, <1>12 DEF Sound, Under

LEMMA SoundUploadBatch ==
  ASSUME TypeOK, Control, Sound, Undisturbed', UploadBatch
  PROVE  Sound'
<1>1. /\ ~isDisabled /\ isDisabled' = TRUE /\ requests' = Forgotten /\ status' = Loading(Shown) /\ off' = Shown
      /\ batch' = [sent |-> Only(stack, Files), kept |-> TRUE, keys |-> 0]
      /\ UNCHANGED <<stack, frames, idx, bound, fading, loads, timers, chosen, discarded>>
      /\ ~Reading /\ fading = {}
  BY DEF UploadBatch, Lock, Undisturbed, Happened
<1>2. requests' = <<>> /\ SettlesIn(timers') = {} /\ CompletesIn(timers') = {}
  <2>1. requests = <<>> /\ SettlesIn(timers) = {} /\ CompletesIn(timers) = {}
    BY <1>1 DEF Control, SilentIn
  <2>2. Forgotten = <<>>
    BY <2>1, RequestTypes, Lengths
  <2> QED
    BY <1>1, <2>1, <2>2
<1>3. loads = {} /\ Pending = {}
  BY <1>1 DEF Reading, Pending
<1>4. Linkage(stack, frames)' /\ Known' /\ Read' /\ Fades'
  BY <1>1, <1>3, UploadStarts
<1>5. Opened(requests, timers)' /\ Single(requests, timers)'
  BY <1>2 DEF Opened, Single
<1>6. Removable' /\ Sent'
  BY <1>1 DEF Removable, Sent, Shown
<1> QED
  BY <1>4, <1>5, <1>6 DEF Sound, Under

LEMMA SoundUploadOne ==
  ASSUME TypeOK, Control, Sound, Undisturbed', NEW f \in Files, UploadOne(f)
  PROVE  Sound'
<1> DEFINE r == Request(idx[f], FALSE)
<1>1. /\ f \in Shown /\ f \in Valid /\ status[f] \in {"New", "Error"} /\ f \notin FadingFiles
      /\ requests' = Append(requests, r) /\ status' = Loading({r.thumb}) /\ off' = Shown
      /\ UNCHANGED <<stack, frames, idx, bound, fading, loads, timers, batch, chosen, discarded>>
      /\ ~isDisabled /\ ~Reading
  BY DEF UploadOne, Undisturbed, Happened, FadingFiles
<1>2. requests = <<>> /\ SettlesIn(timers) = {} /\ CompletesIn(timers) = {} /\ ChecksIn(timers) = {} /\ batch = None
  BY <1>1 DEF Control, SilentIn
<1>3. loads = {} /\ Pending = {}
  BY <1>1 DEF Reading, Pending
<1>4. f \in InStack(stack)
  BY <1>1, Typed DEF Sound, Linkage, Marked
<1>5. idx[f] \in DOMAIN stack /\ stack[idx[f]] = f /\ f # None
  BY <1>1, <1>4, OwnIndex, FilesAssumption DEF Sound, Read
<1>6. r.i = idx[f] /\ r.file = f /\ r.thumb = f /\ r.all = FALSE
  BY <1>3, <1>5, OwnThumb DEF Request, At
<1> HIDE DEF r
<1>7. Linkage(stack, frames)' /\ Known' /\ Read' /\ Fades'
  <2> DEFINE set == {r.thumb}
  <2>1. status' = Loading(set)
    BY <1>1
  <2> HIDE DEF set
  <2> QED
    BY <1>1, <1>3, <2>1, UploadStarts
<1>8. requests' = <<r>>
  BY <1>1, <1>2
<1>9. DOMAIN requests' = {1} /\ requests'[1] = r
  BY <1>8
<1>10. ASSUME NEW q, q = r PROVE Open(q)'
  <2>1. FadingFiles' = FadingFiles /\ Shown' = Shown
    BY <1>1 DEF FadingFiles, Shown
  <2>2. off' = Shown /\ stack' = stack
    BY <1>1
  <2> QED
    BY <1>1, <1>5, <1>6, <1>10, <2>1, <2>2 DEF Open
<1>11. Opened(requests, timers)' /\ Single(requests, timers)'
  <2>1. SettlesIn(timers') = {} /\ CompletesIn(timers') = {}
    BY <1>1, <1>2
  <2>2. \A n \in DOMAIN requests' : n = 1 /\ requests'[n] = r
    BY <1>9
  <2>3. \A n \in DOMAIN requests' : Open(requests[n])'
    BY <1>10, <2>2
  <2> QED
    BY <2>1, <2>2, <2>3 DEF Opened, Single
<1>12. ~AllMode(requests, timers)'
  BY <1>1, <1>2, <1>6, <1>9 DEF AllMode, Calls
<1>13. Removable' /\ Sent'
  BY <1>1, <1>2, <1>12 DEF Removable, Sent, Shown
<1> QED
  BY <1>7, <1>11, <1>13 DEF Sound, Under

-----------------------------------------------------------------------------
(* The answers to a synchronous upload *)

\* The numbering starts anew: the entries that are left, in the order of their thumbnails.
LEMMA Renumbering ==
  ASSUME TypeOK, Sound, loads = {}, NEW s, DOMAIN s = DOMAIN stack, \A i \in DOMAIN stack : s[i] \in {None, stack[i]},
         ResetFileStack(s), frames' = frames
  PROVE  /\ stack' \in Seq(Files) /\ \A m, n \in DOMAIN stack' : stack'[m] = stack'[n] => m = n
         /\ \A n \in DOMAIN stack' : stack'[n] \in Shown /\ stack'[n] \in InStack(s) /\ idx'[stack'[n]] = n
         /\ InStack(stack') = InStack(s) /\ InStack(s) \subseteq InStack(stack)
         /\ \A t \in Shown : t \notin InStack(s) => idx'[t] = 0
         /\ Ordered(stack, frames)'
<1> DEFINE S == {f \in Files : At(s, idx[f]) # None}
           h == Only(frames, S)
<1>1. h = Holding(s)
  BY DEF Holding
<1>2. frames \in Seq(Files) /\ Shown \subseteq Files /\ \A i, j \in DOMAIN frames : frames[i] = frames[j] => i = j
  BY Typed DEF Sound, Linkage, Unique, Distinct
<1>3. h \in Seq(Files) /\ DOMAIN h = 1 .. Len(h) /\ Len(h) \in Nat
  <2>1. h \in Seq(Files)
    BY <1>1, <1>2, HoldingType
  <2> QED
    BY <2>1
<1>4. /\ \A e : (\E n \in DOMAIN h : h[n] = e) <=> (e \in S /\ \E i \in DOMAIN frames : frames[i] = e)
      /\ \A m, n \in DOMAIN h : h[m] = h[n] => m = n
  BY <1>2, OnlyElements
<1>5. PICK place \in [DOMAIN h -> Places(frames, S)] :
        /\ \A n \in DOMAIN h : h[n] = frames[place[n]]
        /\ \A m, n \in DOMAIN h : m < n => place[m] < place[n]
  BY <1>2, OnlyOrdered
<1> HIDE DEF h, S
<1>6. ASSUME NEW t \in Shown
      PROVE  /\ t \in S <=> t \in InStack(s)
             /\ t \in S => s[idx[t]] = t
  <2>1. CASE t \in S
    <3>1. idx[t] \in DOMAIN stack /\ s[idx[t]] # None
      BY <2>1 DEF S, At
    <3>2. stack[idx[t]] = s[idx[t]] /\ idx[t] > 0
      BY <3>1, Typed
    <3>3. stack[idx[t]] = t
      BY <3>1, <3>2, Typed DEF Sound, Linkage, Indexed
    <3> QED
      BY <2>1, <3>1, <3>2, <3>3 DEF InStack
  <2>2. CASE t \in InStack(s)
    <3>1. PICK i \in DOMAIN stack : s[i] = t /\ t # None
      BY <2>2 DEF InStack
    <3>2. stack[i] = t
      BY <3>1
    <3>3. idx[t] = i
      BY <3>1, <3>2 DEF Sound, Linkage, Linked
    <3>4. t \in S
      BY <1>2, <3>1, <3>3 DEF S, At
    <3> QED
      BY <2>1, <3>4
  <2> QED
    BY <2>1, <2>2
<1>7. \A n \in DOMAIN h : h[n] \in Shown /\ h[n] \in S /\ s[idx[h[n]]] = h[n]
  BY <1>4, <1>6 DEF Shown
<1>8. stack' = [n \in DOMAIN h |-> s[idx[h[n]]]] /\ idx' = Renumbered(s)
  BY <1>1 DEF ResetFileStack
<1>9. stack' = h
  <2>1. h = [n \in DOMAIN h |-> h[n]]
    BY <1>3
  <2> QED
    BY <1>7, <1>8, <2>1
<1>10. \A n \in DOMAIN h : idx'[h[n]] = n
  <2>1. ASSUME NEW n \in DOMAIN h PROVE idx'[h[n]] = n
    <3>1. h[n] \in Shown /\ h[n] \in Files
      BY <1>2, <1>7
    <3>2. idx'[h[n]] = CHOOSE m \in DOMAIN h : h[m] = h[n]
      BY <1>1, <1>8, <3>1 DEF Renumbered
    <3>3. (CHOOSE m \in DOMAIN h : h[m] = h[n]) = n
      BY <1>4
    <3> QED
      BY <3>2, <3>3
  <2> QED
    BY <2>1
<1>11. \A t \in Shown : t \notin InStack(s) => idx'[t] = 0
  <2>1. ASSUME NEW t \in Shown, t \notin InStack(s) PROVE idx'[t] = 0
    <3>1. ~\E n \in DOMAIN h : h[n] = t
      BY <1>6, <1>7, <2>1
    <3> QED
      BY <1>1, <1>2, <1>8, <3>1 DEF Renumbered
  <2> QED
    BY <2>1
<1>12. InStack(s) \subseteq InStack(stack) /\ InStack(s) \subseteq Shown
  <2>1. ASSUME NEW e \in InStack(s) PROVE e \in InStack(stack)
    BY DEF InStack
  <2> QED
    BY <2>1, AllShown DEF Sound
<1>13. InStack(stack') = InStack(s)
  <2>1. \A n \in DOMAIN h : h[n] # None
    BY <1>3, FilesAssumption
  <2>2. \A e \in InStack(s) : \E n \in DOMAIN h : h[n] = e
    BY <1>4, <1>6, <1>12 DEF Shown
  <2>3. \A n \in DOMAIN h : h[n] \in InStack(s)
    BY <1>6, <1>7
  <2> QED
    BY <1>9, <2>1, <2>2, <2>3 DEF InStack
<1>14. Ordered(stack, frames)'
  <2>1. ASSUME NEW m \in DOMAIN frames, NEW n \in DOMAIN frames, m < n, frames[m] \in InStack(stack'), frames[n] \in InStack(stack')
        PROVE  idx'[frames[m]] < idx'[frames[n]]
    <3>1. PICK a \in DOMAIN h : h[a] = frames[m]
      BY <1>9, <2>1 DEF InStack
    <3>2. PICK b \in DOMAIN h : h[b] = frames[n]
      BY <1>9, <2>1 DEF InStack
    <3>3. \A c \in DOMAIN h : place[c] \in DOMAIN frames /\ place[c] \in Nat /\ c \in Nat
      BY <1>2, <1>3, <1>5 DEF Places
    <3>4. place[a] = m /\ place[b] = n
      BY <1>2, <1>5, <3>1, <3>2, <3>3
    <3>5. a < b
      <4>1. a # b /\ ~(b < a)
        BY <1>5, <2>1, <3>3, <3>4, SmallerIsOther
      <4> QED
        BY <3>3, <4>1
    <3> QED
      BY <1>10, <3>1, <3>2, <3>5
  <2> QED
    BY <2>1 DEF Ordered
<1>15. /\ stack' \in Seq(Files) /\ \A m, n \in DOMAIN stack' : stack'[m] = stack'[n] => m = n
       /\ \A n \in DOMAIN stack' : stack'[n] \in Shown /\ stack'[n] \in InStack(s) /\ idx'[stack'[n]] = n
  BY <1>3, <1>4, <1>6, <1>7, <1>9, <1>10
<1> QED
  BY <1>11, <1>12, <1>13, <1>14, <1>15

\* An answer to a synchronous upload: what is left in the stack is what is not
\* marked as uploaded.
LEMMA SoundOver ==
  ASSUME TypeOK, Control, Control', Sound, Undisturbed', batch # None, NEW s, NEW st, BatchOver(s, st),
         DOMAIN s = DOMAIN stack, \A i \in DOMAIN stack : s[i] \in {None, stack[i]},
         \A t \in Shown \cap InStack(s) : st[t] # "Success",
         \A t \in Shown \cap Valid : st[t] # "Success" => t \in InStack(s), accepted \subseteq accepted'
  PROVE  Sound'
<1>1. /\ status' = st /\ isDisabled' = FALSE /\ ResetFileStack(s) /\ BindSuccess(st) /\ ~Stale
      /\ UNCHANGED <<frames, fading, loads, timers, chosen, discarded>>
  BY DEF BatchOver, Unlock, Enable, Undisturbed, Happened
<1>2. isDisabled /\ fading = {}
  BY DEF Sound, Under, Sent
<1>3. loads = {} /\ Thumbs(frames) = Shown /\ Shown \subseteq Files /\ Shown' = Shown
  BY <1>1, <1>2, Typed DEF Sound, Read, Apart, Shown
<1>4. /\ stack' \in Seq(Files) /\ \A m, n \in DOMAIN stack' : stack'[m] = stack'[n] => m = n
      /\ \A n \in DOMAIN stack' : stack'[n] \in Shown /\ stack'[n] \in InStack(s) /\ idx'[stack'[n]] = n
      /\ InStack(stack') = InStack(s) /\ InStack(s) \subseteq InStack(stack)
      /\ \A t \in Shown : t \notin InStack(s) => idx'[t] = 0
      /\ Ordered(stack, frames)'
  BY <1>1, <1>3, Renumbering
<1>5. \A t \in Shown : bound'[t] > 0 => bound'[t] = idx'[t]
  BY <1>1 DEF Stale
<1>6. \A n \in DOMAIN stack' : bound'[stack'[n]] = n
  <2>1. ASSUME NEW n \in DOMAIN stack' PROVE bound'[stack'[n]] = n
    <3>1. stack'[n] \in Shown /\ stack'[n] \in Files /\ stack'[n] \in InStack(s) /\ stack'[n] \in InStack(stack) /\ idx'[stack'[n]] = n
      BY <1>3, <1>4
    <3>2. bound'[stack'[n]] = bound[stack'[n]]
      BY <1>1, <3>1 DEF BindSuccess
    <3>3. bound[stack'[n]] > 0
      BY <3>1, OwnIndex DEF Sound, Read
    <3> QED
      BY <1>5, <3>1, <3>2, <3>3
  <2> QED
    BY <2>1
<1>7. Linkage(stack, frames)'
  <2>1. Unique(stack, frames)'
    BY <1>1, <1>4 DEF Sound, Linkage, Unique
  <2>2. Linked(stack, frames)'
    BY <1>1, <1>3, <1>4, <1>6 DEF Linked
  <2>3. Indexed(stack, frames)'
    <3>1. ASSUME NEW t \in Shown PROVE idx'[t] <= Len(stack') /\ (idx'[t] > 0 => stack'[idx'[t]] \in {None, t})
      <4>1. Len(stack') \in Nat /\ DOMAIN stack' = 1 .. Len(stack')
        BY <1>4
      <4>2. CASE t \in InStack(s)
        <5>1. PICK n \in DOMAIN stack' : stack'[n] = t
          <6>1. t \in InStack(stack')
            BY <1>4, <4>2
          <6> QED
            BY <6>1 DEF InStack
        <5>2. n \in Nat /\ n <= Len(stack') /\ idx'[t] = n
          BY <1>4, <4>1, <5>1
        <5> QED
          BY <5>1, <5>2
      <4>3. CASE t \notin InStack(s)
        BY <1>4, <4>1, <4>3
      <4> QED
        BY <4>2, <4>3
    <3> QED
      BY <1>1, <1>3, <1>5, <3>1 DEF Indexed
  <2>4. Marked(stack, frames)'
    BY <1>1, <1>3, <1>4 DEF Marked
  <2> QED
    BY <1>4, <2>1, <2>2, <2>3, <2>4 DEF Linkage
<1>8. Known'
  BY <1>1, <1>3, <1>4 DEF Sound, Known
<1>9. Read'
  BY <1>1, <1>2, LockedReads
<1>10. Fades'
  BY <1>1, <1>2 DEF Fades
<1> QED
  BY <1>1, <1>7, <1>8, <1>9, <1>10, QuietUnder DEF Sound

\* The thumbnails an answer is spread over.
LEMMA UnmarkedAre ==
  ASSUME TypeOK
  PROVE  \A f : (\E n \in DOMAIN Unmarked : Unmarked[n] = f) <=> f \in Shown /\ status[f] # "Success"
<1> DEFINE S == {f \in Files : status[f] # "Success"}
<1>1. frames \in Seq(Files) /\ Shown \subseteq Files
  BY Typed
<1>2. \A e : (\E n \in DOMAIN Only(frames, S) : Only(frames, S)[n] = e) <=> (e \in S /\ \E i \in DOMAIN frames : frames[i] = e)
  BY <1>1, OnlyElements
<1>3. Unmarked = Only(frames, S)
  BY DEF Unmarked
<1>4. \A f : f \in Shown <=> \E i \in DOMAIN frames : frames[i] = f
  BY DEF Shown
<1> HIDE DEF S
<1>5. \A f \in Files : f \in S <=> status[f] # "Success"
  BY DEF S
<1>6. S \subseteq Files
  BY DEF S
<1> QED
  BY <1>1, <1>2, <1>3, <1>4, <1>5, <1>6

LEMMA SoundAcceptBatch ==
  ASSUME TypeOK, Control, Control', Sound, Undisturbed', AcceptBatch
  PROVE  Sound'
<1> DEFINE s == Emptied
           st == [f \in Files |-> IF f \in Shown THEN "Success" ELSE status[f]]
<1>1. batch # None /\ BatchOver(s, st) /\ accepted \subseteq accepted'
  BY DEF AcceptBatch
<1>2. s = [n \in DOMAIN stack |-> None]
  BY <1>1 DEF Sound, Under, Sent, Emptied
<1>3. DOMAIN s = DOMAIN stack /\ \A i \in DOMAIN stack : s[i] \in {None, stack[i]}
  BY <1>2
<1>4. \A t \in Shown : st[t] = "Success"
  BY Typed
<1>5. InStack(s) = {}
  BY <1>2 DEF InStack
<1> HIDE DEF s, st
<1>6. /\ \A t \in Shown \cap InStack(s) : st[t] # "Success"
      /\ \A t \in Shown \cap Valid : st[t] # "Success" => t \in InStack(s)
  BY <1>4, <1>5
<1> QED
  BY <1>1, <1>3, <1>6, SoundOver

LEMMA SoundRejectBatch ==
  ASSUME TypeOK, Control, Control', Sound, Undisturbed', RejectBatch
  PROVE  Sound'
<1> DEFINE st == FailedBatch
<1>1. batch # None /\ BatchOver(stack, st) /\ accepted \subseteq accepted'
  BY DEF RejectBatch
<1>2. \A t \in Shown : st[t] = IF At(stack, idx[t]) # None THEN "Error" ELSE status[t]
  BY Typed DEF FailedBatch
<1>3. loads = {}
  BY <1>1 DEF Sound, Under, Sent, Read, Apart
<1>4. ASSUME NEW t \in Shown PROVE (st[t] # "Success" /\ t \in Valid => t \in InStack(stack)) /\ (t \in InStack(stack) => st[t] # "Success")
  <2>1. t \in InStack(stack) => At(stack, idx[t]) # None
    <3>1. t \in InStack(stack) => idx[t] \in DOMAIN stack /\ stack[idx[t]] = t /\ t # None
      BY OwnIndex DEF Sound, Read, InStack
    <3> QED
      BY <3>1 DEF At
  <2>2. CASE At(stack, idx[t]) # None
    <3>1. idx[t] \in DOMAIN stack /\ stack[idx[t]] # None
      BY <2>2 DEF At
    <3>2. idx[t] > 0
      BY <3>1, Typed
    <3>3. stack[idx[t]] = t
      BY <3>1, <3>2, Typed DEF Sound, Linkage, Indexed
    <3>4. t \in InStack(stack)
      BY <3>1, <3>3 DEF InStack
    <3> QED
      BY <1>2, <2>2, <3>4
  <2>3. CASE At(stack, idx[t]) = None
    <3>1. st[t] = status[t] /\ t \notin InStack(stack)
      BY <1>2, <2>1, <2>3
    <3> QED
      BY <3>1, Typed DEF Sound, Linkage, Marked
  <2> QED
    BY <2>2, <2>3
<1> HIDE DEF st
<1>5. DOMAIN stack = DOMAIN stack /\ \A i \in DOMAIN stack : stack[i] \in {None, stack[i]}
  OBVIOUS
<1>6. /\ \A t \in Shown \cap InStack(stack) : st[t] # "Success"
      /\ \A t \in Shown \cap Valid : st[t] # "Success" => t \in InStack(stack)
  BY <1>4
<1> QED
  BY <1>1, <1>5, <1>6, SoundOver

\* The numbers of the files that failed, as the widget counts them.
Failing(keys, n) == keys = {} \/ n \in keys
NumberOf(f) == CHOOSE n \in DOMAIN Unmarked : Unmarked[n] = f
IsMarked(f) == \E n \in DOMAIN Unmarked : Unmarked[n] = f
PartLeft(keys) ==
  [i \in DOMAIN stack |-> IF \E f \in Shown : IsMarked(f) /\ ~Failing(keys, NumberOf(f)) /\ idx[f] = i THEN None ELSE stack[i]]
PartStatus(keys) ==
  [f \in Files |-> IF ~IsMarked(f) THEN status[f] ELSE IF Failing(keys, NumberOf(f)) THEN "Error" ELSE "Success"]

LEMMA PartOver ==
  ASSUME NEW keys, AcceptPart(keys)
  PROVE  /\ batch # None /\ BatchOver(PartLeft(keys), PartStatus(keys))
         /\ accepted' = accepted \cup {batch.sent[n] : n \in {k \in DOMAIN batch.sent : ~Failing(keys, k)}}
BY DEF AcceptPart, PartLeft, PartStatus, Failing, NumberOf, IsMarked

\* What a partial answer leaves in the stack is not marked as uploaded.
LEMMA PartKeeps ==
  ASSUME TypeOK, Sound, batch # None, NEW keys
  PROVE  LET s == PartLeft(keys)
         IN /\ DOMAIN s = DOMAIN stack /\ \A i \in DOMAIN stack : s[i] \in {None, stack[i]}
            /\ \A t \in Shown \cap InStack(s) : PartStatus(keys)[t] # "Success"
<1> DEFINE s == PartLeft(keys)
           st == PartStatus(keys)
           failed(f) == Failing(keys, NumberOf(f))
<1>1. /\ DOMAIN s = DOMAIN stack
      /\ \A i \in DOMAIN stack : s[i] = IF \E f \in Shown : IsMarked(f) /\ ~failed(f) /\ idx[f] = i THEN None ELSE stack[i]
  BY DEF PartLeft
<1>2. \A t \in Shown : st[t] = IF ~IsMarked(t) THEN status[t] ELSE IF failed(t) THEN "Error" ELSE "Success"
  BY Typed DEF PartStatus
<1> HIDE DEF s, st, failed
<1>3. loads = {} /\ None \notin Shown
  BY Typed DEF Sound, Under, Sent, Read, Apart
<1>4. \A i \in DOMAIN stack : s[i] \in {None, stack[i]}
  BY <1>1
<1>5. ASSUME NEW t \in Shown, t \in InStack(s) PROVE st[t] # "Success"
  <2>1. PICK i \in DOMAIN stack : s[i] = t
    BY <1>1, <1>5 DEF InStack
  <2>2. stack[i] = t
    BY <1>3, <1>4, <2>1
  <2>3. t \in InStack(stack)
    BY <1>3, <2>2 DEF InStack
  <2>4. idx[t] = i
    BY <1>3, <2>2 DEF Sound, Linkage, Linked
  <2>5. ~(IsMarked(t) /\ ~failed(t))
    BY <1>1, <1>3, <2>1, <2>4
  <2>6. status[t] # "Success"
    BY <2>3, Typed DEF Sound, Linkage, Marked
  <2> QED
    BY <1>2, <2>5, <2>6
<1> QED
  BY <1>1, <1>4, <1>5 DEF s, st

LEMMA SoundAcceptPart ==
  ASSUME TypeOK, Control, Control', Sound, Undisturbed', NEW keys, AcceptPart(keys)
  PROVE  Sound'
<1> DEFINE s == PartLeft(keys)
           st == PartStatus(keys)
           failed(f) == Failing(keys, NumberOf(f))
<1>1. batch # None /\ BatchOver(s, st) /\ accepted \subseteq accepted'
  BY PartOver
<1>2. \A t \in Shown \cap InStack(s) : st[t] # "Success"
  BY <1>1, PartKeeps
<1>3. /\ DOMAIN s = DOMAIN stack
      /\ \A i \in DOMAIN stack : s[i] = IF \E f \in Shown : IsMarked(f) /\ ~failed(f) /\ idx[f] = i THEN None ELSE stack[i]
  BY DEF PartLeft
<1>4. \A t \in Shown : st[t] = IF ~IsMarked(t) THEN status[t] ELSE IF failed(t) THEN "Error" ELSE "Success"
  BY Typed DEF PartStatus
<1> HIDE DEF s, st, failed
<1>5. \A t \in Shown : IsMarked(t) <=> status[t] # "Success"
  BY UnmarkedAre DEF IsMarked
<1>6. loads = {} /\ None \notin Shown
  BY <1>1, Typed DEF Sound, Under, Sent, Read, Apart
<1>7. \A i \in DOMAIN stack : s[i] \in {None, stack[i]}
  BY <1>3
<1>8. ASSUME NEW t \in Shown, t \in Valid, st[t] # "Success" PROVE t \in InStack(s)
  <2>1. IsMarked(t) /\ failed(t) /\ status[t] # "Success"
    BY <1>4, <1>5, <1>8
  <2>2. t \in InStack(stack)
    BY <1>8, <2>1, Typed DEF Sound, Linkage, Marked
  <2>3. idx[t] \in DOMAIN stack /\ stack[idx[t]] = t /\ idx[t] > 0
    BY <2>2, OwnIndex DEF Sound, Read
  <2>4. ~\E f \in Shown : IsMarked(f) /\ ~failed(f) /\ idx[f] = idx[t]
    <3>1. ASSUME NEW f \in Shown, idx[f] = idx[t] PROVE f = t
      <4>1. stack[idx[f]] \in {None, f}
        BY <2>3, <3>1, Typed DEF Sound, Linkage, Indexed
      <4> QED
        BY <1>6, <2>3, <3>1, <4>1
    <3> QED
      BY <2>1, <3>1
  <2>5. s[idx[t]] = t
    BY <1>3, <2>3, <2>4
  <2> QED
    BY <1>3, <1>6, <2>3, <2>5 DEF InStack
<1>9. /\ \A t \in Shown \cap InStack(s) : st[t] # "Success"
      /\ \A t \in Shown \cap Valid : st[t] # "Success" => t \in InStack(s)
  BY <1>2, <1>8
<1> QED
  BY <1>1, <1>3, <1>7, <1>9, SoundOver

-----------------------------------------------------------------------------
(* A removal ends *)

\* What the entry at the handler's index is: that of the thumbnail, or nothing.
LEMMA FadedEntry ==
  ASSUME TypeOK, Sound, NEW x \in fading
  PROVE  LET left == UpdateStack(stack, x[2], None)
         IN /\ DOMAIN left = DOMAIN stack /\ Len(left) = Len(stack) /\ InStack(left) = InStack(stack) \ {x[1]}
            /\ \A i \in DOMAIN stack : left[i] \in {None, stack[i]} /\ (stack[i] # x[1] => left[i] = stack[i])
<1> DEFINE left == UpdateStack(stack, x[2], None)
           t == x[1]
<1>1. /\ t \in Shown /\ t \in Files /\ t # None /\ stack \in Seq(Entry) /\ x[2] \in Int
      /\ x[2] > 0 => x[2] = idx[t]
      /\ t \in InStack(stack) => x[2] = idx[t]
  <2>1. t \in Shown /\ (x[2] > 0 => x[2] = idx[t]) /\ (t \in InStack(stack) => x[2] = idx[t])
    BY DEF Sound, Fades
  <2>2. x \in Files \X (Nat \cup {SuccessHandler}) \X Nat
    BY DEF TypeOK
  <2>3. x[2] \in Nat \cup {-1}
    BY <2>2 DEF SuccessHandler
  <2>4. x[2] \in Int
    BY <2>3
  <2>5. t \in Files /\ t # None /\ stack \in Seq(Entry)
    BY <2>1, Typed
  <2> QED
    BY <2>1, <2>4, <2>5
<1>2. t \in InStack(stack) => idx[t] \in DOMAIN stack /\ stack[idx[t]] = t /\ idx[t] > 0
  BY <1>1, OwnIndex DEF Sound, Read
<1>3. CASE x[2] < 1
  <2>1. left = stack
    BY <1>3 DEF UpdateStack
  <2>2. t \notin InStack(stack)
    BY <1>1, <1>2, <1>3
  <2> QED
    BY <2>1, <2>2
<1>4. CASE ~(x[2] < 1)
  <2>1. x[2] = idx[t] /\ idx[t] \in Nat /\ idx[t] > 0
    BY <1>1, <1>4, Typed
  <2>2. idx[t] \in DOMAIN stack /\ stack[idx[t]] \in {None, t}
    BY <1>1, <2>1, Typed DEF Sound, Linkage, Indexed
  <2>3. PICK i \in DOMAIN stack : i = x[2]
    BY <2>1, <2>2
  <2>4. None \in Entry
    BY DEF Entry
  <2>5. LET w == UpdateStack(stack, i, None)
        IN DOMAIN w = DOMAIN stack /\ Len(w) = Len(stack) /\ w[i] = None /\ \A j \in DOMAIN stack : j # i => w[j] = stack[j]
    BY <1>1, <2>4, EntryWritten
  <2>6. InStack(UpdateStack(stack, i, None)) = InStack(stack) \ {stack[i]}
    BY <1>1, EntryGone DEF Sound, Linkage
  <2>7. left = UpdateStack(stack, i, None)
    BY <2>3
  <2> HIDE DEF left, t
  <2>8. stack[i] \in {None, t}
    BY <2>1, <2>2, <2>3
  <2>9. InStack(stack) \ {stack[i]} = InStack(stack) \ {t}
    <3>1. CASE stack[i] = None
      <4>1. t \notin InStack(stack)
        BY <1>1, <1>2, <2>1, <2>3, <3>1 DEF t
      <4> QED
        BY <3>1, <4>1 DEF InStack
    <3> QED
      BY <2>8, <3>1
  <2>10. InStack(left) = InStack(stack) \ {t}
    BY <2>6, <2>7, <2>9
  <2>11. \A j \in DOMAIN stack : left[j] \in {None, stack[j]} /\ (stack[j] # t => left[j] = stack[j])
    <3>1. \A j \in DOMAIN stack : j # i => left[j] = stack[j]
      BY <2>5, <2>7
    <3>2. left[i] = None
      BY <2>5, <2>7
    <3>3. stack[i] # t => left[i] = stack[i]
      BY <2>8, <3>2
    <3> QED
      BY <3>1, <3>2, <3>3
  <2>12. DOMAIN left = DOMAIN stack /\ Len(left) = Len(stack)
    BY <2>5, <2>7
  <2> QED
    BY <2>10, <2>11, <2>12 DEF left, t
<1> QED
  BY <1>3, <1>4

LEMMA SoundFaded ==
  ASSUME TypeOK, Sound, Undisturbed', NEW x, Faded(x)
  PROVE  Sound'
<1> DEFINE left == UpdateStack(stack, x[2], None)
           t == x[1]
<1>1. /\ x \in fading /\ x[3] = 0 /\ fading' = fading \ {x} /\ frames' = Only(frames, Files \ {t})
      /\ IF Last(x) THEN stack' = <<>> /\ requests' = Forgotten /\ BatchForgotten(TRUE)
         ELSE stack' = left /\ UNCHANGED <<requests, batch>>
      /\ UNCHANGED <<idx, bound, status, off, isDisabled, loads, timers, chosen, accepted, discarded>>
      /\ ~(Last(x) /\ InStack(left) # {})
  BY DEF Faded, Undisturbed, Happened
<1>2. /\ DOMAIN left = DOMAIN stack /\ Len(left) = Len(stack) /\ InStack(left) = InStack(stack) \ {t}
      /\ \A i \in DOMAIN stack : left[i] \in {None, stack[i]} /\ (stack[i] # t => left[i] = stack[i])
  BY <1>1, FadedEntry
<1>3. t \in Shown /\ t \in FadingFiles /\ t # None /\ t \in Files /\ batch = None
  BY <1>1, Typed DEF Sound, Fades, FadingFiles, Under, Sent
<1>4. frames \in Seq(Files) /\ Thumbs(frames) = Shown /\ Shown \subseteq Files /\ Thumbs(frames') = Shown'
  BY Typed DEF Thumbs, Shown
<1> HIDE DEF left, t
<1> DEFINE S == Files \ {t}
<1>5. /\ \A e : (\E n \in DOMAIN Only(frames, S) : Only(frames, S)[n] = e) <=> (e \in S /\ \E i \in DOMAIN frames : frames[i] = e)
      /\ (\A i, j \in DOMAIN frames : frames[i] = frames[j] => i = j)
           => \A m, n \in DOMAIN Only(frames, S) : Only(frames, S)[m] = Only(frames, S)[n] => m = n
  BY <1>4, OnlyElements
<1>6. PICK place \in [DOMAIN Only(frames, S) -> Places(frames, S)] :
        /\ \A n \in DOMAIN Only(frames, S) : Only(frames, S)[n] = frames[place[n]]
        /\ \A m, n \in DOMAIN Only(frames, S) : m < n => place[m] < place[n]
  BY <1>4, OnlyOrdered
<1>7. frames' = Only(frames, S)
  BY <1>1
<1> HIDE DEF S
<1>8. Shown' = Shown \ {t}
  <2>1. \A e : e \in Shown' <=> \E n \in DOMAIN Only(frames, S) : Only(frames, S)[n] = e
    BY <1>7 DEF Shown
  <2>2. \A e : e \in Shown <=> \E i \in DOMAIN frames : frames[i] = e
    BY DEF Shown
  <2> QED
    BY <1>4, <1>5, <2>1, <2>2 DEF S
<1>9. Distinct(frames')
  BY <1>5, <1>7 DEF Sound, Linkage, Unique, Distinct
<1>10. CASE Last(x)
  <2>1. Shown = {t} /\ InStack(left) = {}
    BY <1>1, <1>3, <1>10 DEF Last, Shown, t
  <2>2. Shown' = {} /\ InStack(stack) \subseteq Shown
    BY <1>2, <1>8, <2>1
  <2>3. loads = {}
    <3>1. ASSUME NEW r \in loads PROVE FALSE
      <4>1. r.node = Len(stack) /\ stack # <<>> /\ stack[r.node] = Head(r.todo) /\ Head(r.todo) \notin Shown /\ Head(r.todo) \in Valid
        BY DEF Sound, Read, LoadInv
      <4>2a. stack \in Seq(Entry) /\ DOMAIN stack = 1 .. Len(stack)
        BY Typed
      <4>2b. Len(stack) \in Nat /\ Len(stack) > 0
        BY <4>1, <4>2a, EmptySeq
      <4>2c. r.node \in DOMAIN stack
        BY <4>1, <4>2a, <4>2b
      <4>2d. Head(r.todo) # None
        BY <4>1, FilesAssumption
      <4>2. r.node \in DOMAIN stack /\ Head(r.todo) # None
        BY <4>2c, <4>2d
      <4>3. Head(r.todo) \in InStack(stack)
        BY <4>1, <4>2 DEF InStack
      <4> QED
        BY <2>2, <4>1, <4>3
    <3> QED
      BY <3>1
  <2>4. Pending = {}
    <3>1. ASSUME NEW n \in Pending PROVE FALSE
      <4>1. x[3] >= n
        BY <1>1, <2>1 DEF Sound, Read, PendingInv, t
      <4>2. n \in Nat \ {0}
        BY Lengths DEF Pending
      <4> QED
        BY <1>1, <4>1, <4>2
    <3> QED
      BY <3>1
  <2>5. fading' = {}
    BY <1>1, <2>1 DEF Sound, Fades, t
  <2>6. \A r : ~Open(r)
    BY <1>3, <2>1 DEF Open
  <2>7. requests = <<>> /\ SettlesIn(timers) = {}
    <3>1. DOMAIN requests = {} /\ SettlesIn(timers) = {}
      BY <2>6 DEF Sound, Under, Opened
    <3> QED
      BY <3>1, Lengths
  <2>8. /\ stack' = <<>> /\ requests' = <<>> /\ batch' = None
    BY <1>1, <1>3, <1>10, <2>7, RequestTypes, Lengths DEF BatchForgotten
  <2>9. InStack(stack') = {} /\ DOMAIN stack' = {}
    BY <2>8 DEF InStack
  <2>10. Linkage(stack, frames)'
    BY <1>4, <1>9, <2>2, <2>8, <2>9 DEF Linkage, Unique, Linked, Indexed, Ordered, Marked
  <2>11. Known' /\ Fades'
    BY <2>2, <2>5, <2>9 DEF Known, Fades
  <2>12. Read'
    BY <1>1, <2>3, <2>4, NothingRead DEF Pending
  <2>13. Under'
    <3>1. DOMAIN requests' = {} /\ SettlesIn(timers') = {}
      BY <1>1, <2>7, <2>8
    <3>2. Opened(requests, timers)' /\ Single(requests, timers)'
      BY <3>1 DEF Opened, Single
    <3> QED
      BY <2>2, <2>5, <2>8, <3>2 DEF Under, Removable, Sent
  <2> QED
    BY <2>10, <2>11, <2>12, <2>13 DEF Sound
<1>11. CASE ~Last(x)
  <2>1. stack' = left /\ requests' = requests /\ batch' = None
    BY <1>1, <1>3, <1>11
  <2>2. InStack(stack') = InStack(stack) \ {t} /\ DOMAIN stack' = DOMAIN stack /\ Len(stack') = Len(stack)
    BY <1>2, <2>1
  <2>3. \A i \in DOMAIN stack : stack'[i] \in {None, stack[i]} /\ (stack[i] # t => stack'[i] = stack[i])
    BY <1>2, <2>1
  <2>4. Linkage(stack, frames)'
    <3>1. Unique(stack, frames)'
      BY <1>9, <2>2, <2>3 DEF Sound, Linkage, Unique
    <3>2. Linked(stack, frames)'
      <4>1. ASSUME NEW i \in DOMAIN stack', stack'[i] # None
            PROVE  \/ \E r \in loads : Head(r.todo) = stack'[i]
                   \/ stack'[i] \in Shown' /\ idx[stack'[i]] = i /\ bound[stack'[i]] = i
        <5>1. stack'[i] = stack[i] /\ i \in DOMAIN stack /\ stack'[i] \in InStack(stack')
          BY <2>2, <2>3, <4>1 DEF InStack
        <5>2. stack[i] # t
          BY <2>2, <5>1
        <5> QED
          BY <1>4, <1>8, <4>1, <5>1, <5>2 DEF Sound, Linkage, Linked
      <4> QED
        BY <1>1, <1>4, <4>1 DEF Linked
    <3>3. Indexed(stack, frames)'
      <4>1. ASSUME NEW u \in Shown
            PROVE  idx[u] <= Len(stack') /\ (idx[u] > 0 => stack'[idx[u]] \in {None, u}) /\ (bound[u] > 0 => bound[u] = idx[u])
        <5>1. idx[u] <= Len(stack) /\ (idx[u] > 0 => stack[idx[u]] \in {None, u}) /\ (bound[u] > 0 => bound[u] = idx[u])
          BY <1>4 DEF Sound, Linkage, Indexed
        <5>2. idx[u] > 0 => idx[u] \in DOMAIN stack
          BY <1>4, <5>1, Typed
        <5> QED
          BY <2>2, <2>3, <5>1, <5>2
      <4> QED
        BY <1>1, <1>4, <1>8, <4>1 DEF Indexed
    <3>4. Ordered(stack, frames)'
      <4>1. ASSUME NEW m \in DOMAIN frames', NEW n \in DOMAIN frames', m < n, frames'[m] \in InStack(stack'), frames'[n] \in InStack(stack')
            PROVE  idx[frames'[m]] < idx[frames'[n]]
        <5>1. place[m] \in DOMAIN frames /\ place[n] \in DOMAIN frames /\ place[m] < place[n]
          BY <1>6, <1>7, <4>1 DEF Places
        <5>2. frames'[m] = frames[place[m]] /\ frames'[n] = frames[place[n]]
          BY <1>6, <1>7
        <5> QED
          BY <2>2, <4>1, <5>1, <5>2 DEF Sound, Linkage, Ordered
      <4> QED
        BY <1>1, <4>1 DEF Ordered
    <3>5. Marked(stack, frames)'
      BY <1>1, <1>4, <1>8, <2>2 DEF Sound, Linkage, Marked
    <3> QED
      BY <3>1, <3>2, <3>3, <3>4, <3>5 DEF Linkage
  <2>5. Known'
    BY <1>1, <1>8, <2>2 DEF Sound, Known
  <2>6. \A f : Ahead(f) => Ahead(f)'
    BY <1>1, <1>8, <2>2 DEF Ahead
  <2>7. Read'
    <3>1. Apart' /\ Pending' = Pending
      BY <1>1 DEF Sound, Read, Apart, Pending
    <3>2. LoadInv'
      <4>1. ASSUME NEW r \in loads PROVE r.node = Len(stack') /\ stack' # <<>> /\ stack'[r.node] = Head(r.todo) /\ Head(r.todo) \notin Shown'
        <5>1. r.node = Len(stack) /\ stack # <<>> /\ stack[r.node] = Head(r.todo) /\ Head(r.todo) \notin Shown
          BY DEF Sound, Read, LoadInv
        <5>2. r.node \in DOMAIN stack
          BY <5>1, Typed
        <5> QED
          BY <1>3, <1>8, <2>2, <2>3, <5>1, <5>2
      <4> QED
        BY <1>1, <2>6, <4>1 DEF Sound, Read, LoadInv
    <3>3. PendingInv'
      <4>1. ASSUME NEW n \in Pending PROVE \E u \in Shown' : \A y \in fading' : y[1] = u => y[3] >= n
        <5>1. PICK u \in Shown : \A y \in fading : y[1] = u => y[3] >= n
          BY DEF Sound, Read, PendingInv
        <5>2. n \in Nat \ {0}
          BY Lengths DEF Pending
        <5>3. u # t
          BY <1>1, <5>1, <5>2 DEF t
        <5> QED
          BY <1>1, <1>8, <5>1, <5>3
      <4>2. ASSUME NEW n \in Pending
            PROVE  timers[n].node = Len(stack) + 1 /\ Distinct(timers[n].todo) /\ \A k \in DOMAIN timers[n].todo : Ahead(timers[n].todo[k])
        BY DEF Sound, Read, PendingInv
      <4> QED
        BY <1>1, <2>2, <2>6, <3>1, <4>1, <4>2 DEF PendingInv
    <3> QED
      BY <3>1, <3>2, <3>3 DEF Read
  <2>8. Fades'
    <3>1. \A y \in fading' : y \in fading /\ y[1] # t
      BY <1>1 DEF Sound, Fades, t
    <3> QED
      BY <1>1, <1>8, <2>2, <3>1 DEF Sound, Fades
  <2>9. Under'
    <3>1. FadingFiles' \subseteq FadingFiles
      BY <1>1 DEF FadingFiles
    <3>2. \A r : Open(r) => Open(r)'
      BY <1>1, <1>3, <1>8, <2>2, <2>3, <3>1 DEF Open
    <3>3. Opened(requests, timers)' /\ Single(requests, timers)'
      BY <1>1, <2>1, <3>2 DEF Sound, Under, Opened, Single
    <3>4. Removable'
      <4>1. AllMode(requests, timers)' => AllMode(requests, timers)
        BY <1>1, <2>1 DEF AllMode, Calls
      <4> QED
        BY <1>1, <1>8, <4>1 DEF Sound, Under, Removable
    <3> QED
      BY <2>1, <3>3, <3>4 DEF Under, Sent
  <2> QED
    BY <2>4, <2>5, <2>7, <2>8, <2>9 DEF Sound
<1> QED
  BY <1>10, <1>11

-----------------------------------------------------------------------------
(* The steps together *)

LEMMA SoundInit ==
  ASSUME Init
  PROVE  LinkInv
<1>1. /\ stack = <<>> /\ frames = <<>> /\ loads = {} /\ timers = <<>> /\ requests = <<>> /\ batch = None /\ fading = {}
  BY DEF Init
<1>2. DOMAIN stack = {} /\ DOMAIN frames = {} /\ DOMAIN timers = {} /\ DOMAIN requests = {}
  BY <1>1
<1>3. InStack(stack) = {} /\ Shown = {} /\ Pending = {} /\ SettlesIn(timers) = {} /\ CompletesIn(timers) = {} /\ ChecksIn(timers) = {}
  BY <1>2 DEF InStack, Shown, Pending, SettlesIn, CompletesIn, ChecksIn
<1>4. Linkage(stack, frames)
  BY <1>2, <1>3 DEF Linkage, Unique, Distinct, Linked, Indexed, Ordered, Marked, Thumbs
<1>5. Known /\ Read /\ Fades
  BY <1>1, <1>3 DEF Known, Read, Apart, LoadInv, PendingInv, Fades
<1>6. Under
  BY <1>1, <1>2, <1>3 DEF Under, Opened, Single, Removable, Sent
<1> QED
  BY <1>4, <1>5, <1>6 DEF LinkInv, Sound

LEMMA SoundSame ==
  ASSUME Sound, UNCHANGED vars
  PROVE  Sound'
<1>1. /\ UNCHANGED <<stack, frames, idx, bound, status, off, fading, isDisabled, loads, timers, requests, batch, chosen, accepted, discarded>>
  BY DEF vars, thumbs, history
<1>2. Linkage(stack, frames)' /\ Known'
  BY <1>1 DEF Sound, Linkage, Unique, Linked, Indexed, Ordered, Marked, Known, Shown
<1>3. Read' /\ Fades'
  BY <1>1 DEF Sound, Read, Apart, Pending, LoadInv, PendingInv, Ahead, Shown, Fades
<1>4. Under'
  <2>1. Opened(requests, timers)'
    BY <1>1 DEF Sound, Under, Opened, Open, Shown, FadingFiles
  <2>2. Single(requests, timers)' /\ Removable' /\ Sent'
    BY <1>1 DEF Sound, Under, Single, Removable, AllMode, Calls, Sent, Shown
  <2> QED
    BY <2>1, <2>2 DEF Under
<1> QED
  BY <1>2, <1>3, <1>4 DEF Sound

\* What holds of every step that none of the situations comes with.
LEMMA Quietly ==
  ASSUME ControlInv, ControlInv', [Next]_vars, Undisturbed'
  PROVE  Undisturbed /\ Control /\ Control'
<1>1. events \subseteq events'
  BY EventsGrow
<1>2. Undisturbed
  BY <1>1 DEF Undisturbed, Happened
<1>3. ~Happened({"cancel", "retry"}) /\ ~Happened({"cancel", "retry"})'
  BY <1>2 DEF Undisturbed, Happened
<1>4. Control
  BY <1>3 DEF ControlInv, Control, Tracked
<1>5. Control'
  BY <1>3 DEF ControlInv, Control, Tracked
<1> QED
  BY <1>2, <1>4, <1>5

LEMMA LinkNext ==
  ASSUME TypeOK, ControlInv, LinkInv, [Next]_vars
  PROVE  LinkInv'
<1>1. SUFFICES ASSUME Undisturbed' PROVE Sound'
  BY DEF LinkInv
<1>2. TypeOK' /\ ControlInv'
  BY NextTypes, ControlNext
<1>3. Undisturbed /\ Control /\ Control'
  BY <1>1, <1>2, Quietly
<1>4. Sound
  BY <1>3 DEF LinkInv
<1>5. CASE UNCHANGED vars
  BY <1>4, <1>5, SoundSame
<1>6. CASE User
  <2>1. ASSUME NEW S \in Selections, Select(S) PROVE Sound'
    BY <1>1, <1>2, <1>3, <1>4, <2>1, SoundSelect
  <2>2. CASE UploadAll
    BY <1>1, <1>3, <1>4, <2>2, SoundUploadAll
  <2>3. CASE UploadBatch
    BY <1>1, <1>3, <1>4, <2>3, SoundUploadBatch
  <2>4. ASSUME NEW f \in Files, UploadOne(f) PROVE Sound'
    BY <1>1, <1>3, <1>4, <2>4, SoundUploadOne
  <2>5. ASSUME NEW f \in Files, Remove(f) PROVE Sound'
    BY <1>4, <2>5, SoundRemove
  <2>6. ASSUME Cancel PROVE FALSE
    BY <1>1, <2>6 DEF Cancel, Undisturbed, Happened
  <2>7. CASE Clear
    BY <1>1, <1>2, <1>3, <2>7, SoundClear
  <2> QED
    BY <1>6, <2>1, <2>2, <2>3, <2>4, <2>5, <2>6, <2>7 DEF User
<1>7. CASE Server
  <2>1. ASSUME NEW n \in DOMAIN requests, Accept(n) \/ Refuse(n) \/ Reject(n) PROVE Sound'
    BY <1>3, <1>4, <2>1, SoundAnswer
  <2>2. CASE AcceptBatch
    BY <1>1, <1>3, <1>4, <2>2, SoundAcceptBatch
  <2>3. ASSUME NEW keys, AcceptPart(keys) PROVE Sound'
    BY <1>1, <1>3, <1>4, <2>3, SoundAcceptPart
  <2>4. CASE RejectBatch
    BY <1>1, <1>3, <1>4, <2>4, SoundRejectBatch
  <2> QED
    BY <1>7, <2>1, <2>2, <2>3, <2>4 DEF Server
<1>8. CASE Browser
  <2>1. ASSUME NEW r \in loads, Load(r) PROVE Sound'
    BY <1>2, <1>3, <1>4, <2>1, SoundLoad
  <2>2. ASSUME NEW x, Faded(x) PROVE Sound'
    BY <1>1, <1>4, <2>2, SoundFaded
  <2>3. CASE ReadNext
    BY <1>2, <1>3, <1>4, <2>3, SoundReadNext
  <2>4. CASE Success
    BY <1>3, <1>4, <2>4, SoundSuccess
  <2>5. CASE Error
    BY <1>3, <1>4, <2>5, SoundError
  <2>6. CASE Complete
    BY <1>3, <1>4, <2>6, SoundComplete
  <2>7. CASE Check
    BY <1>1, <1>3, <1>4, <2>7, SoundCheck
  <2> QED
    BY <1>8, <2>1, <2>2, <2>3, <2>4, <2>5, <2>6, <2>7 DEF Browser, Tick
<1> QED
  BY <1>5, <1>6, <1>7, <1>8 DEF Next

LEMMA IndexKept ==
  ASSUME TypeOK, LinkInv
  PROVE  IndexFindsFile
<1>1. SUFFICES ASSUME Undisturbed, NEW i \in DOMAIN stack, stack[i] # None, ~\E r \in loads : Head(r.todo) = stack[i]
               PROVE  stack[i] \in Shown /\ ThumbAt(i) = stack[i] /\ bound[stack[i]] = i
  BY DEF IndexFindsFile, Undisturbed
<1>2. Sound
  BY <1>1 DEF LinkInv
<1>3. stack[i] \in Shown /\ idx[stack[i]] = i /\ bound[stack[i]] = i
  BY <1>1, <1>2, Typed DEF Sound, Linkage, Linked
<1> QED
  BY <1>1, <1>2, <1>3, ThumbOf

\* The index of a file in the stack leads to its thumbnail, and the thumbnail's remove
\* handler holds it too, as long as none of the six situations occurred.
THEOREM IndexFinds == Spec => []IndexFindsFile
<1>1. Init => TypeOK /\ ControlInv /\ LinkInv
  BY InitTypes, ControlInit, SoundInit
<1>2. (TypeOK /\ ControlInv /\ LinkInv) /\ [Next]_vars => (TypeOK /\ ControlInv /\ LinkInv)'
  BY NextTypes, ControlNext, LinkNext
<1>3. TypeOK /\ LinkInv => IndexFindsFile
  BY IndexKept
<1> QED
  BY <1>1, <1>2, <1>3, PTL DEF Spec

-----------------------------------------------------------------------------
(* What became of the files *)

Taken == \A t \in Shown : status[t] = "Success" => t \in accepted

AccountInv == Undisturbed /\ ~Happened({"unsent"}) => Taken

\* Reading adds thumbnails that are not marked as uploaded.
LEMMA TakenReads ==
  ASSUME TypeOK, Taken, NEW node, NEW todo \in Seq(Files), NEW s, NEW fr \in Seq(Files), Thumbs(fr) \subseteq Shown, NEW tm,
         ReadFile(node, todo, s, fr, tm), accepted' = accepted
  PROVE  Taken'
<1>1. status \in [Files -> {"New", "Loading", "Success", "Error"}]
  BY DEF TypeOK
<1>2. CASE frames' = fr /\ status' = status
  <2>1. Shown' = Thumbs(fr)
    BY <1>2 DEF Thumbs, Shown
  <2> QED
    BY <1>2, <2>1 DEF Taken
<1>3. CASE todo # <<>> /\ frames' = Append(fr, Head(todo)) /\ status' = [status EXCEPT ![Head(todo)] = "Error"]
  <2>1. Head(todo) \in Files
    BY <1>3
  <2>2. Thumbs(Append(fr, Head(todo))) = Thumbs(fr) \cup {Head(todo)}
    BY <2>1, ThumbsAppended
  <2>3. Shown' = Thumbs(fr) \cup {Head(todo)}
    BY <1>3, <2>2 DEF Thumbs, Shown
  <2>4. \A t \in Shown' : status'[t] = "Success" => t \in Shown /\ status[t] = "Success"
    BY <1>1, <1>3, <2>1, <2>3, Typed
  <2> QED
    BY <2>4 DEF Taken
<1> QED
  BY <1>2, <1>3 DEF ReadFile

LEMMA TakenSelect ==
  ASSUME TypeOK, Taken, NEW S \in Selections, Select(S)
  PROVE  Taken'
<1> DEFINE W == {f \in Files : status[f] = "Success"}
           fr == Only(frames, W)
<1>1. S \in Seq(Files)
  BY SelectionType
<1>2. Fresh(S) \in Seq(Files)
  BY <1>1, FreshType
<1>3. frames \in Seq(Files) /\ Thumbs(frames) = Shown
  BY Typed
<1>4. fr \in Seq(Files) /\ Thumbs(fr) \subseteq Shown
  <2>1. fr \in Seq(Files \cap W)
    BY <1>3, OnlyProperties
  <2>2. fr \in Seq(Files)
    BY <2>1, SeqOfLarger
  <2>3. \A e : (\E n \in DOMAIN Only(frames, W) : Only(frames, W)[n] = e) <=> (e \in W /\ \E i \in DOMAIN frames : frames[i] = e)
    BY <1>3, OnlyElements
  <2> HIDE DEF W
  <2> QED
    BY <2>2, <2>3 DEF Thumbs, Shown
<1>5. accepted' = accepted
  BY DEF Select
<1>6. \/ frames' = frames /\ status' = status
      \/ ReadFile(1, Fresh(S), <<>>, fr, timers)
      \/ ReadFile(Len(stack) + 1, Fresh(S), stack, frames, timers)
  BY DEF Select
<1> HIDE DEF fr
<1>7. CASE frames' = frames /\ status' = status
  BY <1>5, <1>7 DEF Taken, Shown
<1> QED
  BY <1>2, <1>3, <1>4, <1>5, <1>6, <1>7, TakenReads

LEMMA TakenLoad ==
  ASSUME TypeOK, Taken, NEW r \in loads, Load(r)
  PROVE  Taken'
<1>1. r.todo \in Seq(Files) /\ r.todo # <<>>
  BY DEF TypeOK
<1>2. Head(r.todo) \in Files
  BY <1>1
<1>3. frames \in Seq(Files) /\ Thumbs(frames) = Shown /\ Shown \subseteq Files
  BY Typed
<1>4. Thumbs(Append(frames, Head(r.todo))) = Thumbs(frames) \cup {Head(r.todo)}
  BY <1>2, <1>3, ThumbsAppended
<1>5. frames' = Append(frames, Head(r.todo)) /\ status' = [status EXCEPT ![Head(r.todo)] = "New"] /\ accepted' = accepted
  BY DEF Load, history
<1>6. Shown' = Shown \cup {Head(r.todo)}
  BY <1>3, <1>4, <1>5 DEF Thumbs, Shown
<1>7. status \in [Files -> {"New", "Loading", "Success", "Error"}]
  BY DEF TypeOK
<1>8. \A t \in Shown' : status'[t] = "Success" => t \in Shown /\ status[t] = "Success"
  BY <1>2, <1>3, <1>5, <1>6, <1>7
<1> QED
  BY <1>5, <1>8 DEF Taken

\* An upload marks nothing as uploaded, nor takes such a mark away.
LEMMA TakenUpload ==
  ASSUME TypeOK, Taken, NEW set, status' = Loading(set), UNCHANGED <<frames, accepted>>
  PROVE  Taken'
<1>1. \A f \in Files : status'[f] = "Success" <=> status[f] = "Success"
  BY DEF Loading
<1> QED
  BY <1>1, Typed DEF Taken, Shown

LEMMA TakenSettled ==
  ASSUME TypeOK, Control, Sound, Taken, Success \/ Error
  PROVE  Taken'
<1> DEFINE r == Head(timers).req
<1>1. timers # <<>> /\ Head(timers).kind \in {"success", "error"} /\ UNCHANGED <<frames, accepted>>
  BY DEF Success, Error, Fire, history
<1>2. Open(r) /\ r.file \in Files /\ (Head(timers).kind = "success" => r.file \in accepted)
  BY <1>1, SettledRequest
<1>3. r.thumb = r.file
  BY <1>2 DEF Open
<1>4. \/ Head(timers).kind = "success" /\ status' = SetStatus(r.thumb, "Success")
      \/ status' = SetStatus(r.thumb, "Error")
  BY DEF Success, Error, Fire
<1> HIDE DEF r
<1>5. status \in [Files -> {"New", "Loading", "Success", "Error"}] /\ None \notin Files
  BY Typed DEF TypeOK
<1>6. \A t \in Files : status'[t] = "Success" => status[t] = "Success" \/ t \in accepted
  BY <1>2, <1>3, <1>4, <1>5 DEF SetStatus
<1> QED
  BY <1>1, <1>6, Typed DEF Taken, Shown

LEMMA TakenFaded ==
  ASSUME TypeOK, Taken, NEW x, Faded(x)
  PROVE  Taken'
<1> DEFINE S == Files \ {x[1]}
<1>1. frames' = Only(frames, S) /\ UNCHANGED <<status, accepted>>
  BY DEF Faded
<1>2. frames \in Seq(Files)
  BY Typed
<1>3. \A e : (\E n \in DOMAIN Only(frames, S) : Only(frames, S)[n] = e) <=> (e \in S /\ \E i \in DOMAIN frames : frames[i] = e)
  BY <1>2, OnlyElements
<1> HIDE DEF S
<1>4. Shown' \subseteq Shown
  BY <1>1, <1>3 DEF Shown
<1> QED
  BY <1>1, <1>4 DEF Taken

-----------------------------------------------------------------------------

\* The answer to a synchronous upload counts the thumbnails, and the server the
\* files: the n-th of the one is the n-th of the other.
LEMMA SentAreMarked ==
  ASSUME TypeOK, Sound, batch # None, ~Unsent
  PROVE  \A n \in DOMAIN Unmarked : n \in DOMAIN batch.sent /\ batch.sent[n] = Unmarked[n]
<1> DEFINE W == {f \in Files : status[f] # "Success"}
           a == Unmarked
           b == batch.sent
<1>1. b = Only(stack, Files) /\ loads = {}
  BY DEF Sound, Under, Sent, Read, Apart
<1>2. /\ stack \in Seq(Entry) /\ frames \in Seq(Files) /\ None \notin Files /\ Shown \subseteq Files
      /\ idx \in [Files -> Nat] /\ Thumbs(frames) = Shown
  BY Typed
<1>3. a = Only(frames, W)
  BY DEF Unmarked
<1>4. \E p \in [DOMAIN Only(frames, W) -> Places(frames, W)] :
        /\ \A n \in DOMAIN Only(frames, W) : Only(frames, W)[n] = frames[p[n]]
        /\ \A m, n \in DOMAIN Only(frames, W) : m < n => p[m] < p[n]
  BY <1>2, OnlyOrdered
<1>5. \E q \in [DOMAIN Only(stack, Files) -> Places(stack, Files)] :
        /\ \A n \in DOMAIN Only(stack, Files) : Only(stack, Files)[n] = stack[q[n]]
        /\ \A m, n \in DOMAIN Only(stack, Files) : m < n => q[m] < q[n]
  BY <1>2, OnlyOrdered
<1>6. Only(frames, W) \in Seq(Files) /\ Only(stack, Files) \in Seq(Files)
  <2>1. Only(frames, W) \in Seq(Files \cap W) /\ Only(stack, Files) \in Seq(Entry \cap Files)
    BY <1>2, OnlyProperties
  <2>2. Files \cap W \subseteq Files /\ Entry \cap Files \subseteq Files
    OBVIOUS
  <2> QED
    BY <2>1, <2>2, SeqOfLarger
<1>7. \A f : (\E n \in DOMAIN a : a[n] = f) <=> f \in Shown /\ status[f] # "Success"
  BY UnmarkedAre
<1>8. \A n \in DOMAIN a : \E k \in DOMAIN b : b[k] = a[n]
  BY DEF Unsent
<1> HIDE DEF a, b, W
<1>15. PICK p \in [DOMAIN a -> Places(frames, W)] :
        /\ \A n \in DOMAIN a : a[n] = frames[p[n]]
        /\ \A m, n \in DOMAIN a : m < n => p[m] < p[n]
  BY <1>3, <1>4
<1>16. PICK q \in [DOMAIN b -> Places(stack, Files)] :
        /\ \A n \in DOMAIN b : b[n] = stack[q[n]]
        /\ \A m, n \in DOMAIN b : m < n => q[m] < q[n]
  BY <1>1, <1>5
<1>17. a \in Seq(Files) /\ b \in Seq(Files)
  BY <1>1, <1>3, <1>6
<1>9. \A k \in DOMAIN b : q[k] \in DOMAIN stack /\ b[k] = stack[q[k]] /\ b[k] \in InStack(stack)
  BY <1>2, <1>16 DEF Places, InStack
<1>10. ASSUME NEW k \in DOMAIN b PROVE b[k] \in Shown /\ idx[b[k]] = q[k] /\ status[b[k]] # "Success"
  <2>1. b[k] \in Shown
    BY <1>1, <1>9, AllShown DEF Sound
  <2> QED
    BY <1>1, <1>2, <1>9, <2>1 DEF Sound, Linkage, Linked, Marked, InStack
<1>11. \A k \in DOMAIN b : \E n \in DOMAIN a : a[n] = b[k]
  BY <1>7, <1>10
<1>12. \A m, n \in DOMAIN b : m < n => idx[b[m]] < idx[b[n]]
  BY <1>10, <1>16
<1>13. ASSUME NEW m \in DOMAIN a, NEW n \in DOMAIN a, m < n PROVE idx[a[m]] < idx[a[n]]
  <2>1. p[m] \in DOMAIN frames /\ p[n] \in DOMAIN frames /\ p[m] < p[n]
    BY <1>13, <1>15 DEF Places
  <2>2. a[m] = frames[p[m]] /\ a[n] = frames[p[n]]
    BY <1>15
  <2>3. a[m] \in InStack(stack) /\ a[n] \in InStack(stack)
    BY <1>8, <1>9
  <2> QED
    BY <2>1, <2>2, <2>3 DEF Sound, Linkage, Ordered
<1>14. \A n \in DOMAIN a : n \in DOMAIN b /\ b[n] = a[n]
  BY <1>2, <1>8, <1>11, <1>12, <1>13, <1>17, SameOrder
<1> QED
  BY <1>14 DEF a, b

LEMMA TakenAcceptBatch ==
  ASSUME TypeOK, Sound, Taken, AcceptBatch, ~Unsent
  PROVE  Taken'
<1>1. /\ batch # None /\ frames' = frames /\ accepted' = accepted \cup {batch.sent[n] : n \in DOMAIN batch.sent}
  BY DEF AcceptBatch, BatchOver
<1>2. ASSUME NEW t \in Shown PROVE t \in accepted'
  <2>1. CASE status[t] = "Success"
    BY <1>1, <2>1 DEF Taken
  <2>2. CASE status[t] # "Success"
    <3>1. PICK n \in DOMAIN Unmarked : Unmarked[n] = t
      BY <2>2, UnmarkedAre
    <3>2. n \in DOMAIN batch.sent /\ batch.sent[n] = t
      BY <1>1, <3>1, SentAreMarked
    <3> QED
      BY <1>1, <3>2
  <2> QED
    BY <2>1, <2>2
<1> QED
  BY <1>1, <1>2 DEF Taken, Shown

LEMMA TakenAcceptPart ==
  ASSUME TypeOK, Sound, Taken, NEW keys, AcceptPart(keys), ~Unsent
  PROVE  Taken'
<1>1. /\ batch # None /\ BatchOver(PartLeft(keys), PartStatus(keys))
      /\ accepted' = accepted \cup {batch.sent[n] : n \in {k \in DOMAIN batch.sent : ~Failing(keys, k)}}
  BY PartOver
<1>2. status' = PartStatus(keys) /\ frames' = frames
  BY <1>1 DEF BatchOver
<1>3. ASSUME NEW t \in Shown, status'[t] = "Success" PROVE t \in accepted'
  <2>1. t \in Files
    BY Typed
  <2>2. CASE ~IsMarked(t)
    BY <1>1, <1>2, <1>3, <2>1, <2>2 DEF PartStatus, Taken
  <2>3. CASE IsMarked(t)
    <3>1. ~Failing(keys, NumberOf(t))
      BY <1>2, <1>3, <2>1, <2>3 DEF PartStatus
    <3>2. NumberOf(t) \in DOMAIN Unmarked /\ Unmarked[NumberOf(t)] = t
      BY <2>3 DEF IsMarked, NumberOf
    <3>3. NumberOf(t) \in DOMAIN batch.sent /\ batch.sent[NumberOf(t)] = t
      BY <1>1, <3>2, SentAreMarked
    <3> QED
      BY <1>1, <3>1, <3>3
  <2> QED
    BY <2>2, <2>3
<1> QED
  BY <1>2, <1>3 DEF Taken, Shown

LEMMA TakenRejectBatch ==
  ASSUME TypeOK, Taken, RejectBatch
  PROVE  Taken'
<1>1. status' = FailedBatch /\ UNCHANGED <<frames, accepted>>
  BY DEF RejectBatch, BatchOver
<1>2. \A t \in Files : status'[t] = "Success" => status[t] = "Success"
  BY <1>1 DEF FailedBatch
<1> QED
  BY <1>1, <1>2, Typed DEF Taken, Shown

LEMMA AccountNext ==
  ASSUME TypeOK, ControlInv, LinkInv, AccountInv, [Next]_vars
  PROVE  AccountInv'
<1>1. SUFFICES ASSUME Undisturbed', ~Happened({"unsent"})' PROVE Taken'
  BY DEF AccountInv
<1>2. TypeOK' /\ ControlInv'
  BY NextTypes, ControlNext
<1>3. Undisturbed /\ Control
  BY <1>1, <1>2, Quietly
<1>4. Sound
  BY <1>3 DEF LinkInv
<1>5. Taken
  BY <1>1, <1>3, EventsGrow DEF AccountInv, Happened
<1>6. ASSUME UNCHANGED <<frames, status>>, accepted \subseteq accepted' PROVE Taken'
  BY <1>5, <1>6 DEF Taken, Shown
<1>7. CASE UNCHANGED vars
  BY <1>6, <1>7 DEF vars, thumbs, history
<1>8. CASE User
  <2>1. ASSUME NEW S \in Selections, Select(S) PROVE Taken'
    BY <1>5, <2>1, TakenSelect
  <2>2. CASE UploadAll \/ UploadBatch \/ \E f \in Files : UploadOne(f)
    <3>1. (\E set : status' = Loading(set)) /\ UNCHANGED <<frames, accepted>>
      BY <2>2 DEF UploadAll, UploadBatch, UploadOne
    <3> QED
      BY <1>5, <3>1, TakenUpload
  <2>3. ASSUME NEW f \in Files, Remove(f) PROVE Taken'
    BY <1>6, <2>3 DEF Remove, thumbs
  <2>4. ASSUME Cancel PROVE FALSE
    BY <1>1, <2>4 DEF Cancel, Undisturbed, Happened
  <2>5. CASE Clear
    <3>1. frames' = <<>>
      BY <2>5 DEF Clear
    <3> QED
      BY <3>1 DEF Taken, Shown
  <2> QED
    BY <1>8, <2>1, <2>2, <2>3, <2>4, <2>5 DEF User
<1>9. CASE Server
  <2>1. ASSUME NEW n \in DOMAIN requests, Accept(n) \/ Refuse(n) \/ Reject(n) PROVE Taken'
    BY <1>6, <2>1 DEF Accept, Refuse, Reject, thumbs, history
  <2>2. ASSUME NEW s, NEW st, BatchOver(s, st) PROVE ~Unsent
    BY <1>1, <2>2 DEF BatchOver, Happened
  <2>3. CASE AcceptBatch
    <3>1. ~Unsent
      BY <2>2, <2>3 DEF AcceptBatch
    <3> QED
      BY <1>4, <1>5, <2>3, <3>1, TakenAcceptBatch
  <2>4. ASSUME NEW keys, AcceptPart(keys) PROVE Taken'
    <3>1. ~Unsent
      BY <2>2, <2>4, PartOver
    <3> QED
      BY <1>4, <1>5, <2>4, <3>1, TakenAcceptPart
  <2>5. CASE RejectBatch
    BY <1>5, <2>5, TakenRejectBatch
  <2> QED
    BY <1>9, <2>1, <2>3, <2>4, <2>5 DEF Server
<1>10. CASE Browser
  <2>1. ASSUME NEW r \in loads, Load(r) PROVE Taken'
    BY <1>5, <2>1, TakenLoad
  <2>2. ASSUME NEW x, Faded(x) PROVE Taken'
    BY <1>5, <2>2, TakenFaded
  <2>3. CASE ReadNext
    <3>1. timers # <<>> /\ Head(timers).kind = "read" /\ timers \in Seq(TimerType)
      BY <2>3, Lengths DEF ReadNext
    <3>2. Head(timers).todo \in Seq(Files)
      BY <3>1, HeadTimer
    <3>3. frames \in Seq(Files) /\ Thumbs(frames) = Shown
      BY Typed
    <3>4. ReadFile(Head(timers).node, Head(timers).todo, stack, frames, Tail(timers)) /\ accepted' = accepted
      BY <2>3 DEF ReadNext, history
    <3> QED
      BY <1>5, <3>2, <3>3, <3>4, TakenReads
  <2>4. CASE Success \/ Error
    BY <1>3, <1>4, <1>5, <2>4, TakenSettled
  <2>5. CASE Complete
    BY <1>6, <2>5 DEF Complete, history
  <2>6. CASE Check
    BY <1>6, <2>6 DEF Check
  <2> QED
    BY <1>10, <2>1, <2>2, <2>3, <2>4, <2>5, <2>6 DEF Browser, Tick
<1> QED
  BY <1>7, <1>8, <1>9, <1>10 DEF Next

LEMMA AccountInit ==
  ASSUME Init
  PROVE  AccountInv
<1>1. Shown = {}
  BY DEF Init, Shown
<1> QED
  BY <1>1 DEF AccountInv, Taken

\* No file whose reading has begun is lost.
LEMMA AllKept ==
  ASSUME TypeOK, LinkInv, AccountInv
  PROVE  NothingLost
<1>1. SUFFICES ASSUME Undisturbed, ~Happened({"unsent"}), NEW f \in Started
               PROVE  f \in InStack(stack) \cup accepted \cup discarded
  BY DEF NothingLost, Undisturbed, Happened
<1>2. Sound /\ Taken
  BY <1>1 DEF LinkInv, AccountInv
<1>3. f \in Valid
  BY DEF Started
<1>4. CASE f \in Shown
  BY <1>2, <1>3, <1>4, Typed DEF Sound, Linkage, Marked, Taken
<1>5. ASSUME NEW r \in loads, Head(r.todo) = f PROVE f \in InStack(stack)
  <2>1. r.node = Len(stack) /\ stack # <<>> /\ stack[r.node] = f
    BY <1>2, <1>5 DEF Sound, Read, LoadInv
  <2>2. stack \in Seq(Entry) /\ DOMAIN stack = 1 .. Len(stack)
    BY Typed
  <2>3. Len(stack) \in Nat /\ Len(stack) > 0
    BY <2>1, <2>2, EmptySeq
  <2>4. r.node \in DOMAIN stack
    BY <2>1, <2>2, <2>3
  <2>5. f # None
    BY <1>3, FilesAssumption
  <2> QED
    BY <2>1, <2>4, <2>5 DEF InStack
<1> QED
  BY <1>4, <1>5 DEF Started

\* Together the invariants are inductive.
LEMMA AccountsKept ==
  Spec => [](TypeOK /\ LinkInv /\ AccountInv)
<1>1. Init => TypeOK /\ ControlInv /\ LinkInv /\ AccountInv
  BY InitTypes, ControlInit, SoundInit, AccountInit
<1>2. (TypeOK /\ ControlInv /\ LinkInv /\ AccountInv) /\ [Next]_vars => (TypeOK /\ ControlInv /\ LinkInv /\ AccountInv)'
  BY NextTypes, ControlNext, LinkNext, AccountNext
<1> QED
  BY <1>1, <1>2, PTL DEF Spec

\* A file that reading has begun with is in the stack, was taken by the server or was
\* given up by the user, as long as none of the seven situations occurred: no removal,
\* answer or renumbering of fileinput.js drops another.
THEOREM FilesKept == Spec => []NothingLost
BY AccountsKept, AllKept, PTL

\* What is marked as uploaded was taken by the server, whatever the answers were and
\* however a partial one was spread over the thumbnails.
THEOREM UploadedAccepted == Spec => []UploadedWasAccepted
<1>1. AccountInv => UploadedWasAccepted
  BY DEF AccountInv, Taken, UploadedWasAccepted, Undisturbed, Happened
<1> QED
  BY <1>1, AccountsKept, PTL

-----------------------------------------------------------------------------
(* What the server has taken is not sent again: its entry stays where it was  *)
(* when it was sent, and nothing else becomes one of that file.               *)

\* The calls that may still end with a success.
Calling == {requests[n] : n \in DOMAIN requests} \cup {timers[n].req : n \in {m \in DOMAIN timers : timers[m].kind = "success"}}

\* Without uploadAsync a request is of one file, but for that of the batch.
OneByOne(reqs, ts) ==
  /\ \A n \in DOMAIN reqs : ~reqs[n].all
  /\ \A n \in DOMAIN ts : ts[n].kind # "check" /\ (ts[n].kind \in {"success", "error", "complete"} => ~ts[n].req.all)

ModeInv == "cancel" \in events \/ (IF uploadAsync THEN batch = None ELSE OneByOne(requests, timers))

\* While it is locked every button is off then, and nothing is read, so that no
\* file is sent by itself during an upload.
Closed == "retry" \notin events /\ (isDisabled => Shown \subseteq off /\ ~Reading)

LockInv == uploadAsync \/ Happened({"overlap", "cancel"}) \/ Closed

\* The thumbnails an answer is spread over follow their numbers.
Rising(fr) ==
  /\ \A t \in Thumbs(fr) : status[t] # "Success" => bound[t] > 0
  /\ \A m, n \in DOMAIN fr : m < n /\ status[fr[m]] # "Success" /\ status[fr[n]] # "Success" => idx[fr[m]] < idx[fr[n]]

RisingInv == uploadAsync \/ ~Undisturbed \/ Rising(frames)

Calm == ~Happened({"overlap", "cancel"}) /\ (uploadAsync \/ ~Happened({"stale", "fading", "reset"}))

\* A file has one entry.
Once == \A i, j \in DOMAIN stack : stack[i] = stack[j] /\ stack[i] # None => i = j

OneChain ==
  /\ \A r, s \in loads : r = s
  /\ loads # {} => Pending = {}
  /\ \A m, n \in Pending : m = n

\* The entry of a file that was sent is the one it was sent from.
Claims == \A r \in Calling : r.file \in InStack(stack) => r.i \in DOMAIN stack /\ stack[r.i] = r.file

\* What is still to be read was never in the stack.
Untouched(f) == f \in chosen /\ f \notin InStack(stack) /\ f \notin accepted /\ \A r \in Calling : r.file # f

ToCome ==
  /\ \A r \in loads : Distinct(r.todo) /\ \A k \in 2 .. Len(r.todo) : Untouched(r.todo[k])
  /\ \A n \in Pending : Distinct(timers[n].todo) /\ \A k \in DOMAIN timers[n].todo : Untouched(timers[n].todo[k])

Used == InStack(stack) \cup accepted \subseteq chosen /\ \A r \in Calling : r.file \in chosen \cup {None}

Settled == \A f \in accepted \cap InStack(stack) : Finishing(f)

Held == Once /\ OneChain /\ Claims /\ ToCome /\ Used /\ Settled

SendInv == Calm => Held

\* us is ts without its first k timers and with some of new.
Moved(us, ts, k, new) ==
  /\ \A n \in DOMAIN us : (n + k \in DOMAIN ts /\ us[n] = ts[n + k]) \/ us[n] \in new
  /\ \A n \in DOMAIN ts : n > k => \E m \in DOMAIN us : us[m] = ts[n]

LEMMA MovedSame ==
  ASSUME NEW ts \in Seq(TimerType)
  PROVE  Moved(ts, ts, 0, {})
<1>1. \A n \in DOMAIN ts : n + 0 = n
  OBVIOUS
<1> QED
  BY <1>1 DEF Moved

LEMMA MovedBehind ==
  ASSUME NEW ts \in Seq(TimerType), NEW new \in Seq(TimerType)
  PROVE  Moved(ts \o new, ts, 0, {new[n] : n \in DOMAIN new}) /\ ts \o new \in Seq(TimerType)
<1> DEFINE us == ts \o new
<1>1. /\ us \in Seq(TimerType) /\ Len(us) = Len(ts) + Len(new) /\ Len(ts) \in Nat /\ Len(new) \in Nat
      /\ DOMAIN ts = 1 .. Len(ts) /\ DOMAIN us = 1 .. Len(us) /\ DOMAIN new = 1 .. Len(new)
      /\ \A n \in 1 .. Len(ts) : us[n] = ts[n]
      /\ \A n \in 1 .. Len(us) : n > Len(ts) => us[n] = new[n - Len(ts)]
  OBVIOUS
<1> HIDE DEF us
<1>2. ASSUME NEW n \in DOMAIN us PROVE (n + 0 \in DOMAIN ts /\ us[n] = ts[n + 0]) \/ us[n] \in {new[m] : m \in DOMAIN new}
  <2>1. CASE n > Len(ts)
    <3>1. n - Len(ts) \in DOMAIN new
      BY <1>1, <2>1
    <3> QED
      BY <1>1, <2>1, <3>1
  <2>2. CASE ~(n > Len(ts))
    <3>1. n + 0 = n /\ n \in 1 .. Len(ts)
      BY <1>1, <2>2
    <3> QED
      BY <1>1, <3>1
  <2> QED
    BY <2>1, <2>2
<1>3. ASSUME NEW n \in DOMAIN ts PROVE n \in DOMAIN us /\ us[n] = ts[n]
  BY <1>1
<1> QED
  BY <1>1, <1>2, <1>3 DEF Moved, us

LEMMA MovedTail ==
  ASSUME NEW ts \in Seq(TimerType), ts # <<>>, NEW new \in Seq(TimerType)
  PROVE  Moved(Tail(ts) \o new, ts, 1, {new[n] : n \in DOMAIN new}) /\ Tail(ts) \o new \in Seq(TimerType)
<1> DEFINE vs == Tail(ts)
           us == vs \o new
           all == {new[n] : n \in DOMAIN new}
<1>1. /\ vs \in Seq(TimerType) /\ DOMAIN vs = 1 .. Len(ts) - 1 /\ Len(ts) \in Nat \ {0} /\ DOMAIN ts = 1 .. Len(ts)
      /\ \A n \in 1 .. Len(ts) - 1 : vs[n] = ts[n + 1]
  OBVIOUS
<1> HIDE DEF vs
<1>2. Moved(us, vs, 0, all) /\ us \in Seq(TimerType)
  BY <1>1, MovedBehind
<1> HIDE DEF us, all
<1>3. ASSUME NEW n \in DOMAIN us PROVE (n + 1 \in DOMAIN ts /\ us[n] = ts[n + 1]) \/ us[n] \in all
  <2>1. (n + 0 \in DOMAIN vs /\ us[n] = vs[n + 0]) \/ us[n] \in all
    BY <1>2 DEF Moved
  <2>2. n \in Nat /\ n + 0 = n
    BY <1>2
  <2>3. n \in DOMAIN vs => n + 1 \in DOMAIN ts /\ vs[n] = ts[n + 1]
    BY <1>1
  <2> QED
    BY <2>1, <2>2, <2>3
<1>4. ASSUME NEW n \in DOMAIN ts, n > 1 PROVE \E m \in DOMAIN us : us[m] = ts[n]
  <2>1. n - 1 \in DOMAIN vs /\ vs[n - 1] = ts[n] /\ n - 1 > 0
    BY <1>1, <1>4
  <2> QED
    BY <1>2, <2>1 DEF Moved
<1> QED
  BY <1>2, <1>3, <1>4 DEF Moved, us, vs, all

LEMMA TailOnly ==
  ASSUME NEW ts \in Seq(TimerType), ts # <<>>
  PROVE  Moved(Tail(ts), ts, 1, {}) /\ Tail(ts) \in Seq(TimerType)
<1>1. /\ Tail(ts) \in Seq(TimerType) /\ DOMAIN Tail(ts) = 1 .. Len(ts) - 1 /\ Len(ts) \in Nat \ {0} /\ DOMAIN ts = 1 .. Len(ts)
      /\ \A n \in 1 .. Len(ts) - 1 : Tail(ts)[n] = ts[n + 1]
  OBVIOUS
<1>2. \A n \in 1 .. Len(ts) - 1 : n + 1 \in DOMAIN ts
  BY <1>1
<1>3. ASSUME NEW n \in DOMAIN ts, n > 1 PROVE n - 1 \in 1 .. Len(ts) - 1 /\ (n - 1) + 1 = n
  BY <1>1, <1>3
<1>4. \A n \in DOMAIN ts : n > 1 => \E m \in DOMAIN Tail(ts) : Tail(ts)[m] = ts[n]
  BY <1>1, <1>3
<1> QED
  BY <1>1, <1>2, <1>4 DEF Moved

LEMMA FinishingMoved ==
  ASSUME TypeOK, NEW k \in {0, 1}, NEW new, Moved(timers', timers, k, new), NEW f, Finishing(f),
         k = 1 => Head(timers).kind # "success" \/ Head(timers).req.file # f
  PROVE  Finishing(f)'
<1>1. PICK n \in DOMAIN timers : timers[n].kind = "success" /\ timers[n].req.file = f
  BY DEF Finishing
<1>2. n \in Nat \ {0} /\ timers # <<>> /\ Head(timers) = timers[1]
  BY Lengths
<1>3. n > k
  BY <1>1, <1>2
<1> QED
  BY <1>1, <1>3 DEF Moved, Finishing

\* A step that reads no file, and only takes entries away.
Shrinks(s, t) == \A i \in DOMAIN s : s[i] = None \/ (i \in DOMAIN t /\ s[i] = t[i])

LEMMA QuietStep ==
  ASSUME TypeOK, Held, loads' = loads, chosen \subseteq chosen', NEW k \in {0, 1}, NEW new, Moved(timers', timers, k, new),
         TypeOK',
         \A t \in new : t.kind \in {"error", "complete", "check"}
                          \/ (t.kind = "success" /\ \E q \in Calling : t.req.i = q.i /\ t.req.file = q.file),
         Shrinks(stack', stack),
         \A n \in DOMAIN requests' :
           \/ \E q \in Calling : requests'[n].i = q.i /\ requests'[n].file = q.file
           \/ requests'[n].file = At(stack, requests'[n].i),
         \A f \in accepted' : f \in accepted \/ (f # None /\ \E q \in Calling : q.file = f),
         Settled'
  PROVE  Held'
<1>1. /\ InStack(stack') \subseteq InStack(stack)
      /\ \A i \in DOMAIN stack' : stack'[i] # None => i \in DOMAIN stack /\ stack[i] = stack'[i]
  BY DEF Shrinks, InStack
<1>2. InStack(stack) \subseteq Files /\ None \notin Files /\ chosen \subseteq Files
  BY Typed DEF TypeOK
<1>3. ASSUME NEW r \in Calling'
      PROVE  (\E q \in Calling : r.i = q.i /\ r.file = q.file) \/ r.file = At(stack, r.i)
  <2>1. CASE \E n \in DOMAIN requests' : r = requests'[n]
    BY <2>1
  <2>2. ASSUME NEW n \in DOMAIN timers', timers'[n].kind = "success", r = timers'[n].req
        PROVE  \E q \in Calling : r.i = q.i /\ r.file = q.file
    <3>1. CASE n + k \in DOMAIN timers /\ timers'[n] = timers[n + k]
      BY <2>2, <3>1 DEF Calling
    <3>2. CASE timers'[n] \in new
      BY <2>2, <3>2
    <3> QED
      BY <3>1, <3>2 DEF Moved
  <2> QED
    BY <2>1, <2>2 DEF Calling
<1>4. \A i : At(stack, i) # None => i \in DOMAIN stack /\ stack[i] = At(stack, i) /\ At(stack, i) \in InStack(stack)
  BY DEF At, InStack
<1>5. Once'
  BY <1>1 DEF Held, Once
<1>6. ASSUME NEW n \in Pending' PROVE n + k \in Pending /\ timers'[n].todo = timers[n + k].todo
  <2>1. n \in DOMAIN timers' /\ timers'[n].kind = "read" /\ timers'[n].todo # <<>>
    BY DEF Pending
  <2>2. timers'[n] \notin new
    BY <2>1
  <2> QED
    BY <2>1, <2>2 DEF Moved, Pending
<1>7. OneChain'
  <2>1. ASSUME NEW m \in Pending', NEW n \in Pending' PROVE m = n
    <3>1. m + k = n + k
      BY <1>6 DEF Held, OneChain
    <3>2. timers' \in Seq(TimerType)
      BY DEF TypeOK
    <3>3. m \in Nat /\ n \in Nat
      BY <3>2 DEF Pending
    <3> QED
      BY <3>1, <3>3
  <2> QED
    BY <1>6, <2>1 DEF Held, OneChain
<1>8. Claims'
  <2>1. ASSUME NEW r \in Calling', r.file \in InStack(stack') PROVE r.i \in DOMAIN stack' /\ stack'[r.i] = r.file
    <3>1. PICK j \in DOMAIN stack' : stack'[j] = r.file /\ r.file # None
      BY <2>1 DEF InStack
    <3>2. j \in DOMAIN stack /\ stack[j] = r.file /\ r.file \in InStack(stack)
      BY <1>1, <2>1, <3>1
    <3>3. r.i \in DOMAIN stack /\ stack[r.i] = r.file
      <4>1. CASE r.file = At(stack, r.i)
        BY <1>4, <3>1, <4>1
      <4>2. ASSUME NEW q \in Calling, r.i = q.i, r.file = q.file PROVE r.i \in DOMAIN stack /\ stack[r.i] = r.file
        <5>1. q.file \in InStack(stack)
          BY <3>2, <4>2
        <5>2. q.i \in DOMAIN stack /\ stack[q.i] = q.file
          BY <5>1 DEF Held, Claims
        <5> QED
          BY <4>2, <5>2
      <4> QED
        BY <1>3, <2>1, <4>1, <4>2
    <3>4. r.i = j
      BY <3>1, <3>2, <3>3 DEF Held, Once
    <3> QED
      BY <3>1, <3>4
  <2> QED
    BY <2>1 DEF Claims
<1>9. ASSUME NEW f, Untouched(f) PROVE Untouched(f)'
  <2>1. f # None
    BY <1>2, <1>9 DEF Untouched
  <2> QED
    BY <1>1, <1>3, <1>4, <1>9, <2>1 DEF Untouched
<1>10. ToCome'
  BY <1>6, <1>9 DEF Held, ToCome
<1>11. Used'
  BY <1>1, <1>3, <1>4 DEF Held, Used
<1> QED
  BY <1>5, <1>7, <1>8, <1>10, <1>11 DEF Held

\* The calls stay the same while files are read.
LEMMA CallingMoved ==
  ASSUME TypeOK, NEW k \in {0, 1}, NEW new, Moved(timers', timers, k, new), \A t \in new : t.kind # "success",
         requests' = requests \/ requests' = Forgotten
  PROVE  \A r \in Calling' : \E q \in Calling : r.i = q.i /\ r.file = q.file
<1>1. ASSUME NEW n \in DOMAIN requests'
      PROVE  n \in DOMAIN requests /\ requests'[n].i = requests[n].i /\ requests'[n].file = requests[n].file
  <2>1. CASE requests' = requests
    BY <2>1
  <2>2. CASE requests' = Forgotten
    <3>1. n \in DOMAIN requests /\ requests'[n] = [requests[n] EXCEPT !.kept = FALSE] /\ requests[n] \in RequestType
      BY <2>2, Lengths DEF Forgotten
    <3> QED
      BY <3>1 DEF RequestType
  <2> QED
    BY <2>1, <2>2
<1>2. ASSUME NEW n \in DOMAIN timers', timers'[n].kind = "success" PROVE timers'[n].req \in Calling
  <2>1. n + k \in DOMAIN timers /\ timers'[n] = timers[n + k]
    BY <1>2 DEF Moved
  <2> QED
    BY <1>2, <2>1 DEF Calling
<1> QED
  BY <1>1, <1>2 DEF Calling

\* Reading goes on, with a stack of which some entries may have gone.
LEMMA ReadStep ==
  ASSUME TypeOK, TypeOK', Held, NEW node, NEW todo \in Seq(Files), NEW s \in Seq(Entry), NEW fr, NEW tm \in Seq(TimerType),
         ReadFile(node, todo, s, fr, tm), loads = {}, Shrinks(s, stack),
         \A n \in DOMAIN tm : tm[n].kind = "read" => tm[n].todo = <<>>,
         Distinct(todo),
         \A k \in DOMAIN todo : todo[k] \in chosen' /\ todo[k] \notin InStack(stack) /\ todo[k] \notin accepted,
         \A k \in DOMAIN todo : \A r \in Calling : r.file # todo[k],
         chosen \subseteq chosen', accepted' = accepted,
         \A r \in Calling' : \E q \in Calling : r.i = q.i /\ r.file = q.file,
         \A f : Finishing(f) => Finishing(f)'
  PROVE  Held'
<1> DEFINE h == Head(todo)
<1>1. todo # <<>> => /\ h \in Files /\ h = todo[1] /\ DOMAIN todo = 1 .. Len(todo) /\ Len(todo) \in Nat \ {0} /\ 1 \in DOMAIN todo
                     /\ \A k \in 2 .. Len(todo) : k \in DOMAIN todo /\ k # 1
                     /\ Tail(todo) \in Seq(Files) /\ DOMAIN Tail(todo) = 1 .. Len(todo) - 1
                     /\ \A k \in 1 .. Len(todo) - 1 : Tail(todo)[k] = todo[k + 1] /\ k + 1 \in 2 .. Len(todo)
  OBVIOUS
<1>2. DOMAIN s = 1 .. Len(s) /\ Len(s) \in Nat /\ None \notin Files
  BY FilesAssumption
<1>3. /\ \/ todo = <<>> /\ stack' = s
         \/ todo # <<>> /\ (stack' = Append(s, h) \/ stack' = Append(s, None))
      /\ loads' = {} \/ (todo # <<>> /\ \E r : loads' = {r} /\ r.todo = todo /\ timers' = tm)
      /\ timers' = tm \/ (todo # <<>> /\ timers' = Append(tm, Later(node + 1, Tail(todo))))
  <2>1. CASE todo = <<>>
    BY <2>1, Zenon DEF ReadFile
  <2>2. CASE todo # <<>> /\ h \in Valid
    <3>1. stack' = Append(s, h) /\ timers' = tm /\ loads' = loads \cup {[node |-> node, todo |-> todo]}
      BY <2>2, Zenon DEF ReadFile
    <3>2. loads' = {[node |-> node, todo |-> todo]}
      BY <3>1
    <3>3. [node |-> node, todo |-> todo].todo = todo
      OBVIOUS
    <3> QED
      BY <2>2, <3>1, <3>2, <3>3
  <2>3. CASE todo # <<>> /\ h \notin Valid
    <3>1. stack' = Append(s, None) /\ timers' = Append(tm, Later(node + 1, Tail(todo))) /\ loads' = loads
      BY <2>3, Zenon DEF ReadFile
    <3> QED
      BY <2>3, <3>1
  <2> QED
    BY <2>1, <2>2, <2>3
<1> HIDE DEF h
<1>4. todo # <<>> => h \in chosen' /\ h \notin InStack(stack) /\ h \notin accepted /\ h # None /\ \A r \in Calling : r.file # h
  BY <1>1, <1>2
<1>5. /\ \A i \in DOMAIN s : i \in DOMAIN stack' /\ stack'[i] = s[i]
      /\ \A i \in DOMAIN stack' : i \in DOMAIN s \/ stack'[i] = None \/ (todo # <<>> /\ stack'[i] = h /\ i = Len(s) + 1)
  <2>1. ASSUME NEW e \in Entry, stack' = Append(s, e)
        PROVE  /\ \A i \in DOMAIN s : i \in DOMAIN stack' /\ stack'[i] = s[i]
               /\ \A i \in DOMAIN stack' : i \in DOMAIN s \/ (stack'[i] = e /\ i = Len(s) + 1)
    <3>1. /\ Len(s) \in Nat /\ DOMAIN Append(s, e) = 1 .. Len(s) + 1 /\ DOMAIN s = 1 .. Len(s)
          /\ \A i \in 1 .. Len(s) : Append(s, e)[i] = s[i]
          /\ Append(s, e)[Len(s) + 1] = e
          /\ \A i \in 1 .. Len(s) + 1 : i \in 1 .. Len(s) \/ i = Len(s) + 1
      BY AppendStack DEF Entry
    <3>2. \A i \in 1 .. Len(s) : i \in 1 .. Len(s) + 1
      BY <3>1
    <3> QED
      BY <2>1, <3>1, <3>2
  <2>2. CASE stack' = s
    BY <2>2
  <2>3. CASE todo # <<>> /\ (stack' = Append(s, h) \/ stack' = Append(s, None))
    <3>1. h \in Entry /\ None \in Entry
      BY <1>1, <2>3 DEF Entry
    <3> QED
      BY <2>1, <2>3, <3>1
  <2> QED
    BY <1>3, <2>2, <2>3
<1>6. \A i \in DOMAIN s : s[i] # None => i \in DOMAIN stack /\ stack[i] = s[i] /\ s[i] \in InStack(stack)
  BY DEF Shrinks, InStack
<1>7. \A f \in InStack(stack') : f \in InStack(stack) \/ (todo # <<>> /\ f = h)
  BY <1>5, <1>6 DEF InStack
<1>8. Once'
  <2>1. ASSUME NEW i \in DOMAIN stack', NEW j \in DOMAIN stack', stack'[i] = stack'[j], stack'[i] # None PROVE i = j
    <3>1. CASE i \in DOMAIN s /\ j \in DOMAIN s
      BY <1>5, <1>6, <2>1, <3>1 DEF Held, Once
    <3>2. CASE i \notin DOMAIN s \/ j \notin DOMAIN s
      BY <1>4, <1>5, <1>6, <2>1, <3>2
    <3> QED
      BY <3>1, <3>2
  <2> QED
    BY <2>1 DEF Once
<1>9. Claims'
  <2>1. ASSUME NEW r \in Calling', r.file \in InStack(stack') PROVE r.i \in DOMAIN stack' /\ stack'[r.i] = r.file
    <3>1. PICK q \in Calling : r.i = q.i /\ r.file = q.file
      OBVIOUS
    <3>2. PICK j \in DOMAIN stack' : stack'[j] = r.file /\ r.file # None
      BY <2>1 DEF InStack
    <3>3. j \in DOMAIN s /\ j \in DOMAIN stack /\ stack[j] = r.file /\ r.file \in InStack(stack)
      BY <1>4, <1>5, <1>6, <3>1, <3>2
    <3>4. r.i \in DOMAIN stack /\ stack[r.i] = r.file
      BY <3>1, <3>3 DEF Held, Claims
    <3>5. r.i = j
      BY <3>2, <3>3, <3>4 DEF Held, Once
    <3> QED
      BY <3>2, <3>5
  <2> QED
    BY <2>1 DEF Claims
<1>10. Used'
  BY <1>4, <1>7 DEF Held, Used
<1>11. Settled'
  BY <1>4, <1>7 DEF Held, Settled
<1>12. ASSUME NEW k \in DOMAIN todo, k # 1 PROVE Untouched(todo[k])'
  <2>1. todo[k] # h
    BY <1>1, <1>12 DEF Distinct
  <2> QED
    BY <1>7, <2>1 DEF Untouched
<1>13. /\ \A r \in loads' : r.todo = todo /\ todo # <<>>
       /\ \A r, q \in loads' : r = q
  BY <1>3
<1>14. \A r \in loads' : Distinct(r.todo) /\ \A k \in 2 .. Len(r.todo) : Untouched(r.todo[k])'
  BY <1>1, <1>12, <1>13
<1>15. CASE timers' = tm
  <2>1. Pending' = {}
    BY <1>15 DEF Pending
  <2>2. OneChain' /\ ToCome'
    BY <1>13, <1>14, <2>1 DEF OneChain, ToCome
  <2> QED
    BY <1>8, <1>9, <1>10, <1>11, <2>2 DEF Held
<1>16. CASE todo # <<>> /\ timers' = Append(tm, Later(node + 1, Tail(todo))) /\ timers' # tm
  <2> DEFINE t == Later(node + 1, Tail(todo))
  <2>1. t.todo = Tail(todo)
    BY DEF Later
  <2>2. loads' = {}
    BY <1>3, <1>16
  <2> HIDE DEF t
  <2>3. /\ Len(tm) \in Nat /\ DOMAIN timers' = 1 .. Len(tm) + 1 /\ DOMAIN tm = 1 .. Len(tm)
        /\ \A n \in 1 .. Len(tm) : timers'[n] = tm[n]
        /\ timers'[Len(tm) + 1] = t
        /\ \A n \in 1 .. Len(tm) + 1 : n \in 1 .. Len(tm) \/ n = Len(tm) + 1
    BY <1>16 DEF t
  <2>4. \A n \in Pending' : n = Len(tm) + 1 /\ timers'[n].todo = Tail(todo)
    BY <2>1, <2>3 DEF Pending
  <2>5. Distinct(Tail(todo)) /\ \A k \in DOMAIN Tail(todo) : Untouched(Tail(todo)[k])'
    <3>1. ASSUME NEW k \in DOMAIN Tail(todo) PROVE Tail(todo)[k] = todo[k + 1] /\ k + 1 \in DOMAIN todo /\ k + 1 # 1 /\ k \in Nat
      BY <1>1, <1>16
    <3>2. \A k, m \in DOMAIN Tail(todo) : Tail(todo)[k] = Tail(todo)[m] => k = m
      <4>1. ASSUME NEW k \in DOMAIN Tail(todo), NEW m \in DOMAIN Tail(todo), Tail(todo)[k] = Tail(todo)[m] PROVE k = m
        <5>1. k + 1 = m + 1
          BY <3>1, <4>1 DEF Distinct
        <5>2. k \in Nat /\ m \in Nat
          BY <3>1
        <5> QED
          BY <5>1, <5>2
      <4> QED
        BY <4>1
    <3>3. \A k \in DOMAIN Tail(todo) : Untouched(Tail(todo)[k])'
      BY <1>12, <3>1
    <3> QED
      BY <3>2, <3>3 DEF Distinct
  <2>6. OneChain' /\ ToCome'
    BY <2>2, <2>4, <2>5 DEF OneChain, ToCome
  <2> QED
    BY <1>8, <1>9, <1>10, <1>11, <2>6 DEF Held
<1> QED
  BY <1>3, <1>15, <1>16

\* The steps one by one.  A request that begins is of the entry it is sent from.
LEMMA SendQuiet ==
  ASSUME TypeOK, TypeOK', Held, loads' = loads, chosen' = chosen, accepted' = accepted, timers' = timers,
         Shrinks(stack', stack),
         \A n \in DOMAIN requests' :
           \/ \E q \in Calling : requests'[n].i = q.i /\ requests'[n].file = q.file
           \/ requests'[n].file = At(stack, requests'[n].i)
  PROVE  Held'
<1>1. Moved(timers', timers, 0, {})
  BY MovedSame, Lengths
<1>2. \A f \in InStack(stack') : f \in InStack(stack)
  BY DEF Shrinks, InStack
<1>3. Settled'
  BY <1>2 DEF Held, Settled, Finishing
<1> QED
  BY <1>1, <1>3, QuietStep

LEMMA KeptCalls ==
  ASSUME TypeOK, requests' = requests \/ requests' = Forgotten
  PROVE  \A n \in DOMAIN requests' : \E q \in Calling : requests'[n].i = q.i /\ requests'[n].file = q.file
<1>1. ASSUME NEW n \in DOMAIN requests'
      PROVE  n \in DOMAIN requests /\ requests'[n].i = requests[n].i /\ requests'[n].file = requests[n].file
  <2>1. CASE requests' = requests
    BY <2>1
  <2>2. CASE requests' = Forgotten
    <3>1. n \in DOMAIN requests /\ requests'[n] = [requests[n] EXCEPT !.kept = FALSE] /\ requests[n] \in RequestType
      BY <2>2, Lengths DEF Forgotten
    <3> QED
      BY <3>1 DEF RequestType
  <2> QED
    BY <2>1, <2>2
<1> QED
  BY <1>1 DEF Calling

LEMMA ShrinksSame == Shrinks(stack, stack)
BY DEF Shrinks

LEMMA SendUploadAll ==
  ASSUME TypeOK, TypeOK', Held, UploadAll
  PROVE  Held'
<1> DEFINE sent == Only([n \in DOMAIN stack |-> n], {i \in DOMAIN stack : stack[i] # None})
           reqs == [n \in DOMAIN sent |-> Request(sent[n], TRUE)]
<1>1. requests' = Forgotten \o reqs /\ UNCHANGED <<stack, loads, timers, chosen, accepted>>
  BY DEF UploadAll
<1>2. sent \in Seq(Nat)
  BY PlacesChosen DEF TypeOK
<1> HIDE DEF sent
<1>3. DOMAIN sent = 1 .. Len(sent) /\ Len(sent) \in Nat /\ \A n \in DOMAIN sent : sent[n] \in Nat
  BY <1>2
<1>4. reqs \in Seq(RequestType) /\ DOMAIN reqs = DOMAIN sent
  <2>1. \A n \in 1 .. Len(sent) : Request(sent[n], TRUE) \in RequestType
    BY <1>3, RequestTypes
  <2>2. reqs = [n \in 1 .. Len(sent) |-> Request(sent[n], TRUE)]
    BY <1>3
  <2>3. reqs \in [1 .. Len(sent) -> RequestType]
    BY <2>1, <2>2
  <2> HIDE DEF reqs
  <2>4. Len(sent) \in Nat /\ DOMAIN sent = 1 .. Len(sent)
    BY <1>3
  <2> QED
    BY <2>3, <2>4
<1>5. \A n \in DOMAIN reqs : reqs[n].file = At(stack, reqs[n].i)
  BY <1>4 DEF Request
<1> HIDE DEF reqs
<1>6. Forgotten \in Seq(RequestType)
  BY RequestTypes
<1>7. ASSUME NEW n \in DOMAIN requests'
      PROVE  (n \in DOMAIN Forgotten /\ requests'[n] = Forgotten[n]) \/ \E m \in DOMAIN reqs : requests'[n] = reqs[m]
  <2> DEFINE F == Forgotten
  <2>1. F \in Seq(RequestType) /\ requests' = F \o reqs
    BY <1>1, <1>6
  <2> HIDE DEF F
  <2>2. /\ Len(F) \in Nat /\ Len(reqs) \in Nat /\ DOMAIN F = 1 .. Len(F) /\ DOMAIN reqs = 1 .. Len(reqs)
        /\ DOMAIN requests' = 1 .. Len(F) + Len(reqs)
        /\ \A m \in 1 .. Len(F) + Len(reqs) : requests'[m] = IF m <= Len(F) THEN F[m] ELSE reqs[m - Len(F)]
    BY <1>4, <2>1
  <2>3. CASE n <= Len(F)
    <3>1. n \in DOMAIN F /\ requests'[n] = F[n]
      BY <2>2, <2>3
    <3> QED
      BY <3>1 DEF F
  <2>4. CASE ~(n <= Len(F))
    <3>1. n - Len(F) \in DOMAIN reqs /\ requests'[n] = reqs[n - Len(F)]
      BY <2>2, <2>4
    <3> QED
      BY <3>1
  <2> QED
    BY <2>3, <2>4
<1>8. \A n \in DOMAIN Forgotten : \E q \in Calling : Forgotten[n].i = q.i /\ Forgotten[n].file = q.file
  <2>1. ASSUME NEW n \in DOMAIN Forgotten
        PROVE  n \in DOMAIN requests /\ Forgotten[n].i = requests[n].i /\ Forgotten[n].file = requests[n].file
    <3>1. n \in DOMAIN requests /\ Forgotten[n] = [requests[n] EXCEPT !.kept = FALSE] /\ requests[n] \in RequestType
      BY Lengths DEF Forgotten
    <3> QED
      BY <3>1 DEF RequestType
  <2> QED
    BY <2>1 DEF Calling
<1>9. \A n \in DOMAIN requests' :
        \/ \E q \in Calling : requests'[n].i = q.i /\ requests'[n].file = q.file
        \/ requests'[n].file = At(stack, requests'[n].i)
  BY <1>5, <1>7, <1>8
<1> QED
  BY <1>1, <1>9, SendQuiet, ShrinksSame

LEMMA SendUploadOne ==
  ASSUME TypeOK, TypeOK', Held, NEW f \in Files, UploadOne(f)
  PROVE  Held'
<1> DEFINE r == Request(idx[f], FALSE)
<1>1. requests' = Append(requests, r) /\ UNCHANGED <<stack, loads, timers, chosen, accepted>>
  BY DEF UploadOne
<1>2. r.file = At(stack, r.i)
  BY DEF Request
<1> HIDE DEF r
<1>3. ASSUME NEW n \in DOMAIN requests' PROVE (n \in DOMAIN requests /\ requests'[n] = requests[n]) \/ requests'[n] = r
  BY <1>1, Lengths
<1>4. \A n \in DOMAIN requests : \E q \in Calling : requests[n].i = q.i /\ requests[n].file = q.file
  BY DEF Calling
<1>5. \A n \in DOMAIN requests' :
        \/ \E q \in Calling : requests'[n].i = q.i /\ requests'[n].file = q.file
        \/ requests'[n].file = At(stack, requests'[n].i)
  BY <1>2, <1>3, <1>4
<1> QED
  BY <1>1, <1>5, SendQuiet, ShrinksSame

LEMMA SendUser ==
  ASSUME TypeOK, TypeOK', Held, UploadBatch \/ Clear \/ \E f \in Files : Remove(f)
  PROVE  Held'
<1>1. (requests' = requests \/ requests' = Forgotten) /\ UNCHANGED <<loads, timers, chosen, accepted>>
  BY DEF UploadBatch, Clear, Remove
<1>2. stack' = stack \/ stack' = <<>>
  BY DEF UploadBatch, Clear, Remove
<1>3. Shrinks(stack', stack)
  BY <1>2, ShrinksSame DEF Shrinks
<1>4. \A n \in DOMAIN requests' : \E q \in Calling : requests'[n].i = q.i /\ requests'[n].file = q.file
  BY <1>1, KeptCalls
<1> QED
  BY <1>1, <1>3, <1>4, SendQuiet

\* What is new in a selection was never chosen.
LEMMA FreshNew ==
  ASSUME TypeOK, NEW S \in Selections
  PROVE  /\ Fresh(S) \in Seq(Files) /\ Distinct(Fresh(S))
         /\ \A k \in DOMAIN Fresh(S) :
              Fresh(S)[k] \notin InStack(stack) /\ Fresh(S)[k] \notin chosen /\ \E n \in DOMAIN S : S[n] = Fresh(S)[k]
<1> DEFINE later == {f \in Files : \A g \in chosen : g < f}
<1>1. InStack(stack) \subseteq Files
  BY Typed
<1>2. PICK n \in 1 .. MaxChosen : S \in [1 .. n -> InStack(stack) \cup later] /\ \A i, j \in DOMAIN S : i < j => S[i] < S[j]
  BY DEF Selections
<1>3. n \in Nat /\ DOMAIN S = 1 .. n
  BY <1>2, BoundsAssumption
<1> HIDE DEF later
<1>4. \A i \in 1 .. n : S[i] \in Files
  BY <1>1, <1>2 DEF later
<1>5. S \in Seq(Files)
  BY <1>2, <1>3, <1>4
<1>6. \A i, j \in DOMAIN S : S[i] = S[j] => i = j
  <2>1. \A i \in DOMAIN S : i \in Nat /\ S[i] \in Nat
    <3>1. 1 .. n \subseteq Nat /\ Files \subseteq Nat
      BY FilesAssumption
    <3> QED
      BY <1>3, <1>4, <3>1
  <2>2. ASSUME NEW i \in DOMAIN S, NEW j \in DOMAIN S, S[i] = S[j] PROVE i = j
    <3>1. ~(i < j) /\ ~(j < i)
      BY <1>2, <2>1, <2>2, SmallerIsOther
    <3> QED
      BY <2>1, <3>1
  <2> QED
    BY <2>2
<1> DEFINE o == Only(S, Files \ InStack(stack))
<1>7. /\ \A e : (\E k \in DOMAIN o : o[k] = e) <=> (e \in Files \ InStack(stack) /\ \E i \in DOMAIN S : S[i] = e)
      /\ \A j, k \in DOMAIN o : o[j] = o[k] => j = k
  BY <1>5, <1>6, OnlyElements
<1>8. o = Fresh(S) /\ Fresh(S) \in Seq(Files)
  BY <1>5, FreshType DEF Fresh
<1> HIDE DEF o
<1>9. \A f \in later : f \notin chosen
  BY FilesAssumption DEF later
<1>10. \A k \in DOMAIN o : o[k] \notin InStack(stack) /\ \E i \in DOMAIN S : S[i] = o[k]
  BY <1>7
<1>11. \A k \in DOMAIN o : o[k] \notin chosen
  BY <1>2, <1>3, <1>9, <1>10
<1> QED
  BY <1>7, <1>8, <1>10, <1>11 DEF Distinct

\* The queue of timers while files are read.
LEMMA ReadMoves ==
  ASSUME TypeOK, NEW k \in {0, 1}, k = 1 => timers # <<>> /\ Head(timers).kind = "read",
         NEW tm, tm = IF k = 0 THEN timers ELSE Tail(timers),
         NEW node \in Nat, NEW todo \in Seq(Files), NEW s, NEW fr, ReadFile(node, todo, s, fr, tm)
  PROVE  \E new : Moved(timers', timers, k, new) /\ \A t \in new : t.kind = "read"
<1>1. timers \in Seq(TimerType)
  BY Lengths
<1>2. tm \in Seq(TimerType)
  BY <1>1
<1>3. ReadsOnly(timers', tm)
  BY <1>2, TimersOfRead
<1>4. CASE timers' = tm
  <2>1. Moved(timers', timers, k, {})
    BY <1>1, <1>4, MovedSame, TailOnly
  <2> QED
    BY <2>1
<1>5. ASSUME NEW t \in TimerType, t.kind = "read", timers' = Append(tm, t)
      PROVE  \E new : Moved(timers', timers, k, new) /\ \A u \in new : u.kind = "read"
  <2>1. <<t>> \in Seq(TimerType) /\ DOMAIN <<t>> = {1} /\ <<t>>[1] = t
    OBVIOUS
  <2>2. Append(tm, t) = tm \o <<t>>
    BY <1>2
  <2>3. {<<t>>[n] : n \in DOMAIN <<t>>} = {t}
    BY <2>1
  <2>4. Moved(timers', timers, k, {<<t>>[n] : n \in DOMAIN <<t>>})
    <3>1. CASE k = 0
      <4>1. tm = timers /\ timers' = timers \o <<t>>
        BY <1>5, <2>2, <3>1
      <4>2. Moved(timers \o <<t>>, timers, 0, {<<t>>[n] : n \in DOMAIN <<t>>})
        BY <1>1, <2>1, MovedBehind
      <4> QED
        BY <3>1, <4>1, <4>2
    <3>2. CASE k = 1
      <4>1. timers # <<>> /\ timers' = Tail(timers) \o <<t>>
        BY <1>5, <2>2, <3>2
      <4>2. Moved(Tail(timers) \o <<t>>, timers, 1, {<<t>>[n] : n \in DOMAIN <<t>>})
        BY <1>1, <2>1, <4>1, MovedTail
      <4> QED
        BY <3>2, <4>1, <4>2
    <3> QED
      BY <3>1, <3>2
  <2> QED
    BY <1>5, <2>3, <2>4
<1> QED
  BY <1>3, <1>4, <1>5 DEF ReadsOnly

LEMMA LoadMoves ==
  ASSUME TypeOK, NEW r \in loads, Load(r)
  PROVE  Moved(timers', timers, 0, {Later(r.node + 1, Tail(r.todo))})
<1> DEFINE t == Later(r.node + 1, Tail(r.todo))
<1>1. timers' = Append(timers, t)
  BY DEF Load
<1>2. r \in Loads
  BY DEF TypeOK, Loads
<1>3. t \in TimerType
  BY <1>2 DEF Loads, Later, TimerType
<1> HIDE DEF t
<1>4. timers \in Seq(TimerType) /\ <<t>> \in Seq(TimerType) /\ DOMAIN <<t>> = {1} /\ <<t>>[1] = t
  BY <1>3, Lengths
<1>5. Append(timers, t) = timers \o <<t>> /\ {<<t>>[n] : n \in DOMAIN <<t>>} = {t}
  BY <1>4
<1>6. Moved(timers \o <<t>>, timers, 0, {<<t>>[n] : n \in DOMAIN <<t>>})
  BY <1>4, MovedBehind
<1> QED
  BY <1>1, <1>5, <1>6 DEF t

\* What an answer puts behind the queue.
LEMMA AnswerMoves ==
  ASSUME TypeOK, NEW n \in DOMAIN requests, Accept(n) \/ Refuse(n) \/ Reject(n)
  PROVE  \E new :
           /\ Moved(timers', timers, 0, new)
           /\ \A t \in new : t.kind \in {"success", "error", "complete"} /\ t.req = requests[n]
           /\ Accept(n) => \E j \in DOMAIN timers' : timers'[j].kind = "success" /\ timers'[j].req = requests[n]
<1> DEFINE r == requests[n]
           two(kind, id) == <<Timer(kind, r, id), Timer("complete", r, r.i)>>
<1>1. r \in RequestType /\ IdOf(r) \in Nat /\ r.i \in Nat
  <2>1. r \in RequestType
    BY Lengths
  <2> QED
    BY <2>1, RequestTypes DEF RequestType
<1>2. ASSUME NEW kind \in {"success", "error"}, NEW id \in Nat
      PROVE  /\ two(kind, id) \in Seq(TimerType) /\ DOMAIN two(kind, id) = {1, 2}
             /\ two(kind, id)[1].kind = kind /\ two(kind, id)[1].req = r
             /\ two(kind, id)[2].kind = "complete" /\ two(kind, id)[2].req = r
  <2>1. Timer(kind, r, id) \in TimerType /\ Timer("complete", r, r.i) \in TimerType
    BY <1>1 DEF Timer, TimerType
  <2>2. /\ Timer(kind, r, id).kind = kind /\ Timer(kind, r, id).req = r
        /\ Timer("complete", r, r.i).kind = "complete" /\ Timer("complete", r, r.i).req = r
    BY DEF Timer
  <2> QED
    BY <2>1, <2>2
<1>3. \E new \in Seq(TimerType) :
        /\ timers' = timers \o new
        /\ \A m \in DOMAIN new : new[m].kind \in {"success", "error", "complete"} /\ new[m].req = r
        /\ Accept(n) => \E m \in DOMAIN new : new[m].kind = "success" /\ new[m].req = r
  <2>1. CASE Accept(n)
    <3>1. timers' = timers \o two("success", IdOf(r))
      BY <2>1 DEF Accept
    <3> HIDE DEF two, r
    <3> QED
      BY <1>1, <1>2, <3>1, ZenonT(60)
  <2>2. CASE Refuse(n) /\ ~Accept(n)
    <3>1. timers' = timers \o two("error", IdOf(r))
      BY <2>2 DEF Refuse
    <3> HIDE DEF two, r
    <3> QED
      BY <1>1, <1>2, <2>2, <3>1, ZenonT(60)
  <2>3. CASE Reject(n) /\ ~Accept(n)
    <3> DEFINE none == <<>>
    <3>1. none \in Seq(TimerType) /\ DOMAIN none = {}
      OBVIOUS
    <3>2. timers' = timers \o two("error", r.i) \/ timers' = timers \o none
      BY <2>3 DEF Reject, Refused
    <3> HIDE DEF two, r, none
    <3>3. CASE timers' = timers \o two("error", r.i)
      BY <1>1, <1>2, <2>3, <3>3, ZenonT(60)
    <3>4. CASE timers' = timers \o none
      BY <2>3, <3>1, <3>4
    <3> QED
      BY <3>2, <3>3, <3>4
  <2> QED
    BY <2>1, <2>2, <2>3
<1> HIDE DEF two, r
<1>4. PICK new \in Seq(TimerType) :
        /\ timers' = timers \o new
        /\ \A m \in DOMAIN new : new[m].kind \in {"success", "error", "complete"} /\ new[m].req = r
        /\ Accept(n) => \E m \in DOMAIN new : new[m].kind = "success" /\ new[m].req = r
  BY <1>3
<1> DEFINE all == {new[m] : m \in DOMAIN new}
<1>5. Moved(timers', timers, 0, all) /\ \A t \in all : t.kind \in {"success", "error", "complete"} /\ t.req = r
  BY <1>4, Lengths, MovedBehind
<1>6. \A m \in DOMAIN new : \E j \in DOMAIN timers' : timers'[j] = new[m]
  <2>1. timers \in Seq(TimerType)
    BY Lengths
  <2>2. \A m \in DOMAIN new : Len(timers) + m \in DOMAIN timers' /\ timers'[Len(timers) + m] = new[m]
    BY <1>4, <2>1
  <2> QED
    BY <2>2
<1> HIDE DEF all
<1>7. Accept(n) => \E j \in DOMAIN timers' : timers'[j].kind = "success" /\ timers'[j].req = r
  BY <1>4, <1>6
<1> QED
  BY <1>5, <1>7 DEF r

LEMMA CompleteMoves ==
  ASSUME TypeOK, Complete
  PROVE  \E new : /\ Moved(timers', timers, 1, new) /\ \A t \in new : t.kind = "check"
                  /\ ~Head(timers).req.all => new = {}
<1> DEFINE none == <<>>
           one == <<[kind |-> "check"]>>
<1>1. /\ timers # <<>>
      /\ IF Head(timers).req.all THEN timers' = Tail(timers) \o none \/ timers' = Tail(timers) \o one
         ELSE timers' = Tail(timers)
  BY DEF Complete
<1>2. timers \in Seq(TimerType) /\ none \in Seq(TimerType) /\ DOMAIN none = {}
  BY Lengths
<1>3. [kind |-> "check"] \in TimerType
  BY DEF TimerType
<1>4. one \in Seq(TimerType) /\ DOMAIN one = {1} /\ one[1].kind = "check"
  BY <1>3
<1> HIDE DEF none, one
<1>5. CASE timers' = Tail(timers)
  <2>1. Moved(timers', timers, 1, {})
    BY <1>1, <1>2, <1>5, TailOnly
  <2> QED
    BY <2>1
<1>6. CASE timers' = Tail(timers) \o none
  <2>1. Moved(timers', timers, 1, {none[n] : n \in DOMAIN none})
    BY <1>1, <1>2, <1>6, MovedTail
  <2>2. {none[n] : n \in DOMAIN none} = {}
    BY <1>2
  <2> QED
    BY <2>1, <2>2
<1>7. CASE timers' = Tail(timers) \o one /\ Head(timers).req.all
  <2>1. Moved(timers', timers, 1, {one[n] : n \in DOMAIN one})
    BY <1>1, <1>2, <1>4, <1>7, MovedTail
  <2> QED
    BY <1>4, <1>7, <2>1
<1> QED
  BY <1>1, <1>5, <1>6, <1>7

LEMMA ReadMoved ==
  ASSUME TypeOK, NEW k \in {0, 1}, k = 1 => timers # <<>> /\ Head(timers).kind = "read",
         NEW tm, tm = IF k = 0 THEN timers ELSE Tail(timers),
         NEW node \in Nat, NEW todo \in Seq(Files), NEW s, NEW fr, ReadFile(node, todo, s, fr, tm),
         requests' = requests \/ requests' = Forgotten
  PROVE  /\ \A r \in Calling' : \E q \in Calling : r.i = q.i /\ r.file = q.file
         /\ \A f : Finishing(f) => Finishing(f)'
<1>1. PICK new : Moved(timers', timers, k, new) /\ \A t \in new : t.kind = "read"
  BY ReadMoves
<1>2. \A t \in new : t.kind # "success"
  BY <1>1
<1>3. \A r \in Calling' : \E q \in Calling : r.i = q.i /\ r.file = q.file
  BY <1>1, <1>2, CallingMoved
<1>4. \A f : Finishing(f) => Finishing(f)'
  BY <1>1, FinishingMoved
<1> QED
  BY <1>3, <1>4

LEMMA SendSelect ==
  ASSUME TypeOK, TypeOK', Held, "overlap" \notin events', NEW S \in Selections, Select(S)
  PROVE  Held'
<1>1. /\ (requests' = Forgotten) /\ accepted' = accepted /\ chosen' = chosen \cup {S[n] : n \in DOMAIN S}
      /\ ~Reading
  BY DEF Select
<1>2. loads = {} /\ \A n \in DOMAIN timers : timers[n].kind = "read" => timers[n].todo = <<>>
  BY <1>1 DEF Reading
<1>3. CASE NoneTaken(S)
  <2>1. UNCHANGED <<stack, loads, timers>>
    BY <1>3 DEF Select
  <2>2. \A n \in DOMAIN requests' : \E q \in Calling : requests'[n].i = q.i /\ requests'[n].file = q.file
    BY <1>1, KeptCalls
  <2>3. Moved(timers', timers, 0, {})
    BY <2>1, Lengths, MovedSame
  <2>4. Settled'
    BY <1>1, <2>1 DEF Held, Settled, Finishing
  <2>5. Shrinks(stack', stack) /\ chosen \subseteq chosen'
    BY <1>1, <2>1, ShrinksSame
  <2> QED
    BY <1>1, <2>1, <2>2, <2>3, <2>4, <2>5, QuietStep
<1>4. CASE ~NoneTaken(S)
  <2> DEFINE todo == Fresh(S)
  <2>1. /\ todo \in Seq(Files) /\ Distinct(todo)
        /\ \A k \in DOMAIN todo : todo[k] \notin InStack(stack) /\ todo[k] \notin chosen /\ \E n \in DOMAIN S : S[n] = todo[k]
    BY FreshNew
  <2> HIDE DEF todo
  <2>2. None \notin Files /\ \A k \in DOMAIN todo : todo[k] \in Files
    BY <2>1, FilesAssumption
  <2>3. \A k \in DOMAIN todo : /\ todo[k] \in chosen' /\ todo[k] \notin InStack(stack) /\ todo[k] \notin accepted
                               /\ \A r \in Calling : r.file # todo[k]
    BY <1>1, <2>1, <2>2 DEF Held, Used
  <2>4. \E node \in Nat, s \in Seq(Entry) : Shrinks(s, stack) /\ \E fr : ReadFile(node, todo, s, fr, timers)
    <3>1. CASE stack = <<>>
      <4> DEFINE s == <<>>
      <4>1. \E fr : ReadFile(1, todo, s, fr, timers)
        BY <1>4, <3>1 DEF Select, todo
      <4>2. s \in Seq(Entry) /\ Shrinks(s, stack)
        BY DEF Shrinks
      <4> HIDE DEF s
      <4> QED
        BY <4>1, <4>2
    <3>2. CASE stack # <<>>
      <4>1. ReadFile(Len(stack) + 1, todo, stack, frames, timers)
        BY <1>4, <3>2 DEF Select, todo
      <4>2. stack \in Seq(Entry) /\ Len(stack) + 1 \in Nat
        BY Typed
      <4> QED
        BY <4>1, <4>2, ShrinksSame
    <3> QED
      BY <3>1, <3>2
  <2>5. PICK node \in Nat, s \in Seq(Entry) : Shrinks(s, stack) /\ \E fr : ReadFile(node, todo, s, fr, timers)
    BY <2>4
  <2>8. PICK fr : ReadFile(node, todo, s, fr, timers)
    BY <2>5
  <2>6. timers \in Seq(TimerType) /\ chosen \subseteq chosen'
    BY <1>1, Lengths
  <2>7. /\ \A r \in Calling' : \E q \in Calling : r.i = q.i /\ r.file = q.file
        /\ \A f : Finishing(f) => Finishing(f)'
    <3> DEFINE k == 0
    <3>1. k \in {0, 1} /\ (k = 1 => timers # <<>> /\ Head(timers).kind = "read") /\ timers = IF k = 0 THEN timers ELSE Tail(timers)
      OBVIOUS
    <3> HIDE DEF k
    <3> QED
      BY <1>1, <2>1, <2>8, <3>1, ReadMoved
  <2> QED
    BY <1>1, <1>2, <2>1, <2>3, <2>5, <2>6, <2>7, <2>8, ReadStep
<1> QED
  BY <1>3, <1>4

LEMMA UpdateShrinks ==
  ASSUME NEW s \in Seq(Entry), NEW i \in Int, NEW v \in {None, At(s, i)}
  PROVE  /\ Shrinks(UpdateStack(s, i, v), s)
         /\ i \in DOMAIN s => UpdateStack(s, i, v)[i] = v
<1>1. DOMAIN s = 1 .. Len(s) /\ Len(s) \in Nat
  OBVIOUS
<1>2. \A n : At(s, n) # None => n \in DOMAIN s /\ At(s, n) = s[n]
  BY DEF At
<1>3. CASE i < 1
  <2>1. UpdateStack(s, i, v) = s
    BY <1>3 DEF UpdateStack
  <2> QED
    BY <1>1, <1>3, <2>1 DEF Shrinks
<1>4. CASE ~(i < 1)
  <2> DEFINE k == IF i > Len(s) THEN i ELSE Len(s)
  <2>1. UpdateStack(s, i, v) = [n \in 1 .. k |-> IF n = i THEN v ELSE At(s, n)]
    BY <1>4 DEF UpdateStack
  <2>2. i \in 1 .. k
    BY <1>1, <1>4
  <2> HIDE DEF k
  <2>3. \A n \in 1 .. k : UpdateStack(s, i, v)[n] = IF n = i THEN v ELSE At(s, n)
    BY <2>1
  <2>4. DOMAIN UpdateStack(s, i, v) = 1 .. k
    BY <2>1
  <2> QED
    BY <1>2, <2>2, <2>3, <2>4 DEF Shrinks
<1> QED
  BY <1>3, <1>4

\* A timer fires, and what is left of the stack is what was there.
LEMMA SendTimer ==
  ASSUME TypeOK, TypeOK', Held, timers # <<>>, loads' = loads, chosen' = chosen, accepted' = accepted, requests' = requests,
         NEW new, Moved(timers', timers, 1, new), \A t \in new : t.kind = "check",
         Shrinks(stack', stack),
         Head(timers).kind = "success" /\ Head(timers).req.i \in DOMAIN stack => stack'[Head(timers).req.i] = None
  PROVE  Held'
<1> DEFINE r == Head(timers).req
<1>1. \A f \in InStack(stack') : f \in InStack(stack)
  BY DEF Shrinks, InStack
<1>2. ASSUME NEW f \in accepted', f \in InStack(stack') PROVE Finishing(f)'
  <2>1. Finishing(f)
    BY <1>1, <1>2 DEF Held, Settled
  <2>2. Head(timers).kind # "success" \/ r.file # f
    <3>1. SUFFICES ASSUME Head(timers).kind = "success", r.file = f PROVE FALSE
      OBVIOUS
    <3>2. Head(timers) = timers[1] /\ 1 \in DOMAIN timers
      BY Lengths
    <3>3. r \in Calling
      BY <3>1, <3>2 DEF Calling
    <3>4. r.i \in DOMAIN stack /\ stack[r.i] = f
      BY <1>1, <1>2, <3>1, <3>3 DEF Held, Claims
    <3>5. PICK j \in DOMAIN stack' : stack'[j] = f /\ f # None
      BY <1>2 DEF InStack
    <3>6. j \in DOMAIN stack /\ stack[j] = f
      BY <3>5 DEF Shrinks
    <3>7. j = r.i
      BY <3>4, <3>5, <3>6 DEF Held, Once
    <3> QED
      BY <3>1, <3>4, <3>5, <3>7
  <2> HIDE DEF r
  <2>3. Finishing(f)'
    <3> DEFINE k == 1
    <3>1. k \in {0, 1} /\ Moved(timers', timers, k, new) /\ (k = 1 => Head(timers).kind # "success" \/ Head(timers).req.file # f)
      BY <2>2 DEF r
    <3> HIDE DEF k
    <3> QED
      BY <2>1, <3>1, FinishingMoved
  <2> QED
    BY <2>3
<1>3. Settled'
  BY <1>2 DEF Settled
<1>4. \A n \in DOMAIN requests' : \E q \in Calling : requests'[n].i = q.i /\ requests'[n].file = q.file
  BY KeptCalls
<1> DEFINE k == 1
<1>5. k \in {0, 1} /\ Moved(timers', timers, k, new)
  OBVIOUS
<1> HIDE DEF k, r
<1> QED
  BY <1>3, <1>4, <1>5, QuietStep

LEMMA SendSuccess ==
  ASSUME TypeOK, TypeOK', Held, Success
  PROVE  Held'
<1> DEFINE r == Head(timers).req
<1>1. /\ timers # <<>> /\ Head(timers).kind = "success" /\ timers' = Tail(timers)
      /\ stack' = UpdateStack(stack, r.i, None) /\ UNCHANGED <<loads, chosen, accepted, requests>>
  BY DEF Success, Fire, history
<1>2. r \in RequestType
  BY <1>1, HeadTimer
<1>3. r.i \in Int
  BY <1>2 DEF RequestType
<1>4. Shrinks(stack', stack) /\ (r.i \in DOMAIN stack => stack'[r.i] = None)
  BY <1>1, <1>3, Typed, UpdateShrinks
<1>5. Moved(timers', timers, 1, {})
  BY <1>1, Lengths, TailOnly
<1> QED
  BY <1>1, <1>4, <1>5, SendTimer

LEMMA SendError ==
  ASSUME TypeOK, TypeOK', Held, Error
  PROVE  Held'
<1> DEFINE r == Head(timers).req
<1>1. /\ timers # <<>> /\ Head(timers).kind = "error" /\ timers' = Tail(timers)
      /\ stack' = UpdateStack(stack, r.i, At(stack, r.i)) /\ UNCHANGED <<loads, chosen, accepted, requests>>
  BY DEF Error, Fire, history
<1>2. r \in RequestType
  BY <1>1, HeadTimer
<1>3. r.i \in Int
  BY <1>2 DEF RequestType
<1>4. Shrinks(stack', stack)
  BY <1>1, <1>3, Typed, UpdateShrinks
<1>5. Moved(timers', timers, 1, {})
  BY <1>1, Lengths, TailOnly
<1> QED
  BY <1>1, <1>4, <1>5, SendTimer

LEMMA SendComplete ==
  ASSUME TypeOK, TypeOK', Held, Complete
  PROVE  Held'
<1>1. timers # <<>> /\ Head(timers).kind = "complete" /\ UNCHANGED <<stack, loads, chosen, accepted, requests>>
  BY DEF Complete, history
<1>3. PICK new : Moved(timers', timers, 1, new) /\ \A t \in new : t.kind = "check"
  BY CompleteMoves
<1>4. Shrinks(stack', stack)
  BY <1>1, ShrinksSame
<1> QED
  BY <1>1, <1>3, <1>4, SendTimer

LEMMA SendCheck ==
  ASSUME TypeOK, TypeOK', Held, Check
  PROVE  Held'
<1>1. /\ timers # <<>> /\ Head(timers).kind = "check" /\ timers' = Tail(timers) /\ Unlock(InStack(stack) = {}, stack)
      /\ UNCHANGED <<loads, chosen, accepted, requests>>
  BY DEF Check, Fire
<1>2. Moved(timers', timers, 1, {})
  BY <1>1, Lengths, TailOnly
<1>3. Shrinks(stack', stack)
  <2>1. CASE stack' = stack
    BY <2>1, ShrinksSame
  <2>2. CASE InStack(stack) = {} /\ ResetFileStack(stack)
    <3> DEFINE S == {f \in Files : At(stack, idx[f]) # None}
               h == Only(frames, S)
    <3>1. frames \in Seq(Files)
      BY Typed
    <3>2. \A e : (\E n \in DOMAIN h : h[n] = e) <=> (e \in S /\ \E i \in DOMAIN frames : frames[i] = e)
      BY <3>1, OnlyElements
    <3>3. \A i : At(stack, i) # None => At(stack, i) \in InStack(stack)
      BY DEF At, InStack
    <3>4. S = {}
      BY <2>2, <3>3
    <3>5. DOMAIN stack' = DOMAIN h
      BY <2>2 DEF ResetFileStack, Holding
    <3> HIDE DEF S, h
    <3> QED
      BY <3>2, <3>4, <3>5 DEF Shrinks
  <2> QED
    BY <1>1, <2>1, <2>2 DEF Unlock
<1> QED
  BY <1>1, <1>2, <1>3, SendTimer

LEMMA SendFaded ==
  ASSUME TypeOK, TypeOK', Held, NEW x, Faded(x)
  PROVE  Held'
<1>1. /\ x \in fading /\ (stack' = <<>> \/ stack' = UpdateStack(stack, x[2], None))
      /\ (requests' = requests \/ requests' = Forgotten) /\ UNCHANGED <<loads, timers, chosen, accepted>>
  BY DEF Faded
<1>2. x[2] \in Int
  BY <1>1 DEF TypeOK, SuccessHandler
<1>3. Shrinks(stack', stack)
  <2>1. CASE stack' = <<>>
    BY <2>1 DEF Shrinks
  <2>2. CASE stack' = UpdateStack(stack, x[2], None)
    BY <1>2, <2>2, Typed, UpdateShrinks
  <2> QED
    BY <1>1, <2>1, <2>2
<1>4. \A n \in DOMAIN requests' : \E q \in Calling : requests'[n].i = q.i /\ requests'[n].file = q.file
  BY <1>1, KeptCalls
<1> QED
  BY <1>1, <1>3, <1>4, SendQuiet

LEMMA SendReadNext ==
  ASSUME TypeOK, TypeOK', Held, ReadNext
  PROVE  Held'
<1> DEFINE t == Head(timers)
           ts == Tail(timers)
<1>1. /\ timers # <<>> /\ t.kind = "read" /\ ReadFile(t.node, t.todo, stack, frames, ts)
      /\ UNCHANGED <<requests, chosen, accepted>>
  BY DEF ReadNext, history
<1>2. t = timers[1] /\ ts \in Seq(TimerType) /\ 1 \in DOMAIN timers
  BY <1>1, HeadPlaces, Lengths
<1>3. t.node \in Nat /\ t.todo \in Seq(Files)
  BY <1>1, HeadTimer
<1>4. /\ \A n \in DOMAIN ts : n + 1 \in DOMAIN timers /\ ts[n] = timers[n + 1] /\ n \in Nat \ {0}
  BY <1>1, TailTimers
<1>5. CASE t.todo = <<>>
  <2>1. UNCHANGED <<stack, loads>> /\ timers' = ts
    BY <1>1, <1>5, Zenon DEF ReadFile
  <2>2. Moved(timers', timers, 1, {}) /\ Shrinks(stack', stack)
    BY <1>1, <2>1, Lengths, TailOnly, ShrinksSame
  <2> QED
    BY <1>1, <2>1, <2>2, SendTimer
<1>6. CASE t.todo # <<>>
  <2> HIDE DEF t, ts
  <2>1. 1 \in Pending
    BY <1>1, <1>2, <1>6 DEF Pending
  <2>2. loads = {} /\ \A n \in Pending : n = 1
    BY <2>1 DEF Held, OneChain
  <2>3. \A n \in DOMAIN ts : ts[n].kind = "read" => ts[n].todo = <<>>
    <3>1. ASSUME NEW n \in DOMAIN ts, ts[n].kind = "read", ts[n].todo # <<>> PROVE FALSE
      <4>1. n + 1 \in Pending /\ n \in Nat \ {0}
        BY <1>4, <3>1 DEF Pending
      <4> QED
        BY <2>2, <4>1
    <3> QED
      BY <3>1
  <2>4. Distinct(t.todo) /\ \A k \in DOMAIN t.todo : Untouched(t.todo[k])
    BY <1>2, <2>1 DEF Held, ToCome
  <2>5. stack \in Seq(Entry) /\ Shrinks(stack, stack)
    BY Typed, ShrinksSame
  <2>6. /\ \A r \in Calling' : \E q \in Calling : r.i = q.i /\ r.file = q.file
        /\ \A f : Finishing(f) => Finishing(f)'
    <3> DEFINE k == 1
    <3>1. k \in {0, 1} /\ (k = 1 => timers # <<>> /\ Head(timers).kind = "read") /\ ts = IF k = 0 THEN timers ELSE Tail(timers)
      BY <1>1 DEF t, ts
    <3> HIDE DEF k
    <3> QED
      BY <1>1, <1>3, <3>1, ReadMoved
  <2>7. \A k \in DOMAIN t.todo : /\ t.todo[k] \in chosen' /\ t.todo[k] \notin InStack(stack) /\ t.todo[k] \notin accepted
                                 /\ \A r \in Calling : r.file # t.todo[k]
    BY <1>1, <2>4 DEF Untouched
  <2> QED
    BY <1>1, <1>2, <1>3, <2>2, <2>3, <2>4, <2>5, <2>6, <2>7, ReadStep
<1> QED
  BY <1>5, <1>6

LEMMA SendLoad ==
  ASSUME TypeOK, TypeOK', Held, NEW r \in loads, Load(r)
  PROVE  Held'
<1> DEFINE t == Later(r.node + 1, Tail(r.todo))
           todo == r.todo
<1>1. timers' = Append(timers, t) /\ loads' = loads \ {r} /\ UNCHANGED <<stack, requests, chosen, accepted>>
  BY DEF Load, history
<1>2. r \in Loads
  BY DEF TypeOK, Loads
<1>3. /\ todo \in Seq(Files) /\ todo # <<>> /\ r.node \in Nat
  BY <1>2 DEF Loads
<1>4. t.kind = "read" /\ t.todo = Tail(todo) /\ t \in TimerType
  BY <1>3 DEF Later, TimerType
<1>5. /\ DOMAIN todo = 1 .. Len(todo) /\ Len(todo) \in Nat \ {0}
      /\ Tail(todo) \in Seq(Files) /\ DOMAIN Tail(todo) = 1 .. Len(todo) - 1
      /\ \A k \in 1 .. Len(todo) - 1 : Tail(todo)[k] = todo[k + 1] /\ k + 1 \in 2 .. Len(todo) /\ k + 1 \in 1 .. Len(todo) /\ k \in Nat
  BY <1>3
<1> HIDE DEF t, todo
<1>6. loads' = {} /\ Pending = {}
  BY <1>1 DEF Held, OneChain
<1>7. timers \in Seq(TimerType)
  BY Lengths
<1> DEFINE k == 0
<1>9. k \in {0, 1} /\ Moved(timers', timers, k, {t})
  BY LoadMoves DEF t
<1> DEFINE new == {t}
<1>10. Moved(timers', timers, k, new) /\ (\A u \in new : u.kind # "success") /\ (k = 1 => FALSE)
  BY <1>4, <1>9
<1> HIDE DEF new, k
<1>11. \A q \in Calling' : \E p \in Calling : q.i = p.i /\ q.file = p.file
  BY <1>1, <1>9, <1>10, CallingMoved
<1>12. \A f : Finishing(f) => Finishing(f)'
  BY <1>9, <1>10, FinishingMoved
<1>13. ASSUME NEW f, Untouched(f) PROVE Untouched(f)'
  BY <1>1, <1>11, <1>13 DEF Untouched
<1>14. /\ Len(timers) \in Nat /\ DOMAIN timers' = 1 .. Len(timers) + 1 /\ DOMAIN timers = 1 .. Len(timers)
       /\ \A n \in 1 .. Len(timers) : timers'[n] = timers[n]
       /\ timers'[Len(timers) + 1] = t
       /\ \A n \in 1 .. Len(timers) + 1 : n \in 1 .. Len(timers) \/ n = Len(timers) + 1
  BY <1>1, <1>7
<1>15. \A n \in Pending' : n = Len(timers) + 1 /\ timers'[n].todo = Tail(todo)
  BY <1>4, <1>6, <1>14 DEF Pending
<1>16. Distinct(todo) /\ \A m \in 2 .. Len(todo) : Untouched(todo[m])
  BY DEF Held, ToCome, todo
<1>17. Distinct(Tail(todo))
  <2>1. ASSUME NEW m \in DOMAIN Tail(todo), NEW n \in DOMAIN Tail(todo), Tail(todo)[m] = Tail(todo)[n] PROVE m = n
    <3>1. m + 1 = n + 1
      BY <1>5, <1>16, <2>1 DEF Distinct
    <3>2. m \in Nat /\ n \in Nat
      BY <1>5
    <3> QED
      BY <3>1, <3>2
  <2> QED
    BY <2>1 DEF Distinct
<1>18. \A m \in DOMAIN Tail(todo) : Untouched(Tail(todo)[m])'
  BY <1>5, <1>13, <1>16
<1>19. OneChain' /\ ToCome'
  BY <1>6, <1>15, <1>17, <1>18 DEF OneChain, ToCome
<1>20. Once' /\ Claims' /\ Used' /\ Settled'
  <2>1. Once'
    BY <1>1 DEF Held, Once
  <2>2. Claims'
    BY <1>1, <1>11 DEF Held, Claims
  <2>3. Used'
    BY <1>1, <1>11 DEF Held, Used
  <2>4. Settled'
    BY <1>1, <1>12 DEF Held, Settled
  <2> QED
    BY <2>1, <2>2, <2>3, <2>4
<1> QED
  BY <1>19, <1>20 DEF Held

LEMMA SendAnswer ==
  ASSUME TypeOK, TypeOK', Held, NEW n \in DOMAIN requests, Accept(n) \/ Refuse(n) \/ Reject(n)
  PROVE  Held'
<1> DEFINE r == requests[n]
<1>1. r \in RequestType /\ IdOf(r) \in Nat /\ r.i \in Nat /\ r \in Calling
  <2>1. r \in RequestType
    BY Lengths
  <2> QED
    BY <2>1, RequestTypes DEF RequestType, Calling
<1>2. /\ requests' = Seqs!RemoveAt(requests, n) /\ UNCHANGED <<stack, loads, chosen>>
      /\ accepted' = IF Accept(n) THEN accepted \cup ({r.file} \ {None}) ELSE accepted
  BY DEF Accept, Refuse, Reject, history
<1>4. PICK new :
        /\ Moved(timers', timers, 0, new)
        /\ \A t \in new : t.kind \in {"success", "error", "complete"} /\ t.req = r
        /\ Accept(n) => \E j \in DOMAIN timers' : timers'[j].kind = "success" /\ timers'[j].req = r
  BY AnswerMoves
<1> DEFINE k == 0
<1>5. k \in {0, 1} /\ Moved(timers', timers, k, new)
  BY <1>4
<1>6. \A t \in new : t.kind \in {"error", "complete", "check"}
                       \/ (t.kind = "success" /\ \E q \in Calling : t.req.i = q.i /\ t.req.file = q.file)
  BY <1>1, <1>4
<1>8. k # 1
  OBVIOUS
<1> HIDE DEF k, r
<1>9. Settled'
  <2>1. ASSUME NEW f \in accepted', f \in InStack(stack') PROVE Finishing(f)'
    <3>1. CASE f \in accepted
      <4>1. Finishing(f)
        BY <1>2, <2>1, <3>1 DEF Held, Settled
      <4> QED
        BY <1>5, <1>8, <4>1, FinishingMoved
    <3>2. CASE f \notin accepted
      <4>1. Accept(n) /\ f = r.file
        BY <1>2, <2>1, <3>2
      <4> QED
        BY <1>4, <4>1 DEF Finishing
    <3> QED
      BY <3>1, <3>2
  <2> QED
    BY <2>1 DEF Settled
<1>10. \A m \in DOMAIN requests' : \E q \in Calling : requests'[m].i = q.i /\ requests'[m].file = q.file
  <2>1. requests \in Seq(RequestType) /\ n \in 1 .. Len(requests)
    BY Lengths
  <2>2. LET rest == Seqs!RemoveAt(requests, n)
        IN /\ rest \in Seq(RequestType) /\ Len(rest) = Len(requests) - 1
           /\ \A i \in 1 .. Len(requests) - 1 : rest[i] = IF i < n THEN requests[i] ELSE requests[i + 1]
    BY <2>1, RemoveAtProperties
  <2>3. ASSUME NEW m \in DOMAIN requests' PROVE \E j \in DOMAIN requests : requests'[m] = requests[j]
    <3>1. DOMAIN requests' = 1 .. Len(requests) - 1 /\ Len(requests) \in Nat /\ DOMAIN requests = 1 .. Len(requests)
      BY <1>2, <2>1, <2>2
    <3>2. m \in DOMAIN requests /\ m + 1 \in DOMAIN requests
      BY <3>1
    <3> QED
      BY <1>2, <2>2, <3>1, <3>2
  <2> QED
    BY <2>3 DEF Calling
<1>11. \A f \in accepted' : f \in accepted \/ (f # None /\ \E q \in Calling : q.file = f)
  BY <1>1, <1>2
<1>12. Shrinks(stack', stack)
  BY <1>2, ShrinksSame
<1> QED
  BY <1>2, <1>5, <1>6, <1>9, <1>10, <1>11, <1>12, QuietStep

-----------------------------------------------------------------------------
(* Without uploadAsync *)

LEMMA OneStep ==
  ASSUME OneByOne(requests, timers), NEW k, NEW new, Moved(timers', timers, k, new),
         \A t \in new : t.kind # "check" /\ (t.kind \in {"success", "error", "complete"} => ~t.req.all),
         \A n \in DOMAIN requests' : ~requests'[n].all
  PROVE  OneByOne(requests, timers)'
BY DEF OneByOne, Moved

LEMMA OneForgotten ==
  ASSUME TypeOK, OneByOne(requests, timers), requests' = requests \/ requests' = Forgotten
  PROVE  \A n \in DOMAIN requests' : ~requests'[n].all
<1>1. ASSUME NEW n \in DOMAIN Forgotten PROVE n \in DOMAIN requests /\ Forgotten[n].all = requests[n].all
  <2>1. n \in DOMAIN requests /\ Forgotten[n] = [requests[n] EXCEPT !.kept = FALSE] /\ requests[n] \in RequestType
    BY Lengths DEF Forgotten
  <2> QED
    BY <2>1 DEF RequestType
<1> QED
  BY <1>1 DEF OneByOne

LEMMA OneRead ==
  ASSUME TypeOK, OneByOne(requests, timers), NEW k \in {0, 1}, k = 1 => timers # <<>> /\ Head(timers).kind = "read",
         NEW tm, tm = IF k = 0 THEN timers ELSE Tail(timers),
         NEW node \in Nat, NEW todo \in Seq(Files), NEW s, NEW fr, ReadFile(node, todo, s, fr, tm),
         requests' = requests \/ requests' = Forgotten
  PROVE  OneByOne(requests, timers)'
<1>1. PICK new : Moved(timers', timers, k, new) /\ \A t \in new : t.kind = "read"
  BY ReadMoves
<1>2. \A t \in new : t.kind # "check" /\ (t.kind \in {"success", "error", "complete"} => ~t.req.all)
  BY <1>1
<1>3. \A n \in DOMAIN requests' : ~requests'[n].all
  BY OneForgotten
<1> QED
  BY <1>1, <1>2, <1>3, OneStep

\* A selection reads the first of its files, or changes nothing here.
LEMMA SelectReads ==
  ASSUME TypeOK, NEW S \in Selections, Select(S)
  PROVE  \/ UNCHANGED <<stack, frames, idx, bound, status, loads, timers>>
         \/ \E node \in Nat : \E s, fr : ReadFile(node, Fresh(S), s, fr, timers)
<1>1. Len(stack) + 1 \in Nat
  BY Typed
<1> QED
  BY <1>1 DEF Select

LEMMA OneNext ==
  ASSUME TypeOK, ~uploadAsync, OneByOne(requests, timers), [Next]_vars, "cancel" \notin events'
  PROVE  OneByOne(requests, timers)'
<1>1. \A n \in DOMAIN requests : ~requests[n].all
  BY DEF OneByOne
<1>2. ASSUME timers' = timers, \A n \in DOMAIN requests' : ~requests'[n].all PROVE OneByOne(requests, timers)'
  BY <1>2 DEF OneByOne
<1>3. CASE UNCHANGED vars
  BY <1>1, <1>2, <1>3 DEF vars
<1>4. CASE User
  <2>1. ASSUME NEW S \in Selections, Select(S) PROVE OneByOne(requests, timers)'
    <3>1. requests' = Forgotten
      BY <2>1 DEF Select
    <3>2. CASE timers' = timers
      BY <1>2, <3>1, <3>2, OneForgotten
    <3>3. ASSUME NEW node \in Nat, NEW s, NEW fr, ReadFile(node, Fresh(S), s, fr, timers) PROVE OneByOne(requests, timers)'
      <4>1. Fresh(S) \in Seq(Files)
        BY SelectionType, FreshType
      <4> DEFINE k == 0
      <4>2. k \in {0, 1} /\ (k = 1 => timers # <<>> /\ Head(timers).kind = "read") /\ timers = IF k = 0 THEN timers ELSE Tail(timers)
        OBVIOUS
      <4> HIDE DEF k
      <4> QED
        BY <3>1, <3>3, <4>1, <4>2, OneRead
    <3> QED
      BY <2>1, <3>2, <3>3, SelectReads
  <2>2. CASE UploadAll
    BY <2>2 DEF UploadAll
  <2>3. CASE UploadBatch \/ Clear \/ \E f \in Files : Remove(f)
    <3>1. (requests' = requests \/ requests' = Forgotten) /\ timers' = timers
      BY <2>3 DEF UploadBatch, Clear, Remove
    <3> QED
      BY <1>2, <3>1, OneForgotten
  <2>4. ASSUME NEW f \in Files, UploadOne(f) PROVE OneByOne(requests, timers)'
    <3> DEFINE r == Request(idx[f], FALSE)
    <3>1. requests' = Append(requests, r) /\ timers' = timers
      BY <2>4 DEF UploadOne
    <3>2. ~r.all
      BY DEF Request
    <3> HIDE DEF r
    <3>3. ASSUME NEW n \in DOMAIN requests' PROVE (n \in DOMAIN requests /\ requests'[n] = requests[n]) \/ requests'[n] = r
      BY <3>1, Lengths
    <3>4. \A n \in DOMAIN requests' : ~requests'[n].all
      BY <1>1, <3>2, <3>3
    <3> QED
      BY <1>2, <3>1, <3>4
  <2>5. ASSUME Cancel PROVE FALSE
    BY <2>5 DEF Cancel
  <2> QED
    BY <1>4, <2>1, <2>2, <2>3, <2>4, <2>5 DEF User
<1>5. CASE Server
  <2>1. ASSUME NEW n \in DOMAIN requests, Accept(n) \/ Refuse(n) \/ Reject(n) PROVE OneByOne(requests, timers)'
    <3>1. PICK new :
            /\ Moved(timers', timers, 0, new)
            /\ \A t \in new : t.kind \in {"success", "error", "complete"} /\ t.req = requests[n]
      BY <2>1, AnswerMoves
    <3>2. \A t \in new : t.kind # "check" /\ (t.kind \in {"success", "error", "complete"} => ~t.req.all)
      BY <1>1, <3>1
    <3>3. requests' = Seqs!RemoveAt(requests, n)
      BY <2>1 DEF Accept, Refuse, Reject
    <3>4. requests \in Seq(RequestType) /\ n \in 1 .. Len(requests)
      BY Lengths
    <3>5. LET rest == Seqs!RemoveAt(requests, n)
          IN /\ rest \in Seq(RequestType) /\ Len(rest) = Len(requests) - 1
             /\ \A i \in 1 .. Len(requests) - 1 : rest[i] = IF i < n THEN requests[i] ELSE requests[i + 1]
      BY <3>4, RemoveAtProperties
    <3>6. ASSUME NEW m \in DOMAIN requests' PROVE \E j \in DOMAIN requests : requests'[m] = requests[j]
      <4>1. DOMAIN requests' = 1 .. Len(requests) - 1 /\ Len(requests) \in Nat /\ DOMAIN requests = 1 .. Len(requests)
        BY <3>3, <3>4, <3>5
      <4>2. m \in DOMAIN requests /\ m + 1 \in DOMAIN requests
        BY <4>1
      <4> QED
        BY <3>3, <3>5, <4>1, <4>2
    <3>7. \A m \in DOMAIN requests' : ~requests'[m].all
      BY <1>1, <3>6
    <3> QED
      BY <3>1, <3>2, <3>7, OneStep
  <2>2. CASE AcceptBatch \/ RejectBatch \/ \E keys : AcceptPart(keys)
    <3>1. requests' = requests /\ timers' = timers
      BY <2>2, PartOver DEF AcceptBatch, RejectBatch, BatchOver
    <3> QED
      BY <1>1, <1>2, <3>1
  <2> QED
    BY <1>5, <2>1, <2>2 DEF Server
<1>6. CASE Browser
  <2>1. ASSUME NEW r \in loads, Load(r) PROVE OneByOne(requests, timers)'
    <3> DEFINE t == Later(r.node + 1, Tail(r.todo))
    <3>1. Moved(timers', timers, 0, {t}) /\ requests' = requests
      BY <2>1, LoadMoves DEF Load
    <3>2. t.kind = "read"
      BY DEF Later
    <3> HIDE DEF t
    <3> QED
      BY <1>1, <3>1, <3>2, OneStep
  <2>2. ASSUME NEW x, Faded(x) PROVE OneByOne(requests, timers)'
    <3>1. (requests' = requests \/ requests' = Forgotten) /\ timers' = timers
      BY <2>2 DEF Faded
    <3> QED
      BY <1>2, <3>1, OneForgotten
  <2>3. CASE ReadNext
    <3>1. /\ timers # <<>> /\ Head(timers).kind = "read" /\ requests' = requests
          /\ ReadFile(Head(timers).node, Head(timers).todo, stack, frames, Tail(timers))
      BY <2>3 DEF ReadNext
    <3>2. Head(timers).node \in Nat /\ Head(timers).todo \in Seq(Files)
      BY <3>1, HeadTimer
    <3> DEFINE k == 1
               tm == Tail(timers)
    <3>3. k \in {0, 1} /\ (k = 1 => timers # <<>> /\ Head(timers).kind = "read") /\ tm = IF k = 0 THEN timers ELSE Tail(timers)
      BY <3>1
    <3>4. ReadFile(Head(timers).node, Head(timers).todo, stack, frames, tm)
      BY <3>1
    <3> HIDE DEF k, tm
    <3> QED
      BY <3>1, <3>2, <3>3, <3>4, OneRead
  <2>4. CASE Success \/ Error
    <3>1. timers # <<>> /\ timers' = Tail(timers) /\ requests' = requests
      BY <2>4 DEF Success, Error, Fire
    <3>2. Moved(timers', timers, 1, {})
      BY <3>1, Lengths, TailOnly
    <3> QED
      BY <1>1, <3>1, <3>2, OneStep
  <2>5. CASE Complete
    <3>1. timers # <<>> /\ Head(timers).kind = "complete" /\ requests' = requests
      BY <2>5 DEF Complete
    <3>2. Head(timers) = timers[1] /\ 1 \in DOMAIN timers
      BY <3>1, Lengths
    <3>3. ~Head(timers).req.all
      BY <3>1, <3>2 DEF OneByOne
    <3>4. Moved(timers', timers, 1, {})
      BY <2>5, <3>3, CompleteMoves
    <3> QED
      BY <1>1, <3>1, <3>4, OneStep
  <2>6. ASSUME Check PROVE FALSE
    <3>1. Head(timers) = timers[1] /\ 1 \in DOMAIN timers /\ Head(timers).kind = "check"
      BY <2>6, Lengths DEF Check, Fire
    <3> QED
      BY <3>1 DEF OneByOne
  <2> QED
    BY <1>6, <2>1, <2>2, <2>3, <2>4, <2>5, <2>6 DEF Browser, Tick
<1> QED
  BY <1>3, <1>4, <1>5, <1>6 DEF Next

LEMMA SameOption ==
  ASSUME [Next]_vars
  PROVE  uploadAsync' = uploadAsync
<1>1. CASE UNCHANGED vars
  BY <1>1 DEF vars
<1>2. CASE User
  BY <1>2 DEF User, Select, UploadAll, UploadBatch, UploadOne, Remove, Cancel, Clear
<1>3. CASE Server
  BY <1>3 DEF Server, Accept, Refuse, Reject, AcceptBatch, AcceptPart, RejectBatch, BatchOver
<1>4. CASE Browser
  BY <1>4 DEF Browser, Tick, Load, Faded, ReadNext, Success, Error, Complete, Check
<1> QED
  BY <1>1, <1>2, <1>3, <1>4 DEF Next

LEMMA NoBatch ==
  ASSUME uploadAsync, batch = None, [Next]_vars, "cancel" \notin events'
  PROVE  batch' = None
<1>1. CASE UNCHANGED vars
  BY <1>1 DEF vars
<1>2. CASE User
  BY <1>2 DEF User, Select, UploadAll, UploadBatch, UploadOne, Remove, Cancel, Clear, BatchForgotten
<1>3. CASE Server
  BY <1>3 DEF Server, Accept, Refuse, Reject, AcceptBatch, AcceptPart, RejectBatch
<1>4. CASE Browser
  BY <1>4 DEF Browser, Tick, Load, Faded, ReadNext, Success, Error, Complete, Check, BatchForgotten
<1> QED
  BY <1>1, <1>2, <1>3, <1>4 DEF Next

LEMMA ModeNext ==
  ASSUME TypeOK, ModeInv, [Next]_vars
  PROVE  ModeInv'
<1>1. SUFFICES ASSUME "cancel" \notin events' PROVE IF uploadAsync' THEN batch' = None ELSE OneByOne(requests, timers)'
  BY DEF ModeInv
<1>2. "cancel" \notin events /\ uploadAsync' = uploadAsync
  BY <1>1, EventsGrow, SameOption
<1> QED
  BY <1>1, <1>2, OneNext, NoBatch DEF ModeInv

\* What is to be read comes with the timers that stay.
LEMMA ReadingMoved ==
  ASSUME ~Reading, loads' = loads, NEW k, NEW new, Moved(timers', timers, k, new), \A t \in new : t.kind # "read"
  PROVE  ~Reading'
BY DEF Reading, Moved

LEMMA LockNext ==
  ASSUME TypeOK, ModeInv, LockInv, [Next]_vars
  PROVE  LockInv'
<1>1. SUFFICES ASSUME ~uploadAsync', ~Happened({"overlap", "cancel"})' PROVE Closed'
  BY DEF LockInv
<1>2. ~uploadAsync /\ ~Happened({"overlap", "cancel"}) /\ "cancel" \notin events' /\ "cancel" \notin events /\ "overlap" \notin events'
  BY <1>1, EventsGrow, SameOption DEF Happened
<1>3. Closed /\ OneByOne(requests, timers)
  BY <1>2 DEF LockInv, ModeInv
<1>4. ASSUME UNCHANGED <<events, isDisabled, off, frames, loads>>, NEW k, NEW new, Moved(timers', timers, k, new), \A t \in new : t.kind # "read"
      PROVE  Closed'
  BY <1>3, <1>4, ReadingMoved DEF Closed, Shown
<1>5. timers' = timers => Moved(timers', timers, 0, {})
  BY Lengths, MovedSame
<1>6. CASE UNCHANGED vars
  BY <1>4, <1>5, <1>6 DEF vars, thumbs, history
<1>7. CASE User
  <2>1. ASSUME NEW S \in Selections, Select(S) PROVE Closed'
    BY <1>3, <2>1 DEF Select, Closed
  <2>2. CASE UploadAll
    BY <1>2, <2>2 DEF UploadAll
  <2>3. CASE UploadBatch
    <3>1. off' = Shown /\ Shown' = Shown /\ ~Reading /\ UNCHANGED <<loads, timers>> /\ ("retry" \in events' => "retry" \in events)
      BY <1>2, <2>3 DEF UploadBatch, Shown
    <3> QED
      BY <1>3, <3>1 DEF Closed, Reading
  <2>4. ASSUME NEW f \in Files, UploadOne(f) PROVE Closed'
    <3>1. off' = Shown /\ Shown' = Shown /\ ~Reading /\ UNCHANGED <<loads, timers>> /\ f \in Shown \ off
      BY <1>2, <2>4 DEF UploadOne, Shown
    <3>2. ~isDisabled
      BY <1>3, <3>1 DEF Closed
    <3>3. "retry" \in events' => "retry" \in events
      BY <1>2, <2>4, <3>2 DEF UploadOne
    <3> QED
      BY <1>3, <3>1, <3>3 DEF Closed, Reading
  <2>5. ASSUME NEW f \in Files, Remove(f) PROVE Closed'
    BY <1>4, <1>5, <2>5 DEF Remove, thumbs
  <2>6. ASSUME Cancel PROVE FALSE
    BY <1>2, <2>6 DEF Cancel
  <2>7. CASE Clear
    BY <1>3, <2>7 DEF Clear, Closed
  <2> QED
    BY <1>7, <2>1, <2>2, <2>3, <2>4, <2>5, <2>6, <2>7 DEF User
<1>8. CASE Server
  <2>1. ASSUME NEW n \in DOMAIN requests, Accept(n) \/ Refuse(n) \/ Reject(n) PROVE Closed'
    <3>1. PICK new :
            /\ Moved(timers', timers, 0, new)
            /\ \A t \in new : t.kind \in {"success", "error", "complete"} /\ t.req = requests[n]
      BY <2>1, AnswerMoves
    <3>2. UNCHANGED <<events, isDisabled, off, frames, loads>>
      BY <2>1 DEF Accept, Refuse, Reject, thumbs, history
    <3>3. \A t \in new : t.kind # "read"
      BY <3>1
    <3> QED
      BY <1>4, <3>1, <3>2, <3>3
  <2>2. ASSUME NEW s, NEW st, BatchOver(s, st) PROVE Closed'
    <3>1. isDisabled' = FALSE /\ ("retry" \in events' => "retry" \in events)
      BY <2>2 DEF BatchOver, Unlock, Enable
    <3> QED
      BY <1>3, <3>1 DEF Closed
  <2> QED
    BY <1>8, <2>1, <2>2, PartOver DEF Server, AcceptBatch, RejectBatch
<1>9. CASE Browser
  <2>1. ASSUME NEW r \in loads, Load(r) PROVE Closed'
    <3>1. Reading /\ isDisabled' = isDisabled /\ events' = events
      BY <2>1 DEF Load, Reading, history
    <3> QED
      BY <1>3, <3>1 DEF Closed
  <2>2. ASSUME NEW x, Faded(x) PROVE Closed'
    <3> DEFINE S == Files \ {x[1]}
    <3>1. /\ UNCHANGED <<isDisabled, off, loads, timers>> /\ frames' = Only(frames, S)
          /\ ("retry" \in events' => "retry" \in events)
      BY <2>2 DEF Faded
    <3>2. frames \in Seq(Files)
      BY Typed
    <3>3. \A e : (\E n \in DOMAIN Only(frames, S) : Only(frames, S)[n] = e) <=> (e \in S /\ \E i \in DOMAIN frames : frames[i] = e)
      BY <3>2, OnlyElements
    <3> HIDE DEF S
    <3>4. Shown' \subseteq Shown
      BY <3>1, <3>3 DEF Shown
    <3> QED
      BY <1>3, <3>1, <3>4 DEF Closed, Reading
  <2>3. CASE ReadNext
    <3>1. /\ timers # <<>> /\ Head(timers).kind = "read" /\ UNCHANGED <<isDisabled, off, events>>
          /\ ReadFile(Head(timers).node, Head(timers).todo, stack, frames, Tail(timers))
      BY <2>3 DEF ReadNext, history
    <3>2. CASE isDisabled
      <4>1. Head(timers) = timers[1] /\ 1 \in DOMAIN timers
        BY <3>1, Lengths
      <4>2. Head(timers).todo = <<>>
        BY <1>3, <3>1, <3>2, <4>1 DEF Closed, Reading
      <4>3. UNCHANGED <<frames, loads>> /\ timers' = Tail(timers)
        BY <3>1, <4>2, Zenon DEF ReadFile
      <4>4. Moved(timers', timers, 1, {})
        BY <3>1, <4>3, Lengths, TailOnly
      <4> QED
        BY <1>4, <3>1, <4>3, <4>4
    <3>3. CASE ~isDisabled
      BY <1>3, <3>1, <3>3 DEF Closed
    <3> QED
      BY <3>2, <3>3
  <2>4. CASE Success \/ Error
    <3>1. timers # <<>> /\ timers' = Tail(timers) /\ UNCHANGED <<events, isDisabled, off, frames, loads>>
      BY <2>4 DEF Success, Error, Fire, history
    <3>2. Moved(timers', timers, 1, {})
      BY <3>1, Lengths, TailOnly
    <3> QED
      BY <1>4, <3>1, <3>2
  <2>5. CASE Complete
    <3>1. timers # <<>> /\ Head(timers).kind = "complete" /\ events' = events
      BY <2>5 DEF Complete, history
    <3>2. Head(timers) = timers[1] /\ 1 \in DOMAIN timers
      BY <3>1, Lengths
    <3>3. ~Head(timers).req.all
      BY <1>3, <3>1, <3>2 DEF OneByOne
    <3>4. isDisabled' = FALSE
      BY <2>5, <3>3 DEF Complete, Enable
    <3> QED
      BY <1>3, <3>1, <3>4 DEF Closed
  <2>6. ASSUME Check PROVE FALSE
    <3>1. Head(timers) = timers[1] /\ 1 \in DOMAIN timers /\ Head(timers).kind = "check"
      BY <2>6, Lengths DEF Check, Fire
    <3> QED
      BY <1>3, <3>1 DEF OneByOne
  <2> QED
    BY <1>9, <2>1, <2>2, <2>3, <2>4, <2>5, <2>6 DEF Browser, Tick
<1> QED
  BY <1>6, <1>7, <1>8, <1>9 DEF Next

-----------------------------------------------------------------------------
(* The thumbnails of an answer *)

LEMMA RisingSame ==
  ASSUME TypeOK, Rising(frames), UNCHANGED <<frames, idx, bound>>, \A t \in Shown : status'[t] # "Success" => status[t] # "Success"
  PROVE  Rising(frames)'
<1>1. Thumbs(frames) = Shown /\ \A n \in DOMAIN frames : frames[n] \in Shown
  BY Typed DEF Shown
<1> QED
  BY <1>1 DEF Rising, Thumbs

LEMMA RisingFewer ==
  ASSUME TypeOK, Rising(frames), NEW S, frames' = Only(frames, S), UNCHANGED <<idx, bound, status>>
  PROVE  Rising(frames)'
<1> DEFINE o == Only(frames, S)
<1>1. frames \in Seq(Files)
  BY Typed
<1>2. PICK p \in [DOMAIN o -> Places(frames, S)] :
        /\ \A n \in DOMAIN o : o[n] = frames[p[n]]
        /\ \A m, n \in DOMAIN o : m < n => p[m] < p[n]
  BY <1>1, OnlyOrdered
<1>3. frames' = o
  OBVIOUS
<1> HIDE DEF o
<1>4. \A n \in DOMAIN o : p[n] \in DOMAIN frames /\ o[n] = frames[p[n]]
  BY <1>2 DEF Places
<1>5. \A t \in Thumbs(frames') : t \in Thumbs(frames)
  BY <1>3, <1>4 DEF Thumbs
<1>6. \A m, n \in DOMAIN frames' :
        m < n /\ status[frames'[m]] # "Success" /\ status[frames'[n]] # "Success" => idx[frames'[m]] < idx[frames'[n]]
  BY <1>2, <1>3, <1>4 DEF Rising
<1> QED
  BY <1>5, <1>6 DEF Rising

\* A new thumbnail gets a number behind all of them.
LEMMA RisingMore ==
  ASSUME TypeOK, NEW fr \in Seq(Files), Rising(fr), NEW h \in Files, h \notin Thumbs(fr), NEW node \in Nat, node > 0,
         frames' = Append(fr, h), idx' = [idx EXCEPT ![h] = node], bound' = Bind(frames', idx'),
         \A t \in Thumbs(fr) : status[t] # "Success" => idx[t] > 0 /\ idx[t] < node,
         NEW x, status' = [status EXCEPT ![h] = x]
  PROVE  Rising(frames)'
<1>1. /\ Len(fr) \in Nat /\ DOMAIN fr = 1 .. Len(fr) /\ DOMAIN frames' = 1 .. Len(fr) + 1
      /\ frames'[Len(fr) + 1] = h /\ \A n \in 1 .. Len(fr) : frames'[n] = fr[n]
  OBVIOUS
<1>2. idx \in [Files -> Nat] /\ status \in [Files -> Statuses] /\ \A n \in 1 .. Len(fr) : fr[n] \in Files /\ fr[n] \in Thumbs(fr) /\ fr[n] # h
  <2>1. \A n \in 1 .. Len(fr) : fr[n] \in Files /\ fr[n] \in Thumbs(fr)
    BY <1>1 DEF Thumbs
  <2> QED
    BY <2>1 DEF TypeOK, Statuses
<1>3. idx'[h] = node /\ \A t \in Files : t # h => idx'[t] = idx[t] /\ status'[t] = status[t]
  BY <1>2
<1>4. \A n \in DOMAIN frames' : bound'[frames'[n]] = idx'[frames'[n]]
  <2>1. \A n \in DOMAIN frames' : frames'[n] \in Files
    BY <1>1, <1>2
  <2> QED
    BY <2>1 DEF Bind
<1>5. ASSUME NEW n \in DOMAIN frames', status'[frames'[n]] # "Success" PROVE bound'[frames'[n]] > 0
  <2>1. CASE n = Len(fr) + 1
    <3>1. frames'[n] = h
      BY <1>1, <2>1
    <3>2. bound'[frames'[n]] = node
      BY <1>3, <1>4, <3>1, Zenon
    <3> QED
      BY <3>2
  <2>2. CASE n \in 1 .. Len(fr)
    <3>1. status[fr[n]] # "Success" /\ idx'[fr[n]] = idx[fr[n]]
      BY <1>1, <1>2, <1>3, <1>5, <2>2
    <3>2. idx[fr[n]] > 0
      BY <1>2, <2>2, <3>1
    <3>3. frames'[n] = fr[n]
      BY <1>1, <2>2
    <3>4. bound'[frames'[n]] = idx[fr[n]]
      BY <1>4, <3>1, <3>3, Zenon
    <3> QED
      BY <3>2, <3>4
  <2> QED
    BY <1>1, <2>1, <2>2
<1>6. ASSUME NEW m \in DOMAIN frames', NEW n \in DOMAIN frames', m < n, status'[frames'[m]] # "Success", status'[frames'[n]] # "Success"
      PROVE  idx'[frames'[m]] < idx'[frames'[n]]
  <2>1. m \in 1 .. Len(fr) /\ (n \in 1 .. Len(fr) \/ n = Len(fr) + 1)
    BY <1>1, <1>6
  <2>2. frames'[m] = fr[m] /\ status[fr[m]] # "Success" /\ idx'[fr[m]] = idx[fr[m]]
    BY <1>1, <1>2, <1>3, <1>6, <2>1
  <2>3. CASE n \in 1 .. Len(fr)
    <3>1. frames'[n] = fr[n] /\ status[fr[n]] # "Success" /\ idx'[fr[n]] = idx[fr[n]]
      BY <1>1, <1>2, <1>3, <1>6, <2>3
    <3>2. idx[fr[m]] < idx[fr[n]]
      BY <1>1, <1>6, <2>1, <2>2, <2>3, <3>1 DEF Rising
    <3> QED
      BY <2>2, <3>1, <3>2
  <2>4. CASE n = Len(fr) + 1
    <3>1. idx[fr[m]] < node
      BY <1>2, <2>1, <2>2
    <3> QED
      BY <1>1, <1>3, <2>2, <2>4, <3>1
  <2> QED
    BY <2>1, <2>3, <2>4
<1>7. \A t \in Thumbs(frames') : \E n \in DOMAIN frames' : frames'[n] = t
  BY DEF Thumbs
<1>8. ASSUME NEW t \in Thumbs(frames'), status'[t] # "Success" PROVE bound'[t] > 0
  <2>1. PICK n \in DOMAIN frames' : frames'[n] = t
    BY <1>7
  <2> QED
    BY <1>5, <1>8, <2>1
<1> QED
  BY <1>6, <1>8 DEF Rising

LEMMA RisingRead ==
  ASSUME TypeOK, NEW fr \in Seq(Files), Rising(fr), NEW node \in Nat, node > 0, NEW todo \in Seq(Files), NEW s, NEW tm,
         ReadFile(node, todo, s, fr, tm), todo # <<>> => Head(todo) \notin Thumbs(fr),
         \A t \in Thumbs(fr) : status[t] # "Success" => idx[t] > 0 /\ idx[t] < node
  PROVE  Rising(frames)'
<1>1. CASE todo = <<>> \/ Head(todo) \in Valid
  <2>1. frames' = fr /\ UNCHANGED <<idx, bound, status>>
    BY <1>1, Zenon DEF ReadFile
  <2> QED
    BY <2>1 DEF Rising, Thumbs
<1>2. CASE todo # <<>> /\ Head(todo) \notin Valid
  <2> DEFINE h == Head(todo)
  <2>1. /\ frames' = Append(fr, h) /\ idx' = [idx EXCEPT ![h] = node] /\ bound' = Bind(frames', idx')
        /\ status' = [status EXCEPT ![h] = "Error"]
    BY <1>2, Zenon DEF ReadFile
  <2>2. h \in Files /\ h \notin Thumbs(fr)
    BY <1>2
  <2> HIDE DEF h
  <2> QED
    BY <2>1, <2>2, RisingMore
<1> QED
  BY <1>1, <1>2

\* What is still to be dealt with has a number within the stack.
LEMMA RisingPlaces ==
  ASSUME TypeOK, Sound, Rising(frames), NEW t \in Shown, status[t] # "Success"
  PROVE  idx[t] \in 1 .. Len(stack) /\ bound[t] = idx[t] /\ stack[idx[t]] \in {None, t}
<1>1. bound[t] > 0
  BY Typed DEF Rising
<1>2. t \in Thumbs(frames) /\ idx[t] \in Nat /\ Len(stack) \in Nat
  BY Typed
<1>3. bound[t] = idx[t] /\ idx[t] <= Len(stack)
  BY <1>1, <1>2 DEF Sound, Linkage, Indexed
<1>4. idx[t] > 0
  BY <1>1, <1>3
<1>5. stack[idx[t]] \in {None, t}
  BY <1>2, <1>4 DEF Sound, Linkage, Indexed
<1> QED
  BY <1>2, <1>3, <1>4, <1>5

LEMMA RisingLoad ==
  ASSUME TypeOK, Sound, Rising(frames), NEW r \in loads, Load(r)
  PROVE  Rising(frames)'
<1> DEFINE h == Head(r.todo)
<1>1. /\ r.node = Len(stack) /\ stack # <<>> /\ stack[r.node] = h /\ h \in Valid /\ h \notin Shown
  BY DEF Sound, Read, LoadInv
<1>2. /\ frames' = Append(frames, h) /\ idx' = [idx EXCEPT ![h] = r.node] /\ bound' = Bind(frames', idx')
      /\ status' = [status EXCEPT ![h] = "New"]
  BY DEF Load
<1> HIDE DEF h
<1>3. h \in Files /\ h # None /\ frames \in Seq(Files) /\ Thumbs(frames) = Shown /\ Len(stack) \in Nat
  BY <1>1, Typed, FilesAssumption
<1>4. Len(stack) > 0
  BY <1>1, <1>3, Typed, EmptySeq
<1>5. ASSUME NEW t \in Thumbs(frames), status[t] # "Success" PROVE idx[t] > 0 /\ idx[t] < r.node
  <2>1. idx[t] \in 1 .. Len(stack) /\ stack[idx[t]] \in {None, t}
    BY <1>3, <1>5, RisingPlaces
  <2>2. idx[t] # Len(stack)
    BY <1>1, <1>3, <2>1
  <2> QED
    BY <1>1, <1>3, <2>1, <2>2
<1> DEFINE node == r.node
<1>6. node \in Nat /\ node > 0 /\ h \notin Thumbs(frames)
  BY <1>1, <1>3, <1>4
<1> HIDE DEF node
<1>7. idx' = [idx EXCEPT ![h] = node] /\ \A t \in Thumbs(frames) : status[t] # "Success" => idx[t] > 0 /\ idx[t] < node
  BY <1>2, <1>5 DEF node
<1> QED
  BY <1>2, <1>3, <1>6, <1>7, RisingMore

LEMMA RisingSelect ==
  ASSUME TypeOK, Sound, Rising(frames), NEW S \in Selections, Select(S)
  PROVE  Rising(frames)'
<1>1. CASE NoneTaken(S)
  <2>1. UNCHANGED <<frames, idx, bound, status>>
    BY <1>1 DEF Select
  <2> QED
    BY <2>1, RisingSame
<1>2. CASE ~NoneTaken(S)
  <2> DEFINE todo == Fresh(S)
  <2>1. todo \in Seq(Files) /\ todo # <<>> /\ \A k \in DOMAIN todo : todo[k] \notin Shown
    BY <1>2, FreshAhead DEF Sound, NoneTaken
  <2>2. ReadFile(Len(stack) + 1, todo, stack, frames, timers) \/ (stack = <<>> /\ ReadFile(1, todo, <<>>, Only(frames, {f \in Files : status[f] = "Success"}), timers))
    BY <1>2 DEF Select
  <2> HIDE DEF todo
  <2>3. Head(todo) \notin Shown
    <3>1. 1 \in DOMAIN todo /\ Head(todo) = todo[1]
      BY <2>1
    <3> QED
      BY <2>1, <3>1
  <2>4. frames \in Seq(Files) /\ Thumbs(frames) = Shown /\ Len(stack) \in Nat
    BY Typed
  <2>5. CASE ReadFile(Len(stack) + 1, todo, stack, frames, timers)
    <3>1. \A t \in Thumbs(frames) : status[t] # "Success" => idx[t] > 0 /\ idx[t] < Len(stack) + 1
      BY <2>4, RisingPlaces
    <3>2. Len(stack) + 1 \in Nat /\ Len(stack) + 1 > 0
      BY <2>4
    <3> QED
      BY <2>1, <2>3, <2>4, <2>5, <3>1, <3>2, RisingRead
  <2>6. CASE stack = <<>> /\ ReadFile(1, todo, <<>>, Only(frames, {f \in Files : status[f] = "Success"}), timers)
    <3> DEFINE W == {f \in Files : status[f] = "Success"}
               fr == Only(frames, W)
    <3>1. fr \in Seq(Files) /\ Thumbs(fr) \subseteq Thumbs(frames)
      BY <2>6, FreshStart DEF Sound
    <3>2. \A e : (\E n \in DOMAIN Only(frames, W) : Only(frames, W)[n] = e) => e \in W
      BY <2>4, OnlyElements
    <3>3. \A t \in Thumbs(fr) : status[t] = "Success"
      BY <3>2 DEF Thumbs
    <3>4. \A n \in DOMAIN fr : fr[n] \in Thumbs(fr)
      BY DEF Thumbs
    <3>5. ReadFile(1, todo, <<>>, fr, timers)
      BY <2>6
    <3> HIDE DEF fr, W
    <3>6. Rising(fr)
      BY <3>3, <3>4 DEF Rising
    <3> DEFINE node == 1
               s == <<>>
    <3>7. node \in Nat /\ node > 0 /\ ReadFile(node, todo, s, fr, timers)
      BY <3>5
    <3> HIDE DEF node, s
    <3> QED
      BY <2>1, <2>3, <2>4, <3>1, <3>3, <3>6, <3>7, RisingRead
  <2> QED
    BY <2>2, <2>5, <2>6
<1> QED
  BY <1>1, <1>2

LEMMA RisingReadNext ==
  ASSUME TypeOK, Sound, Rising(frames), ReadNext
  PROVE  Rising(frames)'
<1> DEFINE t == Head(timers)
<1>1. timers # <<>> /\ t.kind = "read" /\ ReadFile(t.node, t.todo, stack, frames, Tail(timers))
  BY DEF ReadNext
<1>2. t = timers[1] /\ 1 \in DOMAIN timers /\ t.todo \in Seq(Files) /\ t.node \in Nat
  BY <1>1, HeadTimer, Lengths
<1>3. frames \in Seq(Files) /\ Thumbs(frames) = Shown /\ Len(stack) \in Nat
  BY Typed
<1> HIDE DEF t
<1>4. CASE t.todo = <<>>
  <2>1. UNCHANGED <<frames, idx, bound, status>>
    BY <1>1, <1>4, Zenon DEF ReadFile
  <2> QED
    BY <2>1, RisingSame
<1>5. CASE t.todo # <<>>
  <2>1. 1 \in Pending
    BY <1>1, <1>2, <1>5 DEF Pending
  <2>2. t.node = Len(stack) + 1 /\ \A k \in DOMAIN t.todo : Ahead(t.todo[k])
    BY <1>2, <2>1 DEF Sound, Read, PendingInv
  <2> DEFINE todo == t.todo
             node == t.node
  <2>3. todo \in Seq(Files) /\ todo # <<>> /\ node \in Nat /\ node > 0 /\ ReadFile(node, todo, stack, frames, Tail(timers))
    BY <1>1, <1>2, <1>3, <1>5, <2>2
  <2>4. \A s \in Shown : status[s] # "Success" => idx[s] > 0 /\ idx[s] < node
    BY <1>3, <2>2, RisingPlaces
  <2>5. \A k \in DOMAIN todo : todo[k] \notin Shown
    BY <2>2 DEF Ahead
  <2> HIDE DEF todo, node
  <2>6. 1 \in DOMAIN todo /\ Head(todo) = todo[1]
    BY <2>3
  <2> QED
    BY <1>3, <2>3, <2>4, <2>5, <2>6, RisingRead
<1> QED
  BY <1>4, <1>5

LEMMA RisingOver ==
  ASSUME TypeOK, Sound, Rising(frames), Undisturbed', NEW s, NEW st, BatchOver(s, st),
         \A t \in Shown : st[t] # "Success" => status[t] # "Success"
  PROVE  Rising(frames)'
<1>1. status' = st /\ BindSuccess(st) /\ frames' = frames /\ ~Stale
  BY DEF BatchOver, Undisturbed, Happened
<1>2. Thumbs(frames) = Shown /\ Shown \subseteq Files /\ \A n \in DOMAIN frames : frames[n] \in Shown
  BY Typed DEF Shown
<1>3. ASSUME NEW t \in Shown, st[t] # "Success" PROVE status[t] # "Success" /\ bound'[t] > 0 /\ idx'[t] = idx[t]
  <2>1. status[t] # "Success"
    BY <1>3
  <2>2. bound[t] = idx[t] /\ idx[t] \in 1 .. Len(stack) /\ Len(stack) \in Nat
    BY <2>1, RisingPlaces, Typed
  <2>3. bound'[t] = bound[t]
    BY <1>1, <1>2, <1>3 DEF BindSuccess
  <2>4. bound'[t] > 0
    BY <2>2, <2>3
  <2>5. bound'[t] = idx'[t]
    BY <1>1, <2>4 DEF Stale
  <2> QED
    BY <2>1, <2>2, <2>3, <2>4, <2>5
<1>4. \A t \in Thumbs(frames') : status'[t] # "Success" => bound'[t] > 0
  BY <1>1, <1>2, <1>3
<1>5. ASSUME NEW m \in DOMAIN frames', NEW n \in DOMAIN frames', m < n, status'[frames'[m]] # "Success", status'[frames'[n]] # "Success"
      PROVE  idx'[frames'[m]] < idx'[frames'[n]]
  <2>1. frames[m] \in Shown /\ frames[n] \in Shown /\ st[frames[m]] # "Success" /\ st[frames[n]] # "Success"
    BY <1>1, <1>2, <1>5
  <2>2. idx'[frames[m]] = idx[frames[m]] /\ idx'[frames[n]] = idx[frames[n]] /\ status[frames[m]] # "Success" /\ status[frames[n]] # "Success"
    BY <1>3, <2>1
  <2>3. idx[frames[m]] < idx[frames[n]]
    BY <1>1, <1>5, <2>2 DEF Rising
  <2> QED
    BY <1>1, <2>2, <2>3
<1> QED
  BY <1>4, <1>5 DEF Rising

LEMMA RisingSettled ==
  ASSUME TypeOK, Control, Sound, Rising(frames), Success \/ Error
  PROVE  Rising(frames)'
<1> DEFINE r == Head(timers).req
<1>1. /\ timers # <<>> /\ Head(timers).kind \in {"success", "error"} /\ UNCHANGED <<frames, idx, bound>>
      /\ (Success /\ status' = SetStatus(r.thumb, "Success")) \/ (Error /\ status' = SetStatus(r.thumb, "Error"))
  BY DEF Success, Error, Fire
<1>2. Open(r)
  BY <1>1, SettledRequest
<1> HIDE DEF r
<1>3. r.thumb \in Shown /\ r.thumb \in InStack(stack) /\ r.thumb \in Files /\ r.thumb # None
  <2>1. r.thumb \in Shown /\ r.i \in DOMAIN stack /\ stack[r.i] = r.thumb
    BY <1>2 DEF Open
  <2>2. r.thumb \in Files /\ r.thumb # None
    BY <2>1, Typed
  <2> QED
    BY <2>1, <2>2 DEF InStack
<1>4. status[r.thumb] # "Success"
  BY <1>3, Typed DEF Sound, Linkage, Marked
<1>5. \A t \in Files : t # r.thumb => status'[t] = status[t]
  BY <1>1, <1>3 DEF SetStatus, TypeOK
<1>6. \A t \in Shown : status'[t] # "Success" => status[t] # "Success"
  BY <1>4, <1>5, Typed
<1> QED
  BY <1>1, <1>6, RisingSame

LEMMA RisingBatch ==
  ASSUME TypeOK, Sound, Rising(frames), Undisturbed', AcceptBatch \/ RejectBatch \/ \E keys : AcceptPart(keys)
  PROVE  Rising(frames)'
<1>1. Shown \subseteq Files
  BY Typed
<1>2. CASE AcceptBatch
  <2> DEFINE st == [f \in Files |-> IF f \in Shown THEN "Success" ELSE status[f]]
  <2>1. BatchOver(Emptied, st)
    BY <1>2 DEF AcceptBatch
  <2>2. \A t \in Shown : st[t] # "Success" => status[t] # "Success"
    BY <1>1
  <2> HIDE DEF st
  <2> QED
    BY <2>1, <2>2, RisingOver
<1>3. CASE RejectBatch
  <2> DEFINE st == FailedBatch
  <2>1. BatchOver(stack, st)
    BY <1>3 DEF RejectBatch
  <2>2. ASSUME NEW t \in Shown, st[t] # "Success" PROVE status[t] # "Success"
    <3>1. st[t] = IF At(stack, idx[t]) # None THEN "Error" ELSE status[t]
      BY <1>1 DEF FailedBatch
    <3>2. CASE At(stack, idx[t]) # None
      <4>1. idx[t] \in DOMAIN stack /\ stack[idx[t]] # None
        BY <3>2 DEF At
      <4>2. idx[t] > 0
        BY <4>1, Typed
      <4>3. stack[idx[t]] = t
        BY <4>1, <4>2, Typed DEF Sound, Linkage, Indexed
      <4>4. t \in InStack(stack)
        BY <4>1, <4>3 DEF InStack
      <4> QED
        BY <4>4, Typed DEF Sound, Linkage, Marked
    <3>3. CASE At(stack, idx[t]) = None
      BY <2>2, <3>1, <3>3
    <3> QED
      BY <3>2, <3>3
  <2> HIDE DEF st
  <2> QED
    BY <2>1, <2>2, RisingOver
<1>4. ASSUME NEW keys, AcceptPart(keys) PROVE Rising(frames)'
  <2> DEFINE st == PartStatus(keys)
  <2>1. BatchOver(PartLeft(keys), st)
    BY <1>4, PartOver
  <2>2. ASSUME NEW t \in Shown, st[t] # "Success" PROVE status[t] # "Success"
    <3>1. IsMarked(t) <=> status[t] # "Success"
      BY UnmarkedAre DEF IsMarked
    <3>2. ~IsMarked(t) => st[t] = status[t]
      BY <1>1 DEF PartStatus
    <3> QED
      BY <2>2, <3>1, <3>2
  <2> HIDE DEF st
  <2> QED
    BY <2>1, <2>2, RisingOver
<1> QED
  BY <1>2, <1>3, <1>4

LEMMA RisingUser ==
  ASSUME TypeOK, Sound, Rising(frames), ~uploadAsync, Undisturbed', User
  PROVE  Rising(frames)'
<1>1. ASSUME NEW S \in Selections, Select(S) PROVE Rising(frames)'
  BY <1>1, RisingSelect
<1>2. CASE UploadAll
  BY <1>2 DEF UploadAll
<1>3. ASSUME NEW set, status' = Loading(set), UNCHANGED <<frames, idx, bound>> PROVE Rising(frames)'
  <2>1. \A t \in Shown : status'[t] # "Success" => status[t] # "Success"
    BY <1>3, Typed DEF Loading
  <2> QED
    BY <1>3, <2>1, RisingSame
<1>4. CASE UploadBatch
  <2>1. status' = Loading(Shown) /\ UNCHANGED <<frames, idx, bound>>
    BY <1>4 DEF UploadBatch
  <2> QED
    BY <1>3, <2>1
<1>5. ASSUME NEW f \in Files, UploadOne(f) PROVE Rising(frames)'
  <2> DEFINE set == {Request(idx[f], FALSE).thumb}
  <2>1. status' = Loading(set) /\ UNCHANGED <<frames, idx, bound>>
    BY <1>5 DEF UploadOne
  <2> HIDE DEF set
  <2> QED
    BY <1>3, <2>1
<1>6. ASSUME NEW f \in Files, Remove(f) PROVE Rising(frames)'
  <2>1. UNCHANGED <<frames, idx, bound, status>>
    BY <1>6 DEF Remove, thumbs
  <2> QED
    BY <2>1, RisingSame
<1>7. ASSUME Cancel PROVE FALSE
  BY <1>7 DEF Cancel, Undisturbed, Happened
<1>8. CASE Clear
  <2>1. frames' = <<>>
    BY <1>8 DEF Clear
  <2>2. DOMAIN frames' = {} /\ Thumbs(frames') = {}
    BY <2>1 DEF Thumbs
  <2> QED
    BY <2>2 DEF Rising
<1> QED
  BY <1>1, <1>2, <1>4, <1>5, <1>6, <1>7, <1>8 DEF User

LEMMA RisingBrowser ==
  ASSUME TypeOK, Control, Sound, Rising(frames), OneByOne(requests, timers), Undisturbed', Browser
  PROVE  Rising(frames)'
<1>1. ASSUME NEW r \in loads, Load(r) PROVE Rising(frames)'
  BY <1>1, RisingLoad
<1>2. ASSUME NEW x, Faded(x) PROVE Rising(frames)'
  <2> DEFINE S == Files \ {x[1]}
  <2>1. frames' = Only(frames, S) /\ UNCHANGED <<idx, bound, status>>
    BY <1>2 DEF Faded
  <2> HIDE DEF S
  <2> QED
    BY <2>1, RisingFewer
<1>3. CASE ReadNext
  BY <1>3, RisingReadNext
<1>4. CASE Success \/ Error
  BY <1>4, RisingSettled
<1>5. CASE Complete
  <2>1. BindSuccess(status) /\ UNCHANGED <<frames, idx, status>>
    BY <1>5 DEF Complete
  <2>2. \A t \in Shown : status[t] # "Success" => bound'[t] = bound[t]
    BY <2>1, Typed DEF BindSuccess
  <2>3. Thumbs(frames) = Shown
    BY Typed
  <2>4. \A t \in Thumbs(frames') : status'[t] # "Success" => bound'[t] > 0
    BY <2>1, <2>2, <2>3 DEF Rising
  <2> QED
    BY <2>1, <2>4 DEF Rising
<1>6. ASSUME Check PROVE FALSE
  <2>1. Head(timers) = timers[1] /\ 1 \in DOMAIN timers /\ Head(timers).kind = "check"
    BY <1>6, Lengths DEF Check, Fire
  <2> QED
    BY <2>1 DEF OneByOne
<1> QED
  BY <1>1, <1>2, <1>3, <1>4, <1>5, <1>6 DEF Browser, Tick

LEMMA RisingNext ==
  ASSUME TypeOK, ControlInv, LinkInv, ModeInv, RisingInv, [Next]_vars
  PROVE  RisingInv'
<1>1. SUFFICES ASSUME ~uploadAsync', Undisturbed' PROVE Rising(frames)'
  BY DEF RisingInv
<1>2. ControlInv' /\ uploadAsync' = uploadAsync
  BY ControlNext, SameOption
<1>3. Undisturbed /\ Control /\ Control' /\ ~uploadAsync
  BY <1>1, <1>2, Quietly
<1>4. Sound /\ Rising(frames) /\ OneByOne(requests, timers)
  BY <1>3 DEF LinkInv, RisingInv, ModeInv, Undisturbed, Happened
<1>5. CASE UNCHANGED vars
  <2>1. UNCHANGED <<frames, idx, bound, status>>
    BY <1>5 DEF vars, thumbs
  <2> QED
    BY <1>4, <2>1, RisingSame
<1>6. CASE User
  BY <1>1, <1>3, <1>4, <1>6, RisingUser
<1>7. CASE Server
  <2>1. ASSUME NEW n \in DOMAIN requests, Accept(n) \/ Refuse(n) \/ Reject(n) PROVE Rising(frames)'
    <3>1. UNCHANGED <<frames, idx, bound, status>>
      BY <2>1 DEF Accept, Refuse, Reject, thumbs
    <3> QED
      BY <1>4, <3>1, RisingSame
  <2>2. CASE AcceptBatch \/ RejectBatch \/ \E keys : AcceptPart(keys)
    BY <1>1, <1>4, <2>2, RisingBatch
  <2> QED
    BY <1>7, <2>1, <2>2 DEF Server
<1>8. CASE Browser
  BY <1>1, <1>3, <1>4, <1>8, RisingBrowser
<1> QED
  BY <1>5, <1>6, <1>7, <1>8 DEF Next

\* In a rising sequence of numbers that has all of 1 .. k, k is at its own place.
LEMMA OwnPlace ==
  ASSUME NEW q \in Seq(Nat), \A m, n \in DOMAIN q : m < n => q[m] < q[n], \A n \in DOMAIN q : q[n] > 0,
         NEW k \in Nat, \A j \in 1 .. k : \E n \in DOMAIN q : q[n] = j, NEW o \in DOMAIN q, q[o] = k
  PROVE  o = k
<1> DEFINE p == [n \in 1 .. o |-> q[n]]
<1>1. o \in Nat /\ DOMAIN q = 1 .. Len(q) /\ Len(q) \in Nat /\ \A n \in DOMAIN q : q[n] \in Nat
  OBVIOUS
<1>2. p \in Seq(Nat) /\ Len(p) = o /\ DOMAIN p = 1 .. o /\ \A n \in 1 .. o : n \in DOMAIN q /\ p[n] = q[n]
  <2>1. 1 .. o \subseteq DOMAIN q
    BY <1>1
  <2>2. p \in [1 .. o -> Nat]
    BY <1>1, <2>1
  <2>3. \A n \in 1 .. o : p[n] = q[n]
    OBVIOUS
  <2> HIDE DEF p
  <2>4. p \in Seq(Nat) /\ Len(p) = o /\ DOMAIN p = 1 .. o
    BY <1>1, <2>2
  <2> QED
    BY <2>1, <2>3, <2>4
<1> HIDE DEF p
<1>3. ASSUME NEW n \in 1 .. o PROVE p[n] \in 1 .. k
  <2>1. n \in DOMAIN q /\ q[n] \in Nat /\ q[n] > 0 /\ p[n] = q[n] /\ n \in Nat
    BY <1>1, <1>2
  <2>2. CASE n = o
    BY <2>1, <2>2
  <2>3. CASE n < o
    <3>1. q[n] < q[o]
      BY <2>1, <2>3
    <3> QED
      BY <2>1, <3>1
  <2> QED
    BY <1>1, <2>1, <2>2, <2>3
<1>4. ASSUME NEW j \in 1 .. k PROVE \E n \in 1 .. o : p[n] = j
  <2>1. PICK n \in DOMAIN q : q[n] = j
    OBVIOUS
  <2>2. n <= o
    <3>1. CASE o < n
      <4>1. q[o] < q[n]
        BY <3>1
      <4> QED
        BY <2>1, <4>1
    <3> QED
      BY <1>1, <3>1
  <2>3. n \in 1 .. o
    BY <1>1, <2>2
  <2> QED
    BY <1>2, <2>1, <2>3
<1>5. Members(p) = 1 .. k
  <2>1. \A e \in Members(p) : e \in 1 .. k
    BY <1>2, <1>3 DEF Members
  <2>2. \A e \in 1 .. k : e \in Members(p)
    BY <1>2, <1>4 DEF Members
  <2> QED
    BY <2>1, <2>2
<1>6. \A m, n \in DOMAIN p : m < n => p[m] < p[n]
  BY <1>2
<1>7. Len(p) = k
  BY <1>2, <1>5, <1>6, Counting
<1> QED
  BY <1>2, <1>7

\* A new numbering that leaves no handler behind leaves the entries that stay
\* where they were.
LEMMA EntriesStay ==
  ASSUME TypeOK, Sound, Sound', batch # None, NEW s, NEW st, BatchOver(s, st),
         DOMAIN s = DOMAIN stack, \A i \in DOMAIN stack : s[i] \in {None, stack[i]},
         \A t \in Shown \cap InStack(s) : st[t] # "Success"
  PROVE  /\ stack' \in Seq(Files) /\ InStack(stack') = InStack(s) /\ InStack(s) \subseteq InStack(stack)
         /\ \A n \in DOMAIN stack' : n \in DOMAIN stack /\ stack[n] = stack'[n] /\ idx[stack[n]] = n /\ stack[n] \in Shown
<1>1. status' = st /\ ResetFileStack(s) /\ BindSuccess(st) /\ UNCHANGED <<frames, loads>>
  BY DEF BatchOver, Unlock
<1>2. loads = {} /\ Shown \subseteq Files /\ None \notin Files
  BY Typed DEF Sound, Under, Sent, Read, Apart
<1>3. /\ stack' \in Seq(Files)
      /\ \A n \in DOMAIN stack' : stack'[n] \in Shown /\ stack'[n] \in InStack(s)
      /\ InStack(stack') = InStack(s) /\ InStack(s) \subseteq InStack(stack)
  BY <1>1, <1>2, Renumbering
<1>4. ASSUME NEW n \in DOMAIN stack' PROVE n \in DOMAIN stack /\ stack[n] = stack'[n] /\ idx[stack[n]] = n /\ stack[n] \in Shown
  <2> DEFINE t == stack'[n]
  <2>1. t \in Shown /\ t \in InStack(s) /\ t \in InStack(stack) /\ t \in Files /\ t # None
    BY <1>2, <1>3
  <2>2. bound'[t] = n
    BY <1>1, <1>2, <2>1 DEF Sound, Linkage, Linked
  <2> HIDE DEF t
  <2>3. bound'[t] = bound[t]
    BY <1>1, <2>1 DEF BindSuccess
  <2>4. PICK i \in DOMAIN stack : stack[i] = t
    BY <2>1 DEF InStack
  <2>5. idx[t] = i /\ bound[t] = i
    BY <1>2, <2>1, <2>4 DEF Sound, Linkage, Linked
  <2> QED
    BY <2>1, <2>2, <2>3, <2>4, <2>5 DEF t
<1> QED
  BY <1>3, <1>4

LEMMA SentPlaces ==
  ASSUME stack \in Seq(Entry)
  PROVE  \E q \in [DOMAIN Only(stack, Files) -> Places(stack, Files)] :
           /\ \A n \in DOMAIN Only(stack, Files) : Only(stack, Files)[n] = stack[q[n]]
           /\ \A i, j \in DOMAIN Only(stack, Files) : i < j => q[i] < q[j]
           /\ \A i \in Places(stack, Files) : \E n \in DOMAIN Only(stack, Files) : q[n] = i
BY OnlyOrdered

LEMMA PartSettled ==
  ASSUME TypeOK, Sound, Sound', Rising(frames), NEW keys, AcceptPart(keys), accepted \cap InStack(stack) = {},
         NEW f \in accepted', f \in InStack(stack')
  PROVE  FALSE
<1> DEFINE a == Unmarked
           b == batch.sent
           s == PartLeft(keys)
           st == PartStatus(keys)
           W == {t \in Files : status[t] # "Success"}
<1>1. /\ batch # None /\ BatchOver(s, st)
      /\ accepted' = accepted \cup {b[n] : n \in {k \in DOMAIN b : ~Failing(keys, k)}}
  BY PartOver
<1>2. /\ DOMAIN s = DOMAIN stack /\ \A i \in DOMAIN stack : s[i] \in {None, stack[i]}
      /\ \A t \in Shown \cap InStack(s) : st[t] # "Success"
  BY <1>1, PartKeeps
<1>3. /\ stack \in Seq(Entry) /\ frames \in Seq(Files) /\ None \notin Files /\ Shown \subseteq Files
      /\ idx \in [Files -> Nat] /\ Thumbs(frames) = Shown
  BY Typed
<1>4. b = Only(stack, Files) /\ a = Only(frames, W) /\ loads = {}
  BY <1>1 DEF Sound, Under, Sent, Read, Apart, Unmarked
<1>5. \A i \in DOMAIN stack : s[i] = IF \E t \in Shown : IsMarked(t) /\ ~Failing(keys, NumberOf(t)) /\ idx[t] = i THEN None ELSE stack[i]
  BY DEF PartLeft
<1> HIDE DEF s, st
<1>6. /\ stack' \in Seq(Files) /\ InStack(stack') = InStack(s) /\ InStack(s) \subseteq InStack(stack)
      /\ \A n \in DOMAIN stack' : n \in DOMAIN stack /\ stack[n] = stack'[n] /\ idx[stack[n]] = n /\ stack[n] \in Shown
  BY <1>1, <1>2, EntriesStay
<1>7. PICK k \in DOMAIN stack' : stack'[k] = f
  BY DEF InStack
<1>8. /\ k \in Nat /\ k > 0 /\ k \in DOMAIN stack /\ stack[k] = f /\ idx[f] = k /\ f \in Shown /\ f # None
      /\ \A j \in 1 .. k : j \in DOMAIN stack' /\ j \in DOMAIN stack /\ stack[j] \in Shown /\ stack[j] \in Files /\ stack[j] # None /\ idx[stack[j]] = j
  <2>1. DOMAIN stack' = 1 .. Len(stack') /\ Len(stack') \in Nat
    BY <1>6
  <2>2. \A j \in 1 .. k : j \in DOMAIN stack'
    BY <1>7, <2>1
  <2>3. k \in Nat /\ k > 0
    BY <1>7, <2>1
  <2> QED
    BY <1>3, <1>6, <1>7, <2>2, <2>3
<1>9. f \notin accepted
  BY <1>6
<1>10. PICK m \in DOMAIN b : b[m] = f /\ ~Failing(keys, m)
  BY <1>1, <1>9
<1>11. \E p \in [DOMAIN Only(frames, W) -> Places(frames, W)] :
        /\ \A n \in DOMAIN Only(frames, W) : Only(frames, W)[n] = frames[p[n]]
        /\ \A i, j \in DOMAIN Only(frames, W) : i < j => p[i] < p[j]
  BY <1>3, OnlyOrdered
<1>12. \E q \in [DOMAIN Only(stack, Files) -> Places(stack, Files)] :
        /\ \A n \in DOMAIN Only(stack, Files) : Only(stack, Files)[n] = stack[q[n]]
        /\ \A i, j \in DOMAIN Only(stack, Files) : i < j => q[i] < q[j]
        /\ \A i \in Places(stack, Files) : \E n \in DOMAIN Only(stack, Files) : q[n] = i
  BY <1>3, SentPlaces
<1>13. a \in Seq(Files) /\ b \in Seq(Files)
  <2>1. Only(frames, W) \in Seq(Files \cap W) /\ Only(stack, Files) \in Seq(Entry \cap Files)
    BY <1>3, OnlyProperties
  <2>2. Files \cap W \subseteq Files /\ Entry \cap Files \subseteq Files
    OBVIOUS
  <2> QED
    BY <1>4, <2>1, <2>2, SeqOfLarger
<1>14. \A t : (\E n \in DOMAIN a : a[n] = t) <=> t \in Shown /\ status[t] # "Success"
  BY UnmarkedAre
<1>15. IsMarked(f) <=> \E n \in DOMAIN a : a[n] = f
  BY DEF IsMarked
<1>16. NumberOf(f) = CHOOSE n \in DOMAIN a : a[n] = f
  BY DEF NumberOf
<1> HIDE DEF a, b, W
\* The file is the k-th of those that were sent.
<1>17. m = k
  <2>1. PICK q \in [DOMAIN b -> Places(stack, Files)] :
          /\ \A n \in DOMAIN b : b[n] = stack[q[n]]
          /\ \A i, j \in DOMAIN b : i < j => q[i] < q[j]
          /\ \A i \in Places(stack, Files) : \E n \in DOMAIN b : q[n] = i
    BY <1>4, <1>12
  <2>2. DOMAIN b = 1 .. Len(b) /\ Len(b) \in Nat /\ DOMAIN stack = 1 .. Len(stack) /\ Len(stack) \in Nat
    BY <1>3, <1>13
  <2>3. \A n \in DOMAIN b : q[n] \in DOMAIN stack /\ q[n] \in Nat /\ q[n] > 0
    BY <2>1, <2>2 DEF Places
  <2>4. q \in [1 .. Len(b) -> Nat]
    BY <2>1, <2>2, <2>3
  <2>5. q \in Seq(Nat) /\ DOMAIN q = DOMAIN b
    BY <2>2, <2>4
  <2>6. \A j \in 1 .. k : \E n \in DOMAIN q : q[n] = j
    BY <1>8, <2>1, <2>5 DEF Places
  <2>7. q[m] = k
    <3>1. stack[q[m]] = stack[k] /\ stack[q[m]] # None /\ q[m] \in DOMAIN stack
      BY <1>8, <1>10, <2>1, <2>3
    <3> QED
      BY <1>8, <3>1 DEF Sound, Linkage, Unique
  <2> QED
    BY <1>8, <1>10, <2>1, <2>3, <2>5, <2>6, <2>7, OwnPlace
\* And the k-th of the thumbnails the answer is spread over.
<1>18. IsMarked(f) /\ NumberOf(f) = k
  <2>1. \A j \in 1 .. k : status[stack[j]] # "Success"
    BY <1>3, <1>8 DEF Sound, Linkage, Marked, InStack
  <2>2. status[f] # "Success"
    BY <1>8, <2>1
  <2>3. \E n \in DOMAIN a : a[n] = f
    BY <1>8, <1>14, <2>2
  <2> DEFINE o == NumberOf(f)
             q == [n \in DOMAIN a |-> idx[a[n]]]
  <2>4. o \in DOMAIN a /\ a[o] = f
    BY <1>16, <2>3
  <2>5. PICK p \in [DOMAIN a -> Places(frames, W)] :
          /\ \A n \in DOMAIN a : a[n] = frames[p[n]]
          /\ \A i, j \in DOMAIN a : i < j => p[i] < p[j]
    BY <1>4, <1>11
  <2>6. DOMAIN a = 1 .. Len(a) /\ Len(a) \in Nat /\ \A n \in DOMAIN a : a[n] \in Files
    BY <1>13
  <2>7. q \in [1 .. Len(a) -> Nat]
    BY <1>3, <2>6
  <2>8. q \in Seq(Nat) /\ DOMAIN q = DOMAIN a /\ \A n \in DOMAIN a : q[n] = idx[a[n]]
    BY <2>6, <2>7
  <2> HIDE DEF q, o
  <2>9. \A n \in DOMAIN a : a[n] \in Shown /\ status[a[n]] # "Success"
    BY <1>14
  <2>10. \A n \in DOMAIN q : q[n] > 0
    <3>1. ASSUME NEW n \in DOMAIN a PROVE idx[a[n]] > 0
      <4>1. idx[a[n]] \in 1 .. Len(stack) /\ Len(stack) \in Nat
        BY <2>9, RisingPlaces, Typed
      <4> QED
        BY <4>1
    <3> QED
      BY <2>8, <3>1
  <2>11. \A i, j \in DOMAIN q : i < j => q[i] < q[j]
    <3>1. ASSUME NEW i \in DOMAIN a, NEW j \in DOMAIN a, i < j PROVE idx[a[i]] < idx[a[j]]
      <4>1. p[i] \in DOMAIN frames /\ p[j] \in DOMAIN frames /\ p[i] < p[j] /\ a[i] = frames[p[i]] /\ a[j] = frames[p[j]]
        BY <2>5, <3>1 DEF Places
      <4> QED
        BY <2>9, <4>1 DEF Rising
    <3> QED
      BY <2>8, <3>1
  <2>12. \A j \in 1 .. k : \E n \in DOMAIN q : q[n] = j
    <3>1. ASSUME NEW j \in 1 .. k PROVE \E n \in DOMAIN q : q[n] = j
      <4>1. PICK n \in DOMAIN a : a[n] = stack[j]
        BY <1>8, <1>14, <2>1
      <4>2. q[n] = j
        BY <1>8, <2>8, <4>1
      <4> QED
        BY <2>8, <4>2
    <3> QED
      BY <3>1
  <2>13. o \in DOMAIN q /\ q[o] = k
    BY <1>8, <2>4, <2>8
  <2>14. o = k
    BY <1>8, <2>8, <2>10, <2>11, <2>12, <2>13, OwnPlace
  <2> QED
    BY <1>15, <2>3, <2>14 DEF o
<1>19. s[k] = None
  BY <1>5, <1>8, <1>10, <1>17, <1>18
<1>20. PICK i \in DOMAIN stack : s[i] = f
  BY <1>2, <1>6 DEF InStack
<1>21. stack[i] = f
  BY <1>2, <1>8, <1>20
<1>22. i = k
  BY <1>8, <1>21 DEF Sound, Linkage, Unique
<1> QED
  BY <1>8, <1>19, <1>20, <1>22

LEMMA BatchSettled ==
  ASSUME TypeOK, Sound, Sound', Rising(frames), AcceptBatch \/ RejectBatch \/ \E keys : AcceptPart(keys), accepted \cap InStack(stack) = {}
  PROVE  /\ accepted' \cap InStack(stack') = {}
         /\ accepted' \subseteq accepted \cup InStack(stack)
<1>1. batch # None => batch.sent = Only(stack, Files) /\ batch.keys = 0 /\ loads = {} /\ isDisabled
  BY DEF Sound, Under, Sent, Read, Apart
<1>2. batch # None => \A n \in DOMAIN batch.sent : batch.sent[n] \in InStack(stack)
  <2>1. stack \in Seq(Entry) /\ None \notin Files
    BY Typed
  <2>2. \A e : (\E n \in DOMAIN Only(stack, Files) : Only(stack, Files)[n] = e) => e \in Files /\ \E i \in DOMAIN stack : stack[i] = e
    BY <2>1, OnlyElements
  <2>3. \A n \in DOMAIN Only(stack, Files) : Only(stack, Files)[n] \in InStack(stack)
    BY <2>1, <2>2 DEF InStack
  <2> QED
    BY <1>1, <2>3
<1>3. CASE AcceptBatch
  <2> DEFINE s == Emptied
             st == [f \in Files |-> IF f \in Shown THEN "Success" ELSE status[f]]
  <2>1. /\ batch # None /\ BatchOver(s, st)
        /\ accepted' = accepted \cup {batch.sent[n] : n \in DOMAIN batch.sent}
    BY <1>3 DEF AcceptBatch
  <2>2. s = [n \in DOMAIN stack |-> None]
    BY <1>1, <2>1 DEF Emptied
  <2>3. InStack(s) = {} /\ DOMAIN s = DOMAIN stack /\ \A i \in DOMAIN stack : s[i] \in {None, stack[i]}
    BY <2>2 DEF InStack
  <2> HIDE DEF s, st
  <2>4. \A t \in Shown \cap InStack(s) : st[t] # "Success"
    BY <2>3
  <2>5. InStack(stack') = {}
    BY <2>1, <2>3, <2>4, EntriesStay
  <2> QED
    BY <1>2, <2>1, <2>5
<1>4. CASE RejectBatch
  <2> DEFINE st == FailedBatch
  <2>1. batch # None /\ BatchOver(stack, st) /\ accepted' = accepted
    BY <1>4 DEF RejectBatch
  <2>2. ResetFileStack(stack) /\ frames' = frames
    BY <2>1 DEF BatchOver, Unlock
  <2>3. loads = {}
    BY <1>1, <2>1
  <2>4. InStack(stack') = InStack(stack)
    <3>1. DOMAIN stack = DOMAIN stack /\ \A i \in DOMAIN stack : stack[i] \in {None, stack[i]}
      OBVIOUS
    <3> QED
      BY <2>2, <2>3, <3>1, Renumbering
  <2> QED
    BY <2>1, <2>4
<1>5. ASSUME NEW keys, AcceptPart(keys)
      PROVE  accepted' \cap InStack(stack') = {} /\ accepted' \subseteq accepted \cup InStack(stack)
  <2>1. /\ batch # None
        /\ accepted' = accepted \cup {batch.sent[n] : n \in {k \in DOMAIN batch.sent : ~Failing(keys, k)}}
    BY <1>5, PartOver
  <2>2. accepted' \cap InStack(stack') = {}
    BY <1>5, PartSettled
  <2> QED
    BY <1>2, <2>1, <2>2
<1> QED
  BY <1>3, <1>4, <1>5

LEMMA SendBatch ==
  ASSUME TypeOK, Control, Sound, Sound', Rising(frames), Held, AcceptBatch \/ RejectBatch \/ \E keys : AcceptPart(keys)
  PROVE  Held'
<1>1. /\ batch # None /\ UNCHANGED <<loads, timers, requests, chosen>>
  BY PartOver DEF AcceptBatch, RejectBatch, BatchOver
<1>2. requests = <<>> /\ SettlesIn(timers) = {} /\ loads = {} /\ Pending = {}
  BY <1>1 DEF Control, SilentIn, Sound, Under, Sent, Read, Apart
<1>3. Calling = {} /\ \A f : ~Finishing(f)
  <2>1. \A n \in DOMAIN timers : timers[n].kind # "success"
    BY <1>2 DEF SettlesIn
  <2> QED
    BY <1>2, <2>1 DEF Calling, Finishing
<1>4. accepted \cap InStack(stack) = {}
  BY <1>3 DEF Held, Settled
<1>5. accepted' \cap InStack(stack') = {} /\ accepted' \subseteq accepted \cup InStack(stack)
  BY <1>4, BatchSettled
<1>6. Calling' = {} /\ Pending' = {} /\ loads' = {}
  BY <1>1, <1>2, <1>3 DEF Calling, Pending
<1>7. Once'
  BY DEF Sound, Linkage, Unique, Once
<1>8. OneChain' /\ Claims' /\ ToCome'
  BY <1>6 DEF OneChain, Claims, ToCome
<1>9. Used'
  BY <1>1, <1>5, <1>6 DEF Used, Sound, Known, Held
<1>10. Settled'
  BY <1>5 DEF Settled
<1> QED
  BY <1>7, <1>8, <1>9, <1>10 DEF Held

LEMMA HeldSame ==
  ASSUME Held, UNCHANGED vars
  PROVE  Held'
<1>1. UNCHANGED <<stack, loads, timers, requests, chosen, accepted>>
  BY DEF vars, history
<1>2. Calling' = Calling /\ Pending' = Pending /\ \A f : Finishing(f)' <=> Finishing(f)
  BY <1>1 DEF Calling, Pending, Finishing
<1> QED
  BY <1>1, <1>2 DEF Held, Once, OneChain, Claims, ToCome, Untouched, Used, Settled

LEMMA SendNext ==
  ASSUME TypeOK, ControlInv, LinkInv, ModeInv, LockInv, RisingInv, SendInv, [Next]_vars
  PROVE  SendInv'
<1>1. SUFFICES ASSUME Calm' PROVE Held'
  BY DEF SendInv
<1>2. TypeOK' /\ ControlInv' /\ LinkInv' /\ LockInv' /\ uploadAsync' = uploadAsync /\ events \subseteq events'
  BY NextTypes, ControlNext, LinkNext, LockNext, SameOption, EventsGrow
<1>3. /\ ~Happened({"overlap", "cancel"})' /\ ~Happened({"overlap", "cancel"})
      /\ ~uploadAsync => ~Happened({"stale", "fading", "reset"})' /\ ~Happened({"stale", "fading", "reset"})
  BY <1>1, <1>2 DEF Calm, Happened
<1>4. Held
  BY <1>3 DEF SendInv, Calm
<1>5. "overlap" \notin events' /\ "cancel" \notin events' /\ "cancel" \notin events
  BY <1>3 DEF Happened
<1>6. CASE UNCHANGED vars
  BY <1>4, <1>6, HeldSame
<1>7. CASE User
  <2>1. ASSUME NEW S \in Selections, Select(S) PROVE Held'
    BY <1>2, <1>4, <1>5, <2>1, SendSelect
  <2>2. CASE UploadAll
    BY <1>2, <1>4, <2>2, SendUploadAll
  <2>3. ASSUME NEW f \in Files, UploadOne(f) PROVE Held'
    BY <1>2, <1>4, <2>3, SendUploadOne
  <2>4. CASE UploadBatch \/ Clear \/ \E f \in Files : Remove(f)
    BY <1>2, <1>4, <2>4, SendUser
  <2>5. ASSUME Cancel PROVE FALSE
    BY <1>5, <2>5 DEF Cancel
  <2> QED
    BY <1>7, <2>1, <2>2, <2>3, <2>4, <2>5 DEF User
<1>8. CASE Server
  <2>1. ASSUME NEW n \in DOMAIN requests, Accept(n) \/ Refuse(n) \/ Reject(n) PROVE Held'
    BY <1>2, <1>4, <2>1, SendAnswer
  <2>2. CASE AcceptBatch \/ RejectBatch \/ \E keys : AcceptPart(keys)
    <3>1. batch # None
      BY <2>2 DEF AcceptBatch, RejectBatch, AcceptPart
    <3>2. ~uploadAsync
      BY <1>5, <3>1 DEF ModeInv
    <3>3. "retry" \notin events'
      BY <1>2, <1>3, <3>2 DEF LockInv, Closed
    <3>4. Undisturbed'
      BY <1>3, <3>2, <3>3 DEF Undisturbed, Happened
    <3>5. Undisturbed /\ Control
      BY <1>2, <3>4, Quietly
    <3>6. Sound /\ Sound' /\ Rising(frames)
      BY <1>2, <3>2, <3>4, <3>5 DEF LinkInv, RisingInv
    <3> QED
      BY <1>4, <2>2, <3>5, <3>6, SendBatch
  <2> QED
    BY <1>8, <2>1, <2>2 DEF Server
<1>9. CASE Browser
  <2>1. ASSUME NEW r \in loads, Load(r) PROVE Held'
    BY <1>2, <1>4, <2>1, SendLoad
  <2>2. ASSUME NEW x, Faded(x) PROVE Held'
    BY <1>2, <1>4, <2>2, SendFaded
  <2>3. CASE ReadNext
    BY <1>2, <1>4, <2>3, SendReadNext
  <2>4. CASE Success
    BY <1>2, <1>4, <2>4, SendSuccess
  <2>5. CASE Error
    BY <1>2, <1>4, <2>5, SendError
  <2>6. CASE Complete
    BY <1>2, <1>4, <2>6, SendComplete
  <2>7. CASE Check
    BY <1>2, <1>4, <2>7, SendCheck
  <2> QED
    BY <1>9, <2>1, <2>2, <2>3, <2>4, <2>5, <2>6, <2>7 DEF Browser, Tick
<1> QED
  BY <1>6, <1>7, <1>8, <1>9 DEF Next

LEMMA SendInit ==
  ASSUME Init
  PROVE  ModeInv /\ LockInv /\ RisingInv /\ SendInv
<1>1. /\ stack = <<>> /\ frames = <<>> /\ loads = {} /\ timers = <<>> /\ requests = <<>> /\ batch = None /\ isDisabled = FALSE
      /\ accepted = {} /\ events = {}
  BY DEF Init
<1>2. DOMAIN stack = {} /\ DOMAIN frames = {} /\ DOMAIN timers = {} /\ DOMAIN requests = {}
  BY <1>1
<1>3. Thumbs(frames) = {} /\ InStack(stack) = {} /\ Calling = {} /\ Pending = {}
  BY <1>2 DEF Thumbs, InStack, Calling, Pending
<1>4. ModeInv /\ LockInv
  BY <1>1, <1>2 DEF ModeInv, OneByOne, LockInv, Closed
<1>5. RisingInv
  BY <1>2, <1>3 DEF RisingInv, Rising
<1>6. Held
  BY <1>1, <1>2, <1>3 DEF Held, Once, OneChain, Claims, ToCome, Used, Settled
<1> QED
  BY <1>4, <1>5, <1>6 DEF SendInv

\* A file the server has taken has left the stack, or leaves it with a timer that is set: the
\* next upload does not send it again, whatever else was sent, answered, removed or cleared,
\* and however the answers came.  Excluded are the two situations the property names, and
\* three more for the answer to a synchronous upload.
THEOREM NotSentTwice == Spec => []NotSentAgain
<1> DEFINE Inv == /\ TypeOK /\ ControlInv /\ LinkInv
                  /\ ModeInv /\ LockInv /\ RisingInv /\ SendInv
<1>1. Init => Inv
  BY InitTypes, ControlInit, SoundInit, SendInit
<1>2. Inv /\ [Next]_vars => Inv'
  BY NextTypes, ControlNext, LinkNext, ModeNext, LockNext, RisingNext, SendNext
<1>3. Inv => NotSentAgain
  BY DEF SendInv, Calm, Held, Settled, NotSentAgain
<1> QED
  BY <1>1, <1>2, <1>3, PTL DEF Spec

-----------------------------------------------------------------------------
(* The cleaning of html: sanitize keeps Traced, and before a document is        *)
(* looked at nothing has been done to it (ContentProofs).                       *)

LEMMA StepKeepsTraced ==
  ASSUME Traced, [PreviewNext]_allVars
  PROVE  Traced'
<1>1. CASE Purifies
  BY <1>1, SanitizeKeeps DEF Purifies
<1>2. ASSUME Parsed' PROVE Traced'
  <2>1. Parsed' => Traced'
    BY ParsedTraced, PTL
  <2> QED
    BY <1>2, <2>1
<1>3. CASE Through
  BY <1>2, <1>3 DEF Through, Parsed
<1>4. ASSUME NEW r \in loads, LoadAndShow(r) PROVE Traced'
  BY <1>2, <1>4 DEF LoadAndShow, Show, Parsed
<1>5. ASSUME NEW p \in shown, ImageLoads(p) PROVE Traced'
  BY <1>2, <1>5 DEF ImageLoads, Parsed
<1>6. CASE UNCHANGED allVars
  <2>1. UNCHANGED <<original, doc, pos>>
    BY <1>6 DEF allVars, content, purifyVars
  <2> QED
    BY <2>1 DEF Traced, Treated
<1>7. CASE PreviewUser
  BY <1>7, <1>3 DEF PreviewUser
<1>8. CASE PreviewBrowser
  BY <1>8, <1>3, <1>4, <1>5 DEF PreviewBrowser, FadedAway, Oriented, ImageFails
<1> QED
  BY <1>1, <1>3, <1>6, <1>7, <1>8 DEF PreviewNext

LEMMA AlwaysTraced == PreviewSpec => []Traced
<1>1. PreviewInit => Traced
  BY ParsedTraced DEF PreviewInit, Parsed
<1>2. Traced /\ [PreviewNext]_allVars => Traced'
  BY StepKeepsTraced
<1> QED
  BY <1>1, <1>2, PTL DEF PreviewSpec

\* When sanitize has come to the end of an html file, what is left is, node by
\* node, what its lists of tags and attributes allow: for every document and all lists.
THEOREM PurifiedRight == PreviewSpec => []PurifiedAsDefined
<1>1. Traced => PurifiedAsDefined
  BY TreatedAll DEF PurifiedAsDefined
<1> QED
  BY <1>1, AlwaysTraced, PTL

\* When sanitize has come to the end of an html file, only allowed tags are left.
THEOREM PurifiedIsAllowed == PreviewSpec => []OnlyAllowedShown
<1>1. Traced => OnlyAllowedShown
  BY TreatedAllowed DEF OnlyAllowedShown
<1> QED
  BY <1>1, AlwaysTraced, PTL

-----------------------------------------------------------------------------
(* The Exif data of smaller pictures: dump and load are each other's inverse    *)
(* (ContentProofs), insert and load find the same segment, and only pictures    *)
(* are made smaller.                                                            *)

LEMMA InsertFound == ASSUME NEW b PROVE GetExifSeg(Insert(b, Canvas)) = b
<1> DEFINE new == [kind |-> "exif", exif |-> b]
           soi == [kind |-> "soi"]
           rest == [kind |-> "rest"]
           s == <<soi, new, rest>>
<1>1. /\ Canvas[1] = soi /\ Canvas[2].kind = "app0" /\ Canvas[3] = rest /\ Len(Canvas) = 3
      /\ ~IsExif(Canvas[3]) /\ ~IsExif(Canvas[2])
  BY DEF Canvas, IsExif
<1>2. SubSeq(Canvas, 3, Len(Canvas)) = <<rest>>
  <2>1. PICK c, S : c = Canvas /\ S = {Canvas[1], Canvas[2], Canvas[3]}
    OBVIOUS
  <2>2. c \in Seq(S) /\ Len(c) = 3 /\ c[3] = rest
    BY <2>1 DEF Canvas
  <2>3. PICK t : t = SubSeq(c, 3, 3)
    OBVIOUS
  <2>4. /\ t \in Seq(S) /\ Len(t) = (IF 3 <= 3 THEN 3 - 3 + 1 ELSE 0)
        /\ \A i \in 1 .. 3 - 3 + 1 : t[i] = c[3 + i - 1]
    BY <2>2, <2>3, SubSeqProperties
  <2>5. t = <<rest>>
    BY <2>2, <2>4
  <2> QED
    BY <1>1, <2>1, <2>3, <2>5
<1>3. Insert(b, Canvas) = <<soi, new>> \o <<rest>>
  BY <1>1, <1>2 DEF Insert
<1>4. Insert(b, Canvas) = s
  <2>1. PICK x, y, z : x = soi /\ y = new /\ z = rest
    OBVIOUS
  <2>2. <<x, y>> \o <<z>> = <<x, y, z>>
    <3>1. PICK S, u, v : S = {x, y, z} /\ u = <<x, y>> /\ v = <<z>>
      OBVIOUS
    <3>2. u \in Seq(S) /\ v \in Seq(S) /\ Len(u) = 2 /\ Len(v) = 1 /\ u[1] = x /\ u[2] = y /\ v[1] = z
      BY <3>1
    <3>3. PICK t : t = u \o v
      OBVIOUS
    <3>4. /\ t \in Seq(S) /\ Len(t) = Len(u) + Len(v)
          /\ \A i \in 1 .. Len(u) + Len(v) : t[i] = IF i <= Len(u) THEN u[i] ELSE v[i - Len(u)]
      BY <3>2, <3>3, ConcatProperties
    <3>5. t \in Seq(S) /\ Len(t) = 3 /\ t[1] = x /\ t[2] = y /\ t[3] = z
      BY <3>2, <3>4
    <3>6. t = <<x, y, z>>
      BY <3>2, <3>5
    <3> QED
      BY <3>1, <3>3, <3>6
  <2> QED
    BY <1>3, <2>1, <2>2
<1>5. {n \in DOMAIN s : IsExif(s[n])} = {2}
  BY DEF IsExif
<1>6. PICK found : found = {n \in DOMAIN s : IsExif(s[n])}
  OBVIOUS
<1>7. (CHOOSE n \in found : \A m \in found : n <= m) = 2
  BY <1>5, <1>6
<1>8. GetExifSeg(s) = s[2].exif
  BY <1>5, <1>6, <1>7 DEF GetExifSeg
<1> QED
  BY <1>4, <1>8

\* What a smaller picture says is what d said.
SaysWhat(said, d) == IF d = Missing THEN said = Missing ELSE Shortened(d) \/ said = Said(d)

LEMMA KeptWhole ==
  ASSUME NEW e \in ExifChoices, NEW f \in Pictures, ~DumpThrows[e[f]]
  PROVE  SaysWhat(Kept[e[f]], e[f])
<1>1. PICK d : d = e[f]
  OBVIOUS
<1>2. d \in ExifData
  BY <1>1 DEF ExifData
<1>3. CASE d = Missing
  BY <1>1, <1>2, <1>3 DEF Kept, SaysWhat
<1>4. CASE d # Missing /\ Shortened(d)
  BY <1>1, <1>4 DEF SaysWhat
<1>5. CASE d # Missing /\ ~Shortened(d)
  <2>1. IsDictionary(d) /\ ~ExifThrows(d)
    BY <1>1, <1>2, <1>5, ExifAssumption DEF DumpThrows
  <2>2. Kept[d] = Said(ExifLoad(GetExifSeg(Insert(Dump(d), Canvas))))
    BY <1>2, <1>5 DEF Kept
  <2> QED
    BY <1>1, <1>5, <2>1, <2>2, InsertFound, ReadBack DEF SaysWhat
<1> QED
  BY <1>3, <1>4, <1>5

\* Pictures are what the browser loads, in whatever order.
Loaded(s) == s \in Seq({s[n] : n \in DOMAIN s}) /\ \A n \in DOMAIN s : s[n].file \in Pictures

LEMMA LoadedMore ==
  ASSUME NEW s, Loaded(s), NEW p, p.file \in Pictures
  PROVE  Loaded(Append(s, p))
<1> DEFINE S == {s[n] : n \in DOMAIN s}
           t == Append(s, p)
<1>1. s \in Seq(S) /\ Len(s) \in Nat
  BY DEF Loaded
<1>2. /\ DOMAIN t = 1 .. Len(s) + 1
      /\ \A n \in 1 .. Len(s) : t[n] = s[n]
      /\ t[Len(s) + 1] = p /\ t \in Seq(S \cup {p})
  BY <1>1
<1>3. \A n \in DOMAIN t : t[n].file \in Pictures
  BY <1>1, <1>2 DEF Loaded
<1>4. t \in Seq({t[n] : n \in DOMAIN t})
  BY <1>2
<1> QED
  BY <1>3, <1>4 DEF Loaded

Shows(p) == p = [file |-> p.file, ind |-> p.ind, awaits |-> p.awaits] /\ p.file \in Pictures

PictureInv ==
  /\ \A p \in shown : Shows(p)
  /\ Loaded(loadedImages)
  /\ ExifKept

LEMMA NoneLoaded == Loaded(<<>>)
  BY DEF Loaded

LEMMA NoSmaller == smaller = <<>> => ExifKept
  BY DEF ExifKept

LEMMA NoSmallerNext == smaller' = <<>> => ExifKept'
  BY DEF ExifKept

LEMMA ImageLoadsKeeps ==
  ASSUME PictureInv, NEW p \in shown, ImageLoads(p)
  PROVE  PictureInv'
<1>1. \A q \in shown' : Shows(q)
  BY DEF PictureInv, ImageLoads
<1>2. [file |-> p.file, ind |-> p.ind].file \in Pictures
  BY DEF PictureInv, Shows
<1>3. Loaded(loadedImages')
  <2>1. loadedImages' = Append(loadedImages, [file |-> p.file, ind |-> p.ind]) /\ Loaded(loadedImages)
    BY DEF PictureInv, ImageLoads
  <2> QED
    BY <1>2, <2>1, LoadedMore
<1>4. CASE smaller' = <<>>
  BY <1>1, <1>3, <1>4, NoSmallerNext DEF PictureInv, Loaded
<1>5. CASE ResizeAll(loadedImages')
  <2>1. PICK e \in ExifChoices, invalid \in SUBSET Broken :
          LET all == {loadedImages'[n].file : n \in DOMAIN loadedImages'}
              failed == invalid \cup {f \in all : DumpThrows[e[f]]}
          IN exif' = e /\ smaller' = [f \in all \ failed |-> Kept[e[f]]]
    BY <1>5 DEF ResizeAll
  <2>2. ASSUME NEW f \in DOMAIN smaller' PROVE SaysWhat(smaller'[f], exif'[f])
    <3>1. f \in Pictures /\ ~DumpThrows[e[f]] /\ smaller'[f] = Kept[e[f]] /\ exif' = e
      BY <1>3, <2>1, <2>2 DEF Loaded
    <3> QED
      BY <3>1, KeptWhole
  <2> QED
    BY <1>1, <1>3, <2>2 DEF PictureInv, ExifKept, Loaded, SaysWhat
<1> QED
  BY <1>4, <1>5 DEF ImageLoads

LEMMA PictureNext ==
  ASSUME PictureInv, [PreviewNext]_allVars
  PROVE  PictureInv'
<1>1. ASSUME shown' \subseteq shown,
             loadedImages' = <<>> \/ UNCHANGED loadedImages,
             smaller' = <<>> \/ UNCHANGED <<exif, smaller>>
      PROVE  PictureInv'
  <2>1. \A p \in shown' : Shows(p)
    BY <1>1 DEF PictureInv
  <2>2. Loaded(loadedImages')
    BY <1>1, NoneLoaded DEF PictureInv
  <2>3. ExifKept'
    BY <1>1, NoSmallerNext DEF PictureInv, ExifKept
  <2> QED
    BY <2>1, <2>2, <2>3 DEF PictureInv, Loaded, Shows
<1>2. CASE Purifies \/ UNCHANGED allVars
  BY <1>1, <1>2 DEF Purifies, allVars, images, counts, content
<1>3. CASE PreviewUser
  BY <1>1, <1>3 DEF PreviewUser, Announce, Uncounted, Through, counts
<1>4. CASE Server /\ Through /\ UNCHANGED images
  BY <1>1, <1>4 DEF Through, images, counts
<1>5. CASE PreviewBrowser
  <2>1. CASE Tick /\ Through /\ UNCHANGED images
    BY <1>1, <2>1 DEF Through, images, counts
  <2>2. ASSUME NEW x \in fading, FadedAway(x) PROVE PictureInv'
    BY <1>1, <2>2 DEF FadedAway, Through, Uncounted, counts
  <2>3. ASSUME NEW r \in loads, LoadAndShow(r) PROVE PictureInv'
    <3>1. \A q \in shown' : Shows(q)
      <4>1. PICK f, to : f = Head(r.todo) /\ to = [file |-> f, ind |-> r.node, awaits |-> "orientation"]
        OBVIOUS
      <4>2. shown' = (IF f \in Pictures THEN shown \cup {to} ELSE shown)
        BY <2>3, <4>1 DEF LoadAndShow, Show
      <4>3. f \in Pictures => Shows(to)
        BY <4>1 DEF Shows
      <4> QED
        BY <4>2, <4>3 DEF PictureInv
    <3>2. smaller' = <<>> /\ UNCHANGED loadedImages
      BY <2>3 DEF LoadAndShow, Show, counts
    <3> QED
      BY <3>1, <3>2, NoSmallerNext DEF PictureInv, Loaded
  <2>4. ASSUME NEW p \in shown, Oriented(p) PROVE PictureInv'
    <3>1. \A q \in shown' : Shows(q)
      <4>1. CASE ThumbAt(p.ind) \in Pictures
        <5>1. PICK f : f = ThumbAt(p.ind) /\ f \in Pictures
          BY <4>1
        <5>2. PICK to : to = [p EXCEPT !.file = f, !.awaits = "load"]
          OBVIOUS
        <5>3. shown' = (shown \ {p}) \cup {to}
          BY <2>4, <5>1, <5>2 DEF Oriented
        <5>4. p = [file |-> p.file, ind |-> p.ind, awaits |-> p.awaits]
          BY DEF PictureInv, Shows
        <5>5. to = [file |-> f, ind |-> p.ind, awaits |-> "load"]
          BY <5>2, <5>4
        <5> QED
          BY <5>1, <5>3, <5>5 DEF PictureInv, Shows
      <4>2. CASE ThumbAt(p.ind) \notin Pictures
        BY <2>4, <4>2 DEF Oriented, PictureInv
      <4> QED
        BY <4>1, <4>2
    <3>2. smaller' = <<>> /\ UNCHANGED loadedImages
      BY <2>4 DEF Oriented, Through, counts
    <3> QED
      BY <3>1, <3>2, NoSmallerNext DEF PictureInv, Loaded
  <2>5. ASSUME NEW p \in shown, ImageLoads(p) PROVE PictureInv'
    BY <2>5, ImageLoadsKeeps
  <2>6. ASSUME NEW p \in shown, ImageFails(p) PROVE PictureInv'
    BY <1>1, <2>6 DEF ImageFails, Through, counts
  <2> QED
    BY <1>5, <2>1, <2>2, <2>3, <2>4, <2>5, <2>6 DEF PreviewBrowser
<1> QED
  BY <1>2, <1>3, <1>4, <1>5 DEF PreviewNext

\* A smaller picture says in its Exif data what the picture said: for every
\* dictionary that fits the types of the tags and has no Long without numbers, and
\* all pictures.
THEOREM ExifPreserved == PreviewSpec => []ExifKept
<1>1. PreviewInit => PictureInv
  BY NoneLoaded, NoSmaller DEF PreviewInit, PictureInv
<1>2. PictureInv /\ [PreviewNext]_allVars => PictureInv'
  BY PictureNext
<1>3. PictureInv => ExifKept
  BY DEF PictureInv
<1> QED
  BY <1>1, <1>2, <1>3, PTL DEF PreviewSpec

=============================================================================
