------------------------------ MODULE FileInput ------------------------------
(***************************************************************************)
(* The upload widget of the pages (bootstrap-fileinput): files are chosen, *)
(* read one after the other into the file stack and a row of thumbnails,   *)
(* sent one request per file (uploadAsync) or all in one, and answered.    *)
(* A thumbnail knows its file only by an index into the stack.  JavaScript *)
(* runs one handler at a time; what interleaves is the user, the answers,  *)
(* the file reader, the timers of 100 ms, which fire in the order they     *)
(* were set, and the fading out of removed thumbnails, which takes longer. *)
(*                                                                         *)
(* Index n of the code is n + 1 here and its index -1 is 0.  A file is one *)
(* selection of it, and files are numbered in the order they are chosen in.*)
(* There is no initial preview, as on index.html (see PreviewCache).       *)
(***************************************************************************)
EXTENDS Selection

CONSTANTS
  Files,         \* what the user may choose
  Valid,         \* the files that pass the tests of readFile
  None,          \* undefined: a hole in the stack, a thumbnail that is not found
  MaxFileCount,  \* the option maxFileCount
  MaxChosen,     \* bound: the most files one selection holds
  MaxClicks      \* bound: the number of actions of the user

ASSUME FilesAssumption == Files \subseteq Nat /\ Valid \subseteq Files /\ None \notin Files
ASSUME BoundsAssumption == {MaxFileCount, MaxChosen, MaxClicks} \subseteq Nat \ {0}

VARIABLES
  uploadAsync,  \* the option: one request for each file
  stack,        \* filestack, with filenames and fileids, which follow it
  frames,       \* the thumbnails in the order of the page, each named by its file
  idx,          \* data-fileindex and id of a thumbnail
  bound,        \* the index its remove handler holds, or SuccessHandler
  status,       \* its indicator
  off,          \* thumbnails whose buttons are disabled
  fading,       \* removals under way: thumbnail, index of the handler, timers that come first
  isDisabled, uploadLog, uploadAsyncCount, fileBatchCompleted,
  loads,        \* files the FileReader works at: index and what follows
  timers,       \* the queue of setTimeout
  requests,     \* open requests, oldest first; the kept ones are in ajaxRequests
  batch,        \* the open request of a synchronous upload, or None
  chosen, accepted, discarded,  \* history: files chosen, taken by the server, given up by the user
  events, clicks                \* history: see Happened; actions of the user

thumbs == <<frames, idx, bound, status, off>>
progress == <<uploadLog, uploadAsyncCount, fileBatchCompleted>>
history == <<chosen, accepted, discarded, events, clicks>>
vars == <<uploadAsync, stack, thumbs, fading, isDisabled, progress, loads, timers, requests, batch, history>>

-----------------------------------------------------------------------------
(* The stack and the thumbnails *)

SuccessHandler == -1

At(s, i) == IF i \in DOMAIN s THEN s[i] ELSE None

InStack(s) == {s[i] : i \in DOMAIN s} \ {None}

\* Mutant: the entry of a file that goes is cut out.
UpdateStackNoHole(s, i, v) ==
  IF i \notin DOMAIN s THEN s ELSE IF v = None THEN Seqs!RemoveAt(s, i) ELSE [s EXCEPT ![i] = v]

\* updateStack: writing past the end makes holes, writing at -1 no entry.
UpdateStack(s, i, v) ==
  IF i < 1 THEN s
  ELSE [n \in 1 .. (IF i > Len(s) THEN i ELSE Len(s)) |-> IF n = i THEN v ELSE At(s, n)]

Shown == {frames[n] : n \in DOMAIN frames}

\* $('#' + previewId): the first thumbnail with that id.
ThumbAt(i) ==
  LET at == {n \in DOMAIN frames : idx[frames[n]] = i}
  IN IF i = 0 \/ at = {} THEN None ELSE frames[CHOOSE n \in at : \A m \in at : n <= m]

SetStatus(f, s) == IF f = None THEN status ELSE [status EXCEPT ![f] = s]

\* _initFileActions binds every thumbnail anew, with the index it has now.
Bind(fr, ix) == [f \in Files |-> IF \E n \in DOMAIN fr : fr[n] = f THEN ix[f] ELSE bound[f]]

\* _resetFileStack: thumbnails that still have a file are numbered from the
\* start, in their order; the handlers keep the index they were bound with.
Holding(s) == Only(frames, {f \in Files : At(s, idx[f]) # None})

Renumbered(s) ==
  [f \in Files |->
     IF f \notin Shown THEN idx[f]
     ELSE IF \E n \in DOMAIN Holding(s) : Holding(s)[n] = f
          THEN CHOOSE n \in DOMAIN Holding(s) : Holding(s)[n] = f
          ELSE 0]

ResetFileStack(s) ==
  /\ stack' = [n \in DOMAIN Holding(s) |-> s[idx[Holding(s)[n]]]]
  /\ idx' = Renumbered(s)

Enable == isDisabled' = FALSE /\ off' = {}
Lock == isDisabled' = TRUE

Unlock(reset, s) ==
  /\ Enable
  /\ IF reset THEN ResetFileStack(s) ELSE stack' = s /\ UNCHANGED idx

\* _initSuccessThumbs
BindSuccess(st) ==
  bound' = [f \in Files |-> IF f \in Shown /\ st[f] = "Success" THEN SuccessHandler ELSE bound[f]]

Forgotten == [n \in DOMAIN requests |-> [requests[n] EXCEPT !.kept = FALSE]]

\* _resetUpload: what is under way is no longer known, nor can it be cancelled.
ResetUpload == uploadLog' = <<>> /\ uploadAsyncCount' = 0

\* The request of a synchronous upload holds the array that was the stack then:
\* keys is 0 while it still is, else the length it had when it was replaced.
BatchForgotten(replaced) ==
  batch' = IF batch = None THEN None
           ELSE [batch EXCEPT !.kept = FALSE, !.keys = IF @ = 0 /\ replaced THEN Len(stack) ELSE @]

Click == clicks < MaxClicks /\ clicks' = clicks + 1

-----------------------------------------------------------------------------
(* Reading files: readFile goes from file to file by a timer. *)

Later(node, todo) == [kind |-> "read", node |-> node, todo |-> todo]

Reading == loads # {} \/ \E n \in DOMAIN timers : timers[n].kind = "read" /\ timers[n].todo # <<>>

\* Mutant: a file that fails a test leaves no hole.
ReadFileNoHole(node, todo, s, fr, tm) ==
  \/ /\ todo = <<>>
     /\ stack' = s /\ frames' = fr /\ timers' = tm
     /\ UNCHANGED <<idx, bound, status, loads>>
  \/ /\ todo # <<>> /\ Head(todo) \in Valid
     /\ stack' = Append(s, Head(todo)) /\ frames' = fr /\ timers' = tm
     /\ loads' = loads \cup {[node |-> node, todo |-> todo]}
     /\ UNCHANGED <<idx, bound, status>>
  \/ /\ todo # <<>> /\ Head(todo) \notin Valid
     /\ stack' = s /\ timers' = Append(tm, Later(node + 1, Tail(todo)))
     /\ UNCHANGED <<frames, idx, bound, status, loads>>

\* readFile: the file goes on the stack when its reading starts; a file that
\* fails a test leaves a hole there and a thumbnail with an error.
ReadFile(node, todo, s, fr, tm) ==
  \/ /\ todo = <<>>
     /\ stack' = s /\ frames' = fr /\ timers' = tm
     /\ UNCHANGED <<idx, bound, status, loads>>
  \/ /\ todo # <<>> /\ Head(todo) \in Valid
     /\ stack' = Append(s, Head(todo)) /\ frames' = fr /\ timers' = tm
     /\ loads' = loads \cup {[node |-> node, todo |-> todo]}
     /\ UNCHANGED <<idx, bound, status>>
  \/ /\ todo # <<>> /\ Head(todo) \notin Valid
     /\ stack' = Append(s, None) /\ frames' = Append(fr, Head(todo))
     /\ idx' = [idx EXCEPT ![Head(todo)] = node]
     /\ status' = [status EXCEPT ![Head(todo)] = "Error"]
     /\ bound' = Bind(frames', idx')
     /\ timers' = Append(tm, Later(node + 1, Tail(todo)))
     /\ UNCHANGED loads

\* reader.onload
Load(r) ==
  /\ r \in loads
  /\ loads' = loads \ {r}
  /\ LET f == Head(r.todo) IN
       /\ frames' = Append(frames, f)
       /\ idx' = [idx EXCEPT ![f] = r.node]
       /\ status' = [status EXCEPT ![f] = "New"]
       /\ bound' = Bind(frames', idx')
       /\ timers' = Append(timers, Later(r.node + 1, Tail(r.todo)))
  /\ UNCHANGED <<uploadAsync, stack, off, fading, isDisabled, progress, requests, batch, history>>

Fresh(S) == Only(S, Files \ InStack(stack))

NoneTaken(S) ==
  Fresh(S) = <<>> \/ Cardinality({i \in DOMAIN stack : stack[i] # None}) + Len(Fresh(S)) > MaxFileCount

\* _change: the file dialog or a drop.  A selection of files that are all in
\* the stack, or of too many, changes nothing but what _resetUpload resets.
Select(S) ==
  LET fresh == Fresh(S)
      none == NoneTaken(S)
  IN /\ ~isDisabled /\ Click
     /\ ResetUpload /\ requests' = Forgotten
     /\ IF none
        THEN UNCHANGED <<stack, frames, idx, bound, status, loads, timers>>
        ELSE IF stack = <<>>
        THEN ReadFile(1, fresh, <<>>, Only(frames, {f \in Files : status[f] = "Success"}), timers)
        ELSE ReadFile(Len(stack) + 1, fresh, stack, frames, timers)
     /\ chosen' = chosen \cup {S[n] : n \in DOMAIN S}
     /\ BatchForgotten(~none /\ stack = <<>>)
     /\ events' = events \cup (IF Reading THEN {"overlap"} ELSE {}) \cup (IF fading # {} /\ stack = <<>> THEN {"fading"} ELSE {})
     /\ discarded' = IF none THEN discarded \cup {fresh[n] : n \in DOMAIN fresh} ELSE discarded
     /\ UNCHANGED <<uploadAsync, off, fading, isDisabled, fileBatchCompleted, accepted>>

-----------------------------------------------------------------------------
(* Sending *)

Request(i, all) == [i |-> i, file |-> At(stack, i), thumb |-> ThumbAt(i), all |-> all, kept |-> TRUE]

Timer(kind, r, id) == [kind |-> kind, req |-> r, id |-> id]

\* The thumbnail's id when the answer comes; without one, the id of the request.
IdOf(r) == IF r.thumb = None THEN r.i ELSE idx[r.thumb]

\* Mutant: the class of the state goes by another name.
LoadingMisnamed(set) == [f \in Files |-> IF f \in set /\ status[f] # "Success" THEN "Uploading" ELSE status[f]]

Loading(set) == [f \in Files |-> IF f \in set /\ status[f] # "Success" THEN "Loading" ELSE status[f]]

\* upload with uploadAsync: _uploadSingle for every file of the stack.
UploadAll ==
  LET sent == Only([n \in DOMAIN stack |-> n], {i \in DOMAIN stack : stack[i] # None})
      reqs == [n \in DOMAIN sent |-> Request(sent[n], TRUE)]
  IN /\ ~isDisabled /\ uploadAsync /\ InStack(stack) # {} /\ Click
     /\ Lock
     /\ uploadLog' = <<>> /\ uploadAsyncCount' = Len(sent) /\ fileBatchCompleted' = FALSE
     /\ requests' = Forgotten \o reqs
     /\ status' = Loading({reqs[n].thumb : n \in DOMAIN reqs})
     /\ off' = Shown
     /\ events' = events \cup (IF Reading THEN {"overlap"} ELSE {}) \cup (IF fading # {} THEN {"fading"} ELSE {})
     /\ UNCHANGED <<uploadAsync, stack, frames, idx, bound, fading, loads, timers, batch, chosen, accepted, discarded>>

\* upload without it: _uploadBatch, which marks every thumbnail (bound: one
\* such request is open at a time).
UploadBatch ==
  /\ ~isDisabled /\ ~uploadAsync /\ batch = None /\ InStack(stack) # {} /\ Click
  /\ Lock /\ ResetUpload /\ requests' = Forgotten
  /\ batch' = [sent |-> Only(stack, Files), kept |-> TRUE, keys |-> 0]
  /\ status' = Loading(Shown)
  /\ off' = Shown
  /\ events' = events \cup (IF Reading THEN {"overlap"} ELSE {}) \cup (IF fading # {} THEN {"fading"} ELSE {})
  /\ UNCHANGED <<uploadAsync, stack, frames, idx, bound, fading, fileBatchCompleted, loads, timers, chosen, accepted, discarded>>

\* The upload button of one thumbnail, which is hidden on a valid file only
\* after its success.  Locked or not does not matter: buttons of new thumbnails
\* and of those whose request has ended are enabled during an upload.
UploadOne(f) ==
  /\ f \in (Shown \cap Valid) \ off /\ status[f] \in {"New", "Error"} /\ f \notin {x[1] : x \in fading}
  /\ InStack(stack) # {} /\ Click
  /\ Lock
  /\ fileBatchCompleted' = FALSE
  /\ LET r == Request(idx[f], FALSE) IN
       /\ requests' = Append(requests, r)
       /\ status' = Loading({r.thumb})
  /\ off' = Shown
  /\ events' = events \cup (IF isDisabled THEN {"retry"} ELSE {}) \cup (IF Reading THEN {"overlap"} ELSE {})
  /\ UNCHANGED <<uploadAsync, stack, frames, idx, bound, fading, uploadLog, uploadAsyncCount, loads, timers, batch, chosen, accepted, discarded>>

\* fnSuccess and fnComplete set a timer each.
Accept(n) ==
  LET r == requests[n] IN
  /\ requests' = Seqs!RemoveAt(requests, n)
  /\ accepted' = accepted \cup ({r.file} \ {None})
  /\ timers' = timers \o <<Timer("success", r, IdOf(r)), Timer("complete", r, r.i)>>
  /\ UNCHANGED <<uploadAsync, stack, thumbs, fading, isDisabled, progress, loads, batch, chosen, discarded, events, clicks>>

\* fnError reads the name of the file of a batch request: when it has gone from
\* the stack that throws, and neither of the two timers is set.
Throws(r) == r.all /\ At(stack, r.i) = None

Refused(r) == IF Throws(r) THEN <<>> ELSE <<Timer("error", r, r.i), Timer("complete", r, r.i)>>

\* The server answers, but with an error (fnSuccess).
Refuse(n) ==
  LET r == requests[n] IN
  /\ requests' = Seqs!RemoveAt(requests, n)
  /\ timers' = timers \o <<Timer("error", r, IdOf(r)), Timer("complete", r, r.i)>>
  /\ UNCHANGED <<uploadAsync, stack, thumbs, fading, isDisabled, progress, loads, batch, history>>

\* It does not, or with a failure of HTTP (fnError).
Reject(n) ==
  /\ requests' = Seqs!RemoveAt(requests, n)
  /\ timers' = timers \o Refused(requests[n])
  /\ UNCHANGED <<uploadAsync, stack, thumbs, fading, isDisabled, progress, loads, batch, history>>

-----------------------------------------------------------------------------
(* The timers *)

Fire(kind) == timers # <<>> /\ Head(timers).kind = kind /\ timers' = Tail(timers)

\* The removals under way after a timer has fired.
Nearer == {<<x[1], x[2], IF x[3] = 0 THEN 0 ELSE x[3] - 1>> : x \in fading}

ReadNext ==
  /\ timers # <<>> /\ Head(timers).kind = "read"
  /\ ReadFile(Head(timers).node, Head(timers).todo, stack, frames, Tail(timers))
  /\ fading' = Nearer
  /\ UNCHANGED <<uploadAsync, off, isDisabled, progress, requests, batch, history>>

\* Mutant: the first answer completes the upload.
AsyncCompleteFirst(s, log) == log # <<>>

\* _checkAsyncComplete: every file of the stack is in the log, and the log is full.
AsyncComplete(s, log) ==
  /\ \A i \in DOMAIN s : s[i] # None => \E n \in DOMAIN log : log[n] = i
  /\ uploadAsyncCount = Len(log)

\* updateUploadLog
Log(s, id) ==
  /\ uploadLog' = Append(uploadLog, id)
  /\ fileBatchCompleted' = (fileBatchCompleted \/ AsyncComplete(s, uploadLog'))
  /\ UNCHANGED uploadAsyncCount

\* Mutant: the answer to a single file leaves it in the stack.
SuccessKept ==
  /\ Fire("success")
  /\ LET r == Head(timers).req IN
       /\ status' = SetStatus(r.thumb, "Success")
       /\ stack' = IF r.all THEN UpdateStack(stack, r.i, None) ELSE stack
       /\ IF r.all THEN Log(stack', Head(timers).id) ELSE UNCHANGED progress
  /\ fading' = Nearer
  /\ UNCHANGED <<uploadAsync, frames, idx, bound, off, isDisabled, loads, requests, batch, history>>

Success ==
  /\ Fire("success")
  /\ LET r == Head(timers).req IN
       /\ status' = SetStatus(r.thumb, "Success")
       /\ stack' = UpdateStack(stack, r.i, None)
       /\ IF r.all THEN Log(stack', Head(timers).id) ELSE UNCHANGED progress
  /\ fading' = Nearer
  /\ UNCHANGED <<uploadAsync, frames, idx, bound, off, isDisabled, loads, requests, batch, history>>

\* Mutant: a failed file is not logged.
ErrorUnlogged ==
  /\ Fire("error")
  /\ stack' = UpdateStack(stack, Head(timers).req.i, At(stack, Head(timers).req.i))
  /\ status' = SetStatus(Head(timers).req.thumb, "Error")
  /\ fading' = Nearer
  /\ UNCHANGED <<uploadAsync, frames, idx, bound, off, isDisabled, progress, loads, requests, batch, history>>

\* The file stays, and its thumbnail can be sent again (retryErrorUploads).
Error ==
  /\ Fire("error")
  /\ LET r == Head(timers).req IN
       /\ IF r.all THEN Log(stack, Head(timers).id) ELSE UNCHANGED progress
       /\ stack' = UpdateStack(stack, r.i, At(stack, r.i))
       /\ status' = SetStatus(r.thumb, "Error")
  /\ fading' = Nearer
  /\ UNCHANGED <<uploadAsync, frames, idx, bound, off, isDisabled, loads, requests, batch, history>>

\* fnComplete: a single upload unlocks, the last of a batch calls chkComplete.
Complete ==
  LET r == Head(timers).req IN
  /\ timers # <<>> /\ Head(timers).kind = "complete"
  /\ IF r.all
     THEN /\ timers' = Tail(timers) \o IF fileBatchCompleted THEN <<[kind |-> "check"]>> ELSE <<>>
          /\ off' = off \ {r.thumb} /\ UNCHANGED isDisabled
     ELSE timers' = Tail(timers) /\ Enable
  /\ BindSuccess(status)
  /\ fading' = Nearer
  /\ UNCHANGED <<uploadAsync, stack, frames, idx, status, progress, loads, requests, batch, history>>

\* Some remove handler keeps an index that is no longer its thumbnail's.
Stale == \E f \in Shown : bound'[f] > 0 /\ bound'[f] # idx'[f]

\* chkComplete: the numbering starts anew only when no file is left.
Check ==
  /\ Fire("check")
  /\ Unlock(InStack(stack) = {}, stack)
  /\ uploadLog' = <<>>
  /\ fading' = Nearer
  /\ UNCHANGED <<uploadAsync, frames, bound, status, uploadAsyncCount, fileBatchCompleted, loads, requests, batch>>
  /\ events' = events \cup (IF Stale THEN {"stale"} ELSE {})
  /\ UNCHANGED <<chosen, accepted, discarded, clicks>>

-----------------------------------------------------------------------------
(* The answers to a synchronous upload *)

Unmarked == Only(frames, {f \in Files : status[f] # "Success"})

\* Some thumbnail the answer is spread over is not that of a file that was sent.
Unsent == \E n \in DOMAIN Unmarked : ~\E k \in DOMAIN batch.sent : batch.sent[k] = Unmarked[n]

BatchOver(s, st) ==
  /\ batch' = None
  /\ status' = st
  /\ Unlock(TRUE, s)
  /\ BindSuccess(st)
  /\ events' = events \cup (IF Unsent THEN {"unsent"} ELSE {}) \cup (IF Stale THEN {"stale"} ELSE {})
  /\ UNCHANGED <<uploadAsync, frames, fading, progress, loads, timers, requests, chosen, discarded, clicks>>

\* setAllUploaded: all that is in the array now counts as sent.
Emptied ==
  IF batch.keys = 0 THEN [n \in DOMAIN stack |-> None]
  ELSE [n \in 1 .. (IF batch.keys > Len(stack) THEN batch.keys ELSE Len(stack)) |-> IF n <= batch.keys THEN None ELSE stack[n]]

AcceptBatch ==
  /\ batch # None
  /\ accepted' = accepted \cup {batch.sent[n] : n \in DOMAIN batch.sent}
  /\ BatchOver(Emptied, [f \in Files |-> IF f \in Shown THEN "Success" ELSE status[f]])

\* data.errorkeys: the server counts the files it got, the widget its thumbnails.
AcceptPart(keys) ==
  LET failed(n) == keys = {} \/ n \in keys
      nth(f) == CHOOSE n \in DOMAIN Unmarked : Unmarked[n] = f
      marked(f) == \E n \in DOMAIN Unmarked : Unmarked[n] = f
  IN /\ batch # None
     /\ accepted' = accepted \cup {batch.sent[n] : n \in {k \in DOMAIN batch.sent : ~failed(k)}}
     /\ BatchOver([i \in DOMAIN stack |-> IF \E f \in Shown : marked(f) /\ ~failed(nth(f)) /\ idx[f] = i THEN None ELSE stack[i]],
                  [f \in Files |-> IF ~marked(f) THEN status[f] ELSE IF failed(nth(f)) THEN "Error" ELSE "Success"])

\* Mutants: a failure marks what was sent as uploaded, or nothing at all.
FailedBatchAsSuccess == [f \in Files |-> IF f \in Shown /\ At(stack, idx[f]) # None THEN "Success" ELSE status[f]]
FailedBatchUnmarked == status

FailedBatch == [f \in Files |-> IF f \in Shown /\ At(stack, idx[f]) # None THEN "Error" ELSE status[f]]

RejectBatch ==
  /\ batch # None
  /\ UNCHANGED accepted
  /\ BatchOver(stack, FailedBatch)

-----------------------------------------------------------------------------
(* Removing, cancelling, clearing *)

\* The handler of the remove button: the thumbnail fades first, for 600 ms, so
\* that the timers of 100 ms that are set by now fire before it is gone.
Remove(f) ==
  /\ f \in Shown \ off /\ f \notin {x[1] : x \in fading} /\ Click
  /\ fading' = fading \cup {<<f, bound[f], Len(timers)>>}
  /\ discarded' = discarded \cup {f}
  /\ UNCHANGED <<uploadAsync, stack, thumbs, isDisabled, progress, loads, timers, requests, batch, chosen, accepted, events>>

\* The last thumbnail resets the widget.
Last(x) ==
  /\ \A n \in DOMAIN frames : frames[n] = x[1]
  /\ x[2] = SuccessHandler \/ InStack(UpdateStack(stack, x[2], None)) = {}

\* Then the entry at the handler's index goes and the thumbnail with it.
Faded(x) ==
  LET left == UpdateStack(stack, x[2], None)
  IN /\ x \in fading /\ x[3] = 0
     /\ fading' = fading \ {x}
     /\ frames' = Only(frames, Files \ {x[1]})
     /\ IF Last(x) THEN stack' = <<>> /\ ResetUpload /\ requests' = Forgotten /\ BatchForgotten(TRUE)
        ELSE stack' = left /\ UNCHANGED <<uploadLog, uploadAsyncCount, requests, batch>>
     /\ events' = events \cup IF Last(x) /\ InStack(left) # {} THEN {"reset"} ELSE {}
     /\ UNCHANGED <<uploadAsync, idx, bound, status, off, isDisabled, fileBatchCompleted, loads, timers,
                    chosen, accepted, discarded, clicks>>

\* cancel: every known request is aborted, its error and completion handlers run
\* at once, and each thumbnail unlocks.  An exception ends it half way.
Cancel ==
  LET known == {n \in DOMAIN requests : requests[n].kept}
      bad == {n \in known : Throws(requests[n])}
      stop == IF bad = {} THEN Len(requests) + 1 ELSE CHOOSE n \in bad : \A m \in bad : n <= m
      aborted == Only([n \in DOMAIN requests |-> n], {n \in known : n < stop})
      ends == [n \in 1 .. 2 * Len(aborted) |->
                 LET r == requests[aborted[(n + 1) \div 2]]
                 IN Timer(IF n % 2 = 1 THEN "error" ELSE "complete", r, r.i)]
      left == Only([n \in DOMAIN requests |-> n], (DOMAIN requests \ known) \cup {n \in known : n > stop})
      abortsBatch == batch # None /\ batch.kept
  IN /\ isDisabled /\ Click
     /\ requests' = [n \in DOMAIN left |-> requests[left[n]]]
     /\ timers' = timers \o ends
     /\ IF bad = {} /\ (frames # <<>> \/ abortsBatch) THEN Unlock(TRUE, stack) ELSE UNCHANGED <<isDisabled, off, stack, idx>>
     /\ IF abortsBatch THEN batch' = None /\ status' = FailedBatch /\ BindSuccess(status')
        ELSE UNCHANGED <<status, bound>> /\ (IF frames # <<>> THEN BatchForgotten(TRUE) ELSE UNCHANGED batch)
     /\ events' = events \cup {"cancel"}
     /\ UNCHANGED <<uploadAsync, frames, fading, progress, loads, chosen, accepted, discarded>>

\* clear: the button is hidden while the widget is locked.
Clear ==
  /\ ~isDisabled /\ Click
  /\ ResetUpload /\ requests' = Forgotten
  /\ stack' = <<>> /\ frames' = <<>>
  /\ discarded' = discarded \cup InStack(stack)
  /\ BatchForgotten(TRUE)
  /\ events' = events \cup (IF Reading THEN {"overlap"} ELSE {}) \cup (IF fading # {} THEN {"fading"} ELSE {})
  /\ UNCHANGED <<uploadAsync, idx, bound, status, off, fading, isDisabled, fileBatchCompleted, loads, timers, chosen, accepted>>

-----------------------------------------------------------------------------
(* The whole *)

Init ==
  /\ uploadAsync \in BOOLEAN
  /\ stack = <<>> /\ frames = <<>>
  /\ idx = [f \in Files |-> 0] /\ bound = [f \in Files |-> 0]
  /\ status = [f \in Files |-> "New"]
  /\ off = {} /\ fading = {} /\ isDisabled = FALSE
  /\ uploadLog = <<>> /\ uploadAsyncCount = 0 /\ fileBatchCompleted = FALSE
  /\ loads = {} /\ timers = <<>> /\ requests = <<>> /\ batch = None
  /\ chosen = {} /\ accepted = {} /\ discarded = {} /\ events = {} /\ clicks = 0

\* A selection: files not chosen before, or files that are in the stack.
Selections ==
  LET choice == InStack(stack) \cup {f \in Files : \A g \in chosen : g < f}
  IN {S \in UNION {[1 .. n -> choice] : n \in 1 .. MaxChosen} : \A i, j \in DOMAIN S : i < j => S[i] < S[j]}

User ==
  \/ \E S \in Selections : Select(S)
  \/ UploadAll
  \/ UploadBatch
  \/ \E f \in Files : UploadOne(f)
  \/ \E f \in Files : Remove(f)
  \/ Cancel
  \/ Clear

Server ==
  \/ \E n \in DOMAIN requests : Accept(n)
  \/ \E n \in DOMAIN requests : Refuse(n)
  \/ \E n \in DOMAIN requests : Reject(n)
  \/ AcceptBatch
  \/ \E keys \in SUBSET (IF batch = None THEN {} ELSE DOMAIN batch.sent) : AcceptPart(keys)
  \/ RejectBatch

Tick == ReadNext \/ Success \/ Error \/ Complete \/ Check

Browser ==
  \/ \E r \in loads : Load(r)
  \/ \E x \in fading : Faded(x)
  \/ Tick

Next == User \/ Server \/ Browser

\* The user need not do anything; every request is answered or fails in the end,
\* and the browser reads what it was asked to read and runs its timers.
Spec == Init /\ [][Next]_vars

FairSpec ==
  /\ Spec
  /\ WF_vars(Server) /\ WF_vars(Tick)
  /\ WF_vars(\E r \in loads : Load(r)) /\ WF_vars(\E x \in fading : Faded(x))

-----------------------------------------------------------------------------
(* Properties *)

\* Some sequences of actions break the correspondence between indices and
\* thumbnails, or the accounting of an upload, for good.  A property names those
\* after which it claims nothing:
\*   overlap  a selection, a clearing or an upload begins while files are read
\*   cancel   an upload is cancelled: its handlers are still to come
\*   retry    one file is sent while an upload is under way
\*   fading   an upload begins, or the stack starts anew, while a removal is under way
\*   stale    a new numbering leaves remove handlers with old indices
\*   unsent   the answer to a synchronous upload is spread over thumbnails of
\*            files that were not sent
\*   reset    the last thumbnail goes while the stack still has files
Happened(what) == events \cap what # {}

RequestType == [i : Nat, file : Files \cup {None}, thumb : Files \cup {None}, all : BOOLEAN, kept : BOOLEAN]

TimerType ==
  [kind : {"read"}, node : Nat, todo : Seq(Files)]
    \cup [kind : {"success", "error", "complete"}, req : RequestType, id : Nat]
    \cup [kind : {"check"}]

TypeOK ==
  /\ stack \in Seq(Files \cup {None}) /\ frames \in Seq(Files)
  /\ idx \in [Files -> Nat] /\ bound \in [Files -> Nat \cup {SuccessHandler}]
  /\ status \in [Files -> {"New", "Loading", "Success", "Error"}]
  /\ off \subseteq Files /\ fading \subseteq Files \X (Nat \cup {SuccessHandler}) \X Nat
  /\ {uploadAsync, isDisabled, fileBatchCompleted} \subseteq BOOLEAN
  /\ uploadLog \in Seq(Nat) /\ uploadAsyncCount \in Nat
  /\ loads \subseteq [node : Nat, todo : Seq(Files) \ {<<>>}]
  /\ timers \in Seq(TimerType) /\ requests \in Seq(RequestType)
  /\ batch = None \/ batch \in [sent : Seq(Files), kept : BOOLEAN, keys : Nat]
  /\ chosen \subseteq Files /\ accepted \subseteq Files /\ discarded \subseteq Files
  /\ events \subseteq {"overlap", "cancel", "retry", "fading", "stale", "unsent", "reset"}
  /\ clicks \in 0 .. MaxClicks

\* A file that reading has begun with is in the stack, was taken by the server
\* or was given up by the user: no removal, answer or renumbering drops another.
Started == {f \in chosen \cap Valid : f \in Shown \/ \E r \in loads : Head(r.todo) = f}

NothingLost ==
  \/ Happened({"overlap", "cancel", "retry", "fading", "stale", "unsent", "reset"})
  \/ Started \subseteq InStack(stack) \cup accepted \cup discarded

\* Only a file the server has taken is shown as uploaded.
UploadedWasAccepted ==
  \/ Happened({"overlap", "cancel", "retry", "fading", "stale", "unsent", "reset"})
  \/ \A f \in Shown : status[f] = "Success" => f \in accepted

\* What the server has taken leaves the stack with the answer's timer and is not
\* sent a second time by the next upload.  The answer to a synchronous one is spread
\* over the thumbnails by their numbers, so these must be those of the files.
Finishing(f) == \E n \in DOMAIN timers : timers[n].kind = "success" /\ timers[n].req.file = f

NotSentAgain ==
  \/ Happened({"overlap", "cancel"})
  \/ ~uploadAsync /\ Happened({"stale", "fading", "reset"})
  \/ \A f \in accepted \cap InStack(stack) : Finishing(f)

\* As long as a request is open the widget takes no files and begins no upload.
LockedWhileUploading ==
  \/ Happened({"cancel", "retry"})
  \/ requests # <<>> \/ batch # None => isDisabled

\* The index is the link between a file, its thumbnail and the remove handler: a
\* file of the stack that is not being read or removed has all three in step.
IndexFindsFile ==
  \/ Happened({"overlap", "cancel", "retry", "fading", "stale", "reset"})
  \/ \A i \in DOMAIN stack :
       LET f == stack[i] IN
       \/ f \in {None} \cup discarded
       \/ \E r \in loads : Head(r.todo) = f
       \/ f \in Shown /\ ThumbAt(i) = f /\ bound[f] = i

\* An upload ends: the widget is unlocked again, whatever the answers are.
EventuallyUnlocked ==
  isDisabled ~> (~isDisabled \/ Happened({"overlap", "cancel", "retry", "fading"}))

\* A file that is being sent gets its result.
EverySentFileSettles ==
  \A f \in Valid : status[f] = "Loading" ~> (status[f] # "Loading" \/ Happened({"overlap", "retry", "fading"}))

=============================================================================
