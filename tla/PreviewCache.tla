---------------------------- MODULE PreviewCache ----------------------------
(***************************************************************************)
(* The stored files the upload widget shows, as base-file.js uses it       *)
(* (uploadAsync and overwriteInitial are false): the same list is kept as  *)
(* initialPreview, as the content of previewCache, as thumbnails, each     *)
(* with an index into the others, and as the fileIds of the form.  Files   *)
(* are uploaded, deleted and sorted.  What interleaves is the user, the    *)
(* answers of the server, the fading out of thumbnails and a drag.         *)
(*                                                                         *)
(* An item stands for a stored file: its entry in initialPreview, in       *)
(* initialPreviewConfig, which is moved with it, its key and its id.  An   *)
(* index of the code is one less than here.  A thumbnail is an item and    *)
(* the generation of the page it was built in; the thumbnail of a file     *)
(* that is chosen but not yet uploaded has generation 0.                   *)
(*                                                                         *)
(* The button of a stored thumbnail deletes its file, unless a file was    *)
(* read since it was bound: then it only takes the thumbnail away.         *)
(***************************************************************************)
EXTENDS Sortable

CONSTANTS
  Loaded,     \* the sequence of the items the page is opened with
  New,        \* the files the user may choose, as the items they become
  MaxClicks   \* bound: the number of actions of the user

ASSUME ItemsAssumption ==
  /\ Loaded \in Seq(Nat) /\ Seqs!IsInjective(Loaded)
  /\ New \subseteq Nat /\ New \cap {Loaded[n] : n \in DOMAIN Loaded} = {}
  /\ None \notin Nat /\ None \notin Seq(Nat \cup {None})
ASSUME MaxClicksAssumption == MaxClicks \in Nat

VARIABLES
  reverse,         \* the option reversePreviewOrder
  initialPreview,  \* with initialPreviewConfig
  content,         \* previewCache.data.content, with config; None: undefined
  index,           \* data-fileindex of the thumbnails
  gen,             \* history: the generation of the page
  sending,         \* the request of an upload: the files, and whether it is a single one
  asked,           \* open requests for the deletion of a thumbnail
  fading,          \* thumbnails that fade out, deleted or uploaded
  local,           \* the buttons of stored thumbnails are those of files chosen
  leaving,         \* stored thumbnails that fade out at such a button
  hidden,          \* history: items listed whose thumbnail has left the page so
  fileIds,         \* options.fileIds of BaseFile
  stored, deleted, events, clicks  \* history; events is explained at Happened

history == <<gen, stored, deleted, events, clicks>>
lists == <<initialPreview, content, index>>
buttons == <<local, leaving, hidden>>
vars == <<reverse, page, boxed, drag, lists, sending, asked, fading, buttons, fileIds, history>>

Items == {Loaded[n] : n \in DOMAIN Loaded} \cup New
Frames == [item : Items, gen : 0 .. MaxClicks + 1]

\* No value that a drag can have is taken for the absence of one.
ASSUME NoneAssumption ==
  None \notin [frame : Frames, oldIndex : Nat \ {0}, active : BOOLEAN, moved : BOOLEAN]

-----------------------------------------------------------------------------
(* The arrays *)

\* $.extend(true, [], a) drops what is undefined at the end.
Copy(s) == SubSeq(s, 1, CHOOSE n \in 0 .. Len(s) : /\ \A m \in n + 1 .. Len(s) : s[m] = None
                                                   /\ n > 0 => s[n] # None)

Turned(s) == IF reverse THEN Seqs!Reverse(s) ELSE s

\* spliceArray counts the index from the end if the order is reversed.
Splice(s, i) ==
  LET c == Copy(s)
      at == IF reverse THEN Len(c) + 1 - i ELSE i
  IN IF at \in DOMAIN c THEN Seqs!RemoveAt(c, at) ELSE c

\* Mutant: the entry is put in before the old one is taken out.
MoveInsertsFirst(s, oldIndex, newIndex) ==
  LET c == Turned(Copy(s))
  IN IF {oldIndex, newIndex} \subseteq DOMAIN c
     THEN Turned(Seqs!RemoveAt(Seqs!InsertAt(c, newIndex, c[oldIndex]), oldIndex)) ELSE s

\* moveArray fills up to newIndex with undefined.
Move(s, oldIndex, newIndex) ==
  LET c == Turned(Copy(s))
      padded == c \o [n \in 1 .. newIndex - Len(c) |-> None]
      e == IF oldIndex \in DOMAIN padded THEN padded[oldIndex] ELSE None
      rest == IF oldIndex \in DOMAIN padded THEN Seqs!RemoveAt(padded, oldIndex) ELSE padded
  IN Turned(Seqs!InsertAt(rest, newIndex, e))

\* _mergeArray with cleanArray
Merge(s, more) == Only(s, Items) \o more

Count == IF content = None THEN 0 ELSE Len(content)

-----------------------------------------------------------------------------
(* The thumbnails *)

Initial(f) == f.gen > 0

Chosen == Only(page, {f \in Elements : ~Initial(f)} \ fading)

\* The thumbnails of stored files, in the order of the list.
Listed == Turned(Only(page, {f \in Elements : Initial(f)}))

\* previewCache.out: a thumbnail for each entry.
Built(c) ==
  LET entries == Only(c, Items)
  IN Turned([n \in DOMAIN entries |-> [item |-> entries[n], gen |-> gen + 1]])

\* A deletion under way holds on to a thumbnail that is not shown any more.
Held == \E f \in Elements : Initial(f) /\ (f \in fading \/ asked[f] > 0)

\* _setPreviewContent, _initPreviewActions, which binds the buttons of all stored
\* thumbnails, and _initSortable, with the cache c.
Rebuild(c) ==
  /\ page' = Built(c)
  /\ boxed' = {}
  /\ drag' = IF Built(c) = <<>> THEN drag ELSE None
  /\ index' = [f \in Frames |->
                 IF f.gen = gen + 1 /\ \E n \in DOMAIN c : c[n] = f.item
                 THEN CHOOSE n \in DOMAIN c : c[n] = f.item ELSE index[f]]
  /\ gen' = gen + 1
  /\ local' = FALSE /\ hidden' = {}

Click == clicks < MaxClicks /\ "threw" \notin events /\ clicks' = clicks + 1

\* A drag that had moved its thumbnail ends without a sort.
Aborted == IF drag # None /\ drag' = None /\ drag.moved THEN {"aborted"} ELSE {}

-----------------------------------------------------------------------------
(* The user *)

\* A file was chosen and has been read, maybe during a drag, which ends.  With
\* nothing to show the preview is cleared first.  _initFileActions binds the remove
\* buttons of all thumbnails on the page, those of stored files among them.
Choose(x) ==
  LET shown == IF Count = 0 /\ Chosen = <<>> THEN Only(page, fading) ELSE page
      new == [item |-> x, gen |-> 0]
  IN /\ Click /\ sending = None
     /\ x \in New \ stored /\ new \notin Elements
     /\ page' = IF reverse THEN <<new>> \o shown ELSE Append(shown, new)
     /\ drag' = Renewed(page', boxed)
     /\ events' = events \cup Aborted
     /\ local' = TRUE
     /\ UNCHANGED <<reverse, boxed, lists, sending, asked, fading, leaving, hidden, fileIds, gen, stored, deleted>>

\* During an upload all buttons are disabled; during a deletion they are not.
AskDelete(f) ==
  /\ Click /\ sending = None /\ drag = None /\ ~local
  /\ f \in Elements /\ Draggable(f)
  /\ asked' = [asked EXCEPT ![f] = @ + 1]
  /\ UNCHANGED <<reverse, page, boxed, drag, lists, sending, fading, buttons, fileIds, gen, stored, deleted, events>>

\* The button as _initFileActions has bound it asks nobody: the thumbnail fades out.  One
\* that fades out already will be gone when it would begin again.
Hide(f) ==
  /\ Click /\ sending = None /\ drag = None /\ local
  /\ f \in Elements /\ Draggable(f) /\ f \notin fading \cup leaving
  /\ leaving' = leaving \cup {f}
  /\ UNCHANGED <<reverse, page, boxed, drag, lists, sending, asked, fading, local, hidden, fileIds, gen, stored,
                 deleted, events>>

Upload(files, one) ==
  /\ Click /\ sending = None /\ drag = None
  /\ sending' = [files |-> files, one |-> one]
  /\ UNCHANGED <<reverse, page, boxed, drag, lists, asked, fading, buttons, fileIds, gen, stored, deleted, events>>

UploadAll == Chosen # <<>> /\ Upload(Turned([n \in DOMAIN Chosen |-> Chosen[n].item]), FALSE)

UploadOne == \E n \in DOMAIN Chosen : Upload(<<Chosen[n].item>>, TRUE)

\* clear: the files chosen go, what is stored is shown anew.
Clear ==
  /\ Click /\ sending = None /\ drag = None
  /\ IF Count > 0
     THEN /\ Rebuild(content)
          /\ events' = events \cup (IF Held THEN {"rebuilt"} ELSE {})
          /\ UNCHANGED content
     ELSE /\ page' = <<>> /\ boxed' = {} /\ content' = None
          /\ UNCHANGED <<drag, index, gen, local, hidden, events>>
  /\ UNCHANGED <<reverse, initialPreview, sending, asked, fading, leaving, fileIds, stored, deleted>>

-----------------------------------------------------------------------------
(* Answers to an upload *)

Files == {sending.files[n] : n \in DOMAIN sending.files}

\* addFileIds and deleteFileIds of BaseFile: no id twice, none that is not there.
AddFileIds(ids) == fileIds \cup ids
DeleteFileIds(ids) == fileIds \ ids

\* _initUploadSuccess merges initialPreview even where it replaces the cache.
Stored(append) ==
  /\ sending' = None
  /\ stored' = stored \cup Files
  /\ initialPreview' = Merge(initialPreview, sending.files)
  /\ UNCHANGED <<reverse, asked, deleted, clicks>>

Misled(append) ==
  (IF ~append /\ Count > 0 THEN {"replaced"} ELSE {})
    \cup (IF \E n \in DOMAIN initialPreview : initialPreview[n] = None THEN {"holed"} ELSE {})

\* Mutant: base-file.js listens to fileuploaded only.
AcceptAllUnlisted(append) ==
  LET c == IF append /\ content # None THEN content \o sending.files ELSE sending.files
  IN /\ sending # None /\ ~sending.one
     /\ Stored(append)
     /\ content' = c
     /\ Rebuild(c)
     /\ events' = events \cup Misled(append) \cup (IF Held THEN {"rebuilt"} ELSE {})
     /\ UNCHANGED <<fading, leaving, fileIds>>

\* The files of one request: the page is built anew.
AcceptAll(append) ==
  LET c == IF append /\ content # None THEN content \o sending.files ELSE sending.files
  IN /\ sending # None /\ ~sending.one
     /\ Stored(append)
     /\ content' = c
     /\ Rebuild(c)
     /\ fileIds' = AddFileIds(Files)
     /\ events' = events \cup Misled(append) \cup (IF Held THEN {"rebuilt"} ELSE {})
     /\ UNCHANGED <<fading, leaving>>

\* The new thumbnail x is not the last one (with reversePreviewOrder the first).
Passed(x) ==
  \E n, m \in DOMAIN page :
    page[n].item = x /\ Initial(page[m]) /\ page[m].item # x /\ IF reverse THEN m < n ELSE m > n

\* A single file: its new thumbnail waits in a box behind the chosen one until
\* that has faded out.  After clear with an empty cache there is no array to push
\* it to; and where it replaces the cache its config and its tag, which the server
\* does not send, become the lists of all of them.  Either is an exception before
\* there is a thumbnail and before fileuploaded is announced.
AcceptOne(append) ==
  LET x == sending.files[1]
      thumb == [item |-> x, gen |-> 0]
      new == [item |-> x, gen |-> gen]
      at == CHOOSE n \in DOMAIN page : page[n] = thumb
  IN /\ sending # None /\ sending.one
     /\ Stored(append)
     /\ IF append /\ content # None
        THEN /\ content' = Append(content, x)
             /\ page' = Seqs!InsertAt(page, at + 1, new)
             /\ boxed' = boxed \cup {new}
             /\ index' = [index EXCEPT ![new] = Len(content) + 1]
             /\ fading' = fading \cup {thumb}
             /\ fileIds' = AddFileIds({x})
             /\ events' = events \cup Misled(append)
                  \cup (IF Passed(x) THEN {"unordered"} ELSE {})
        ELSE /\ content' = IF append THEN content ELSE <<x>>
             /\ events' = events \cup Misled(append) \cup {"threw"}
             /\ UNCHANGED <<page, boxed, index, fading, fileIds>>
     /\ UNCHANGED <<drag, gen, buttons>>

UploadFails ==
  /\ sending # None
  /\ sending' = None
  /\ UNCHANGED <<reverse, page, boxed, drag, lists, asked, fading, buttons, fileIds, history>>

\* The chosen thumbnail is gone and the new one takes its place; _initPreviewActions
\* binds the buttons of all stored ones.
FadedChosen(f) ==
  /\ f \in fading /\ ~Initial(f)
  /\ fading' = fading \ {f}
  /\ page' = Without(f)
  /\ boxed' = {g \in boxed : g.item # f.item}
  /\ drag' = Renewed(page', boxed')
  /\ events' = events \cup Aborted
  /\ local' = FALSE
  /\ UNCHANGED <<reverse, lists, sending, asked, leaving, hidden, fileIds, gen, stored, deleted, clicks>>

-----------------------------------------------------------------------------
(* Answers to a deletion *)

\* What a deletion does if the drag under way began behind the thumbnail.
Before(f, g) == IF reverse THEN index[f] > index[g] ELSE index[f] < index[g]

\* Mutant: those behind it on the page, whatever their index.
MovedDownAll(i) ==
  [g \in Frames |-> IF g \in Elements /\ Initial(g) /\ index[g] > 1 THEN index[g] - 1 ELSE index[g]]

\* _deleteFileIndex: the thumbnails on the page with a higher index move down.
MovedDown(i) ==
  [g \in Frames |-> IF g \in Elements /\ Initial(g) /\ index[g] > i THEN index[g] - 1 ELSE index[g]]

\* Mutant: the cache does not know of the reversed order.
CacheWithoutForward(i) == IF i \in 1 .. Count THEN Seqs!RemoveAt(content, i) ELSE content

\* unset
CacheWithout(i) == IF Count = 0 THEN content ELSE IF Count = 1 THEN <<>> ELSE Splice(content, i)

\* unset, _deleteFileIndex and filedeleted, with the index the thumbnail has now.
Removed(f) ==
  LET i == index[f]
  IN /\ content' = CacheWithout(i)
     /\ initialPreview' = Splice(IF Count = 1 THEN <<>> ELSE initialPreview, i)
     /\ index' = MovedDown(i)
     /\ fileIds' = DeleteFileIds({f.item})
     /\ deleted' = deleted \cup {f.item}
     /\ page' = Without(f)
     /\ events' = events
          \cup (IF reverse /\ 2 * i # Count + 1 THEN {"reversed"} ELSE {})
          \cup (IF f \notin Elements THEN {"again"} ELSE {})
          \cup (IF drag # None /\ (f = drag.frame \/ Before(f, drag.frame)) THEN {"dragged"} ELSE {})
     /\ UNCHANGED <<reverse, boxed, drag, sending, buttons, gen, stored, clicks>>

Answered(f) == asked[f] > 0 /\ asked' = [asked EXCEPT ![f] = @ - 1]

\* What is not in the document fades out at once.  A second fading of a thumbnail
\* waits for the first, and is lost with it.
DeleteSucceeds(f) ==
  /\ Answered(f)
  /\ IF f \in Elements
     THEN /\ fading' = fading \cup ({f} \ leaving)
          /\ UNCHANGED <<reverse, page, boxed, drag, lists, sending, buttons, fileIds, history>>
     ELSE Removed(f) /\ UNCHANGED fading

DeleteFails(f) ==
  /\ Answered(f)
  /\ UNCHANGED <<reverse, page, boxed, drag, lists, sending, fading, buttons, fileIds, history>>

\* Mutant: nothing is removed during a drag.
FadedDeletedUndragged(f) ==
  /\ f \in fading /\ Initial(f) /\ drag = None
  /\ fading' = fading \ {f}
  /\ Removed(f)
  /\ UNCHANGED asked

FadedDeleted(f) ==
  /\ f \in fading /\ Initial(f)
  /\ fading' = fading \ {f}
  /\ Removed(f)
  /\ UNCHANGED asked

\* At the end of _initFileActions' fading the thumbnail is removed, and nothing else: what is
\* taken from the stack is at an index it does not have.
FadedHidden(f) ==
  /\ f \in leaving
  /\ leaving' = leaving \ {f}
  /\ page' = Without(f)
  /\ hidden' = IF f \in Elements THEN hidden \cup {f.item} ELSE hidden
  /\ events' = events \cup (IF drag # None /\ f = drag.frame THEN {"dragged"} ELSE {})
  /\ UNCHANGED <<reverse, boxed, drag, lists, sending, asked, fading, local, fileIds, gen, stored, deleted, clicks>>

-----------------------------------------------------------------------------
(* Sorting *)

Others == <<reverse, sending, asked, fading, buttons, fileIds, gen, stored, deleted>>

\* onSort: the thumbnails are numbered anew, in the order of the entries.
Sorted(oldIndex, newIndex) ==
  /\ initialPreview' = Move(initialPreview, oldIndex, newIndex)
  /\ content' = initialPreview'
  /\ index' = [f \in Frames |-> IF \E n \in DOMAIN Listed : Listed[n] = f
                                THEN CHOOSE n \in DOMAIN Listed : Listed[n] = f ELSE index[f]]
  /\ events' = events \cup (IF boxed # {} THEN {"unordered"} ELSE {}) \cup (IF hidden # {} THEN {"hidden"} ELSE {})

StartDrag == Click /\ (\E f \in Elements : TapStart(f)) /\ UNCHANGED <<lists, Others, events>>

Drag == (DragStarted \/ DragOver) /\ UNCHANGED <<lists, Others, events, clicks>>

EndDrag ==
  /\ Drop
  /\ IF Announced THEN Sorted(drag.oldIndex, Index(drag.frame)) ELSE UNCHANGED <<lists, events>>
  /\ UNCHANGED <<Others, clicks>>

-----------------------------------------------------------------------------

Init ==
  /\ reverse \in BOOLEAN
  /\ initialPreview = Loaded /\ content = Loaded
  /\ gen = 1
  /\ page = Turned([n \in DOMAIN Loaded |-> [item |-> Loaded[n], gen |-> 1]])
  /\ index = [f \in Frames |-> IF f.gen = 1 /\ \E n \in DOMAIN Loaded : Loaded[n] = f.item
                               THEN CHOOSE n \in DOMAIN Loaded : Loaded[n] = f.item ELSE 0]
  /\ boxed = {} /\ drag = None /\ sending = None
  /\ asked = [f \in Frames |-> 0] /\ fading = {}
  /\ local = FALSE /\ leaving = {} /\ hidden = {}
  /\ fileIds = {Loaded[n] : n \in DOMAIN Loaded} /\ stored = fileIds /\ deleted = {}
  /\ events = {} /\ clicks = 0

User ==
  \/ \E x \in New : Choose(x)
  \/ \E f \in Frames : AskDelete(f) \/ Hide(f)
  \/ UploadAll \/ UploadOne \/ Clear

UploadAnswered == (\E a \in BOOLEAN : AcceptAll(a) \/ AcceptOne(a)) \/ UploadFails

DeleteAnswered(f) == DeleteSucceeds(f) \/ DeleteFails(f)

Faded(f) == FadedChosen(f) \/ FadedDeleted(f) \/ FadedHidden(f)

Next ==
  \/ User \/ StartDrag \/ Drag \/ EndDrag
  \/ UploadAnswered
  \/ \E f \in Frames : DeleteAnswered(f) \/ Faded(f)

Spec == Init /\ [][Next]_vars

\* Fading takes 600 ms.
FairSpec == Spec /\ WF_vars(\E f \in Frames : Faded(f))

-----------------------------------------------------------------------------
(***************************************************************************)
(* What goes wrong in this code.  events records that it happened:         *)
(*   reversed   a deletion with reversePreviewOrder: the index is counted  *)
(*              from the wrong end                                         *)
(*   again      a thumbnail was deleted that is not shown any more, with   *)
(*              the index it had (its button stays alive while the first   *)
(*              request is open, and may take it away meanwhile)           *)
(*   rebuilt    the page was built anew while a deletion was under way:    *)
(*              the deleted file is shown again                            *)
(*   dragged    the thumbnail that is dragged, or a deleted one before it, *)
(*              faded out                                                  *)
(*   replaced   an answer with append: false: the cache is replaced, and   *)
(*              initialPreview extended                                    *)
(*   unordered  a single file was uploaded whose thumbnail is not the last *)
(*              one, or a sort, which does not count what is in a box yet, *)
(*              came before it had taken its place                         *)
(*   holed      undefined entries were left out of one array only          *)
(*   aborted    a file was read, or a single upload faded out, during a    *)
(*              drag: the thumbnail stays where it was moved, unsorted     *)
(*   threw      a single file was uploaded after a clear with no file      *)
(*              left, or with append: false                                *)
(*   hidden     a sort with a file listed whose thumbnail has left the     *)
(*              page alone: the places on the page are those of other      *)
(*              entries                                                    *)
(***************************************************************************)
Happened(bad) == events \cap bad # {}

TypeOK ==
  /\ reverse \in BOOLEAN
  /\ page \in Seq(Frames) /\ boxed \subseteq Frames
  /\ drag = None \/ drag \in [frame : Frames, oldIndex : Nat \ {0}, active : BOOLEAN, moved : BOOLEAN]
  /\ initialPreview \in Seq(Items \cup {None})
  /\ content = None \/ content \in Seq(Items \cup {None})
  /\ index \in [Frames -> Int]
  /\ sending = None \/ sending \in [files : Seq(Items), one : BOOLEAN]
  /\ asked \in [Frames -> Nat] /\ fading \subseteq Frames
  /\ local \in BOOLEAN /\ leaving \subseteq Frames /\ hidden \subseteq Items
  /\ fileIds \subseteq Items /\ stored \subseteq Items /\ deleted \subseteq Items
  /\ gen \in 0 .. MaxClicks + 1 /\ clicks \in 0 .. MaxClicks

\* The cache, which is what is shown, and initialPreview, which is what is
\* sorted, are kept by different code and stay the same list (fileinput.js,
\* previewCache.unset and _deleteFileIndex, set and _mergeArray, onSort).
CacheAgrees ==
  ~Happened({"replaced", "holed", "threw"}) =>
    IF content = None THEN initialPreview = <<>> ELSE content = initialPreview

\* The index a thumbnail has, and with which it will be deleted, is that of its
\* own file, whatever was deleted, uploaded and sorted before, and whatever thumbnails
\* have left the page alone (data-fileindex).
FrameNamesItem ==
  ~Happened({"reversed", "again", "dragged", "replaced", "unordered", "aborted", "hidden"}) =>
    \A f \in Elements : Initial(f) =>
      index[f] \in DOMAIN initialPreview /\ initialPreview[index[f]] = f.item

\* What the form sends is what is listed, and that is all that was loaded or
\* stored and not deleted: no id is lost or left over (base-file.js,
\* deleteFileIds and addFileIds).
IdsAgree ==
  ~Happened({"reversed", "again", "dragged", "replaced", "unordered", "aborted", "hidden", "threw"}) =>
    /\ fileIds = {initialPreview[n] : n \in DOMAIN initialPreview}
    /\ fileIds = stored \ deleted

\* When nothing is dragged or waits in its box the thumbnails are in the order of
\* the list, and only those are missing that a button has taken away, so that the next
\* sort, which counts them on the page, moves the entry of the thumbnail that was
\* dragged if none is missing (onSort, moveArray).
PageInOrder ==
  (drag = None /\ boxed = {}
    /\ ~Happened({"reversed", "again", "dragged", "replaced", "unordered", "aborted", "hidden", "threw"})) =>
    [n \in DOMAIN Listed |-> Listed[n].item] = Only(initialPreview, Items \ hidden)

\* A file the server has deleted leaves the page, unless the page was built anew
\* meanwhile (fadeOut in fnSuccess).
DeletedLeaves ==
  \A x \in Items :
    (\E f \in fading : Initial(f) /\ f.item = x)
      ~> (Happened({"rebuilt"}) \/ \A f \in Elements : Initial(f) => f.item # x)

=============================================================================
