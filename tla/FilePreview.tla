---------------------------- MODULE FilePreview ----------------------------
(***************************************************************************)
(* What the upload widget does with the content of a file it has read, by  *)
(* the side of FileInput: an html file is purified before it is shown, and *)
(* with the option resizeImage the pictures of a selection are replaced by *)
(* smaller ones, with their Exif data put into those, once the browser has *)
(* loaded all of them.  The stack names the file an entry was made from.   *)
(***************************************************************************)
EXTENDS FileInput, Purify, Exif

CONSTANTS
  Pictures,       \* the files that are pictures
  Broken,         \* those the browser may fail to show
  ExifChoices,    \* the Exif data the pictures may have
  Html            \* the files that are html

ASSUME PreviewAssumption ==
  /\ Broken \subseteq Pictures /\ Pictures \cup Html \subseteq Files
  /\ ExifChoices \subseteq [Pictures -> UNION {{e[f] : f \in Pictures} : e \in ExifChoices}]

ASSUME ExifAssumption == \A e \in ExifChoices, f \in Pictures : e[f] = Missing \/ IsDictionary(e[f])

VARIABLES
  shown,             \* img elements the browser works at: file, index, what is awaited
  loadedImages, totalImagesCount,
  resized,           \* the files that have been replaced by smaller pictures
  exif, smaller,     \* of pictures being replaced: the Exif data, and what is in the smaller ones
  mishaps            \* history: see AllResized

counts == <<loadedImages, totalImagesCount>>
images == <<shown, counts, resized, mishaps>>
content == <<purifyVars, exif, smaller>>
allVars == <<vars, images, content>>

-----------------------------------------------------------------------------
(* Pictures *)

Waiting == Reading \/ shown # {}

\* What the user does before all pictures of a selection are loaded.
Noted == mishaps' = mishaps \cup IF clicks' # clicks /\ Waiting THEN {"early"} ELSE {}

\* readFiles counts the pictures of the selection, those included that fail a
\* test of readFile afterwards; _resetUpload has set the counters to zero.
Announce(S) ==
  LET pictures == {f \in Seqs!Range(Fresh(S)) : f \in Pictures}
  IN /\ loadedImages' = <<>>
     /\ totalImagesCount' = IF NoneTaken(S) THEN 0 ELSE Cardinality(pictures)
     /\ mishaps' = mishaps \cup (IF Waiting THEN {"early"} ELSE {})
                           \cup (IF pictures \subseteq Valid THEN {} ELSE {"unseen"})

Uncounted == loadedImages' = <<>> /\ totalImagesCount' = 0

\* The content of a file is looked at in one step, or in one call of sanitize.
Through == original' = <<>> /\ doc' = <<>> /\ pos' = 1 /\ exif' = None /\ smaller' = <<>>

\* _previewFile: the orientation of a picture is read from the file first.
Show(r) ==
  LET f == Head(r.todo) IN
  /\ shown' = IF f \in Pictures THEN shown \cup {[file |-> f, ind |-> r.node, awaits |-> "orientation"]} ELSE shown
  /\ IF f \in Html THEN original' \in HtmlDocuments ELSE original' = <<>>
  /\ doc' = original' /\ pos' = 1 /\ exif' = None /\ smaller' = <<>>

\* _validateImage looks for the thumbnail by the id it was given, and keeps its index.
Oriented(p) ==
  /\ p \in shown /\ p.awaits = "orientation"
  /\ shown' = (shown \ {p}) \cup
       (IF ThumbAt(p.ind) \in Pictures THEN {[p EXCEPT !.file = ThumbAt(p.ind), !.awaits = "load"]} ELSE {})
  /\ mishaps' = mishaps \cup IF ThumbAt(p.ind) \in Pictures THEN {} ELSE {"unseen"}
  /\ Through
  /\ UNCHANGED <<vars, counts, resized>>

Canvas == <<[kind |-> "soi"], [kind |-> "app0"], [kind |-> "rest"]>>

ExifData == {e[f] : e \in ExifChoices, f \in Pictures}

\* What load finds in the picture that _getResizedImage makes.
Kept ==
  [d \in ExifData |-> IF d = Missing THEN Missing ELSE Said(ExifLoad(GetExifSeg(Insert(Dump(d), Canvas))))]

DumpThrows == [d \in ExifData |-> d # Missing /\ ExifThrows(d)]

\* Mutant: the place in the list is taken for the index.
EntriesByPlace(list, failed) ==
  Seqs!FoldLeft(LAMBDA s, n : UpdateStack(s, n, IF list[n].file \in failed THEN None ELSE list[n].file),
             stack, [n \in DOMAIN list |-> n])

\* The smaller pictures go into the stack whether their entries are still there
\* or not; one that failed is taken from it.
Entries(list, failed) ==
  Seqs!FoldLeft(LAMBDA s, p : UpdateStack(s, p.ind, IF p.file \in failed THEN None ELSE p.file), stack, list)

\* _getResizedImage for every picture.  Its Exif data is what load makes of it.  A
\* picture fails that has no size (isValidImage), or by an exception of dump or insert.
ResizeAll(list) ==
  LET all == {list[n].file : n \in DOMAIN list}
  IN \E e \in ExifChoices, invalid \in SUBSET (all \cap Broken) :
       LET failed == invalid \cup {f \in all : DumpThrows[e[f]]}
       IN /\ stack' = Entries(list, failed)
          /\ status' = [f \in Files |-> IF f \in failed THEN "Error" ELSE status[f]]
          /\ resized' = resized \cup (all \ failed)
          /\ exif' = e /\ smaller' = [f \in all \ failed |-> Kept[e[f]]]

\* Mutant: all pictures but one are loaded.
AllLoadedButOne(list) == Len(list) + 1 = totalImagesCount

\* _validateAllImages (its flag validated never tells: the list only grows until
\* it is emptied, so that it has this length once).
AllLoaded(list) == Len(list) = totalImagesCount

\* The load handler goes with the thumbnail.  A picture is complete also if it had failed
\* before the handlers were bound: then load is triggered all the same.
ImageLoads(p) ==
  /\ p \in shown /\ p.awaits = "load" /\ p.file \in Shown
  /\ shown' = shown \ {p}
  /\ loadedImages' = Append(loadedImages, [file |-> p.file, ind |-> p.ind])
  /\ IF AllLoaded(loadedImages') THEN ResizeAll(loadedImages')
     ELSE UNCHANGED <<stack, resized, status>> /\ exif' = None /\ smaller' = <<>>
  /\ UNCHANGED <<uploadAsync, frames, idx, bound, off, fading, isDisabled, progress, loads, timers, requests,
                 batch, history, totalImagesCount, mishaps>>
  /\ original' = <<>> /\ doc' = <<>> /\ pos' = 1

\* The browser cannot show it and says so later, or it has gone.
ImageFails(p) ==
  /\ p \in shown /\ p.awaits = "load" /\ (p.file \in Broken \/ p.file \notin Shown)
  /\ shown' = shown \ {p}
  /\ mishaps' = mishaps \cup {"unseen"}
  /\ Through
  /\ UNCHANGED <<vars, counts, resized>>

-----------------------------------------------------------------------------
(* The whole *)

PreviewInit ==
  /\ Init
  /\ original = <<>> /\ doc = <<>> /\ pos = 1
  /\ exif = None /\ smaller = <<>>
  /\ shown = {} /\ loadedImages = <<>> /\ totalImagesCount = 0
  /\ resized = {} /\ mishaps = {}

PreviewUser ==
  /\ \/ \E S \in Selections : Select(S) /\ Announce(S)
     \/ (UploadAll \/ UploadBatch \/ Clear) /\ Uncounted /\ Noted
     \/ ((\E f \in Files : UploadOne(f) \/ Remove(f)) \/ Cancel) /\ Noted /\ UNCHANGED counts
  /\ Through /\ UNCHANGED <<shown, resized>>

FadedAway(x) ==
  /\ Faded(x)
  /\ IF Last(x) THEN Uncounted ELSE UNCHANGED counts
  /\ Through /\ UNCHANGED <<shown, resized, mishaps>>

LoadAndShow(r) == Load(r) /\ Show(r) /\ UNCHANGED <<counts, resized, mishaps>>

\* What the browser does by itself: reading, timers, fading, pictures.
PreviewBrowser ==
  \/ Tick /\ Through /\ UNCHANGED images
  \/ \E x \in fading : FadedAway(x)
  \/ \E r \in loads : LoadAndShow(r)
  \/ \E p \in shown : Oriented(p)
  \/ \E p \in shown : ImageLoads(p)
  \/ \E p \in shown : ImageFails(p)

Purifies == Sanitize /\ UNCHANGED <<vars, images, exif, smaller>>

\* FileInput's steps with what they do to the pictures; sanitize is one call, in
\* the middle of which nothing else runs.
PreviewNext ==
  \/ Purifies
  \/ ~Running /\ PreviewUser
  \/ ~Running /\ Server /\ Through /\ UNCHANGED images
  \/ ~Running /\ PreviewBrowser

PreviewSpec == PreviewInit /\ [][PreviewNext]_allVars

-----------------------------------------------------------------------------
(* Properties *)

\* A file whose thumbnail the user has removed does not come back into the stack
\* by the smaller picture made of it, unless the user did not wait until all
\* pictures were loaded, or the stack and the indices have parted (_getResizedImage,
\* FileInput).
RemovedNotRevived ==
  \/ "early" \in mishaps \/ Happened({"cancel", "retry", "fading", "stale", "reset"})
  \/ \A f \in discarded \cap InStack(stack) : \E x \in fading : x[1] = f

\* When all is read and loaded, every picture in the stack has been made smaller,
\* unless the user did something else meanwhile ("early"), a picture of the
\* selection was never loaded because it failed a test, is broken or lost its
\* thumbnail ("unseen"): then none of the others is (_validateAllImages), or the
\* last thumbnail of an older selection set the counters back or a cancelled
\* upload was answered meanwhile.
AllResized ==
  \/ Waiting \/ mishaps # {} \/ Happened({"cancel", "fading", "reset"})
  \/ \A f \in Pictures \cap InStack(stack) : f \in resized

\* The smaller picture says in its Exif data what the picture said, but for a
\* second image directory without a thumbnail, which is dropped, and unless a Long has no
\* numbers, so that its entry is too short (dump, insert, load).
ExifKept ==
  \A f \in DOMAIN smaller :
    IF exif[f] = Missing THEN smaller[f] = Missing ELSE Shortened(exif[f]) \/ smaller[f] = Said(exif[f])

=============================================================================
