# Verification of simpleSpringBoot

TLA+ models of the stateful and concurrent parts of `simpleSpringBoot`, TLC runs that check them on small instances,
and proofs, checked by TLAPS, of what matters most for every instance. Paths are relative to
`src/simpleSpringBoot/src/main/java/com/simple/` unless they begin with `src/`; `js/` is
`src/simpleSpringBoot/src/main/resources/static/plugin/bootstrap-fileinput/js/`.

1. [The system](#1-the-system)
2. [Modules](#2-modules)
3. [Runs](#3-runs)
4. [Fairness](#4-fairness)
5. [Theorems](#5-theorems)
6. [Where code and comments disagree](#6-where-code-and-comments-disagree)
7. [What is not modelled](#7-what-is-not-modelled)
8. [Plan](#8-plan)

How to run: `tlc -config X.cfg M` for the pairs of section 3, `tlapm M.tla` for the modules of section 5. The runs take
from a second to two minutes.

## 1. The system

The application is a Spring Boot server with a set of utilities around it: most of its state is in
**static fields** that the container's threads share without a lock, in **files** whose paths are
made of the time, and in **external services** (an ActiveMQ broker, an OpenOffice process, a map
service, a database). Its pages carry their state in the browser: an **upload widget** whose
handlers, answers, timers and animations interleave on one thread. There is no test of any of it
in the repository; what its parts promise is said by their comments and by how they are called.

| Component | State | Operations | Interacts with | What makes it hard | What makes it correct |
|---|---|---|---|---|---|
| WebSocket endpoint and session registry: `server/WebSocketServer`, `utils/WebSocketUtils` | static `ConcurrentHashMap` user -> session | `onOpen`, `onMessage`, `onError`, `onClose`; `add`, `remove`, `existUser`, `sendMessage`, `getSession`, `closeSession` | the container calls the handlers, any thread calls the registry | each operation is atomic, their sequences are not; `remove` takes no session; a failing connection is removed twice | the registry names live sessions of the right user; a user with one steady connection is always reached; what closes is forgotten |
| Login-failure cache: `cache/UserErrorLoginCache`, `entity/UserErrorLogin` | static `Hashtable` name -> mutable entry (count, date) | `modifyUserInPool`, `removeUserInPool`, `addCount`, `isOverCount`, `isOverLimitDate` | requests of several threads share entries | read-modify-write without a lock; get twice; `==` for a limit; integer division of the age; a date nobody need set | nobody is locked before five failures; a query throws only if the name was removed or its entry has no date |
| ActiveMQ producer and consumer: `server/activemq/` | `Producter`: session, `ThreadLocal` of producers; `Comsumer`: session, `ThreadLocal` of consumers | `init`, `sendMessage`, `sendTopicMessage`, `getMessage`, `getTopicMessage`, closing | the broker; threads share one transacted session | a commit takes everybody's texts; every exception is only printed; caches keep the first destination; the broker dispatches ahead of `receive` | nothing uncommitted is left behind; an ended call has published; each text at most once, and in order but for what a closed consumer gave back; topic subscribers agree |
| Socket server and client: `server/SocketServer` | a pool of threads, the sockets, a buffer each | `createServer` (accepting loop and worker), `createClient` | clients over TCP | buffer of `available()` bytes, reads that return part of a text, exceptions that skip the closing | the answer follows the whole text; sockets leak only when the client is gone; everybody is served |
| Upload of images: `controller/GPScontroller`, `utils/ImageUtil`, `utils/AddressUtil` | the upload directory | `getAddress`, `downloadHistory`, `hello` | map service; requests share the directory; `FoldTask` deletes from it | paths of millisecond and name; a failed store is read all the same; one file fails the request | the address is of the file it is given for; one result for each file |
| Online pool and login interceptor: `cache/OnlinePool`, `interceptor/LoginInterceptor`, `entity/Result`, `config/WebConfig` | static `Hashtable` user -> session; the attribute `userinfo` of a session | `modifyUserInPool`, `removeUserInPool`, `existUserInPollBySession`; `preHandle` | the container, for every request; whoever logs in | get twice; session read twice, to decide and to write the refusal | an answer is that of a moment of the call; a refusal is explained by what the session was while it ran |
| Document conversion: `utils/ScreenshotUtil`, `utils/WordPdfUtil`, `utils/OpenOfficeUtil` | three directories, one OpenOffice process per call, port 8100 | `generateWord`, `generatePdf` (two of each), `converter` | OpenOffice, the file system | paths of name and a time format with minutes for months; swallowed exceptions; one port for all; a process that survives an exception; an OpenOffice that ends or cannot read a file | a call returns what it was asked for unless it met another one; processes leak only after a failure |
| Upload widget, chosen files: `js/fileinput.js` | file stack, thumbnails with an index into it, log of the upload under way, queue of timers | select, read, upload all or one, every answer, remove, cancel, clear, reset | the server, the file reader, timers, fading | a file is known by an index alone; the stack is renumbered under requests, timers and handlers that hold old ones | no file is lost, none is sent twice or shown as uploaded when it is not, an upload ends |
| Upload widget, stored files: `js/fileinput.js`, `js/base-file.js` | the same list four times: `initialPreview`, `previewCache`, thumbnails, `fileIds` | upload, delete, sort, clear, rebuild of the page | the server, fading, `js/plugins/sortable.js` | each copy is changed by other code at another time | the copies agree; a thumbnail names its own file |
| Sorting: `js/plugins/sortable.js` | the order of the page, the drag under way | press, start, move, drop, destroy | the widget changes the page during a drag | an index noted at the press is used at the drop | the page has the order of the list |
| Pictures and html: `js/fileinput.js`, `js/plugins/piexif.js`, `js/plugins/purify.js` | counters of pictures, the document being purified | load, count, make smaller, dump and insert Exif data, sanitize | the widget's stack | counters reset under pictures that load; offsets; lists that change while they are gone through | every picture is made smaller and keeps its Exif data; only what is allowed is shown |
| Deletion of old uploads: `task/FoldTask` | static timer, the tree `D:/upload` | `timer1`, `deleteFolder` | uploads write to the tree | timer cancelled when due; age read before deletion; fresh directories are not entered; `listFiles` null | only files older than 30 days go; the task runs |
| Menu administration: `controller/MenuController`, `service/MenuService`, `MenuMapper.xml`, `entity/ResultMsg` | table `sys_menu` | get all, get one, add, update, delete | database | statements built from missing parameters; statuses without a message | answers tell what the table did |
| File utilities: `utils/FileUtil` | none of its own | `copyFile` (two), `mkdirs`, `newFile`, `closeIo` | file system | a buffer of 0 bytes; a loop that waits for a directory; closing of nulls | copies end and are complete |
| Pure utilities: `utils/DateUtils`, `common/SortUtil`, `utils/IpUtil`, `utils/StringUtils` | none | conversions and comparisons | - | borders of months and years | agreement with a reference definition |
| Others (workflow, Netty server, system information, configuration, data source, ...) | - | - | libraries | see section 7 | see section 7 |

The hard behaviours, each at its line, are the `hazards` of `PROJECT.json`; the properties below are aimed at them.

## 2. Modules

Each component has a module named after it, an MC module that gives it small constants, and, where
there are theorems, a `Proofs` module (some hold the theorems of several small components).
`PROJECT.json` maps every definition that models code to its lines. The mutants (`PutUser`,
`AfterExistInverted`, ...) that stand before some definitions are plausible bugs of those
definitions; each property is known to be violated by at least one.

**Grain.** One operation of a `Hashtable` or `ConcurrentHashMap`, one access to a field of a shared object, one
operation on a file, one exchange with a service is one step; what a thread does between two such steps with its own
variables belongs to the step before. Locals that live across steps are kept per thread (`call`, `send`, `job`).
Variables marked *history* in their comments are written and never read by the modelled code.

**WebSocketPool** (with **SessionLife**). `clients` is the static map. `conn[s]` is where a connection's handlers stand:
`exist`, `evict` and `put` are the three map operations of `add` inside `onOpen`; `open`; `closing` once it has been
closed and `onClose` is due; `errored` between `onError` and `onClose`; `closed`. `Remove(u)` is
`clients.remove(userId)`, which takes no session, in `AddEvict`, `OnError` and `OnClose` alike. `call[t]` is an
application thread in `sendMessage` (`SendMessage`, `SendGet`, `SendText`: two gets, then the text) or in `getSession`
and `closeSession` (`GetSession`, `KickGet`, `CloseSession`). The container is external: it runs the handlers of one
session one after the other and those of different sessions at the same time. `overlapped` and `steady` are histories
that the properties need to say "alone" and "all the while". `SessionLife` is the abstract pool (idle, registered,
dropped, never back); `WebSocketPool` implements it under the mapping `Life`.

**LoginErrorCache**. `pool` is the `Hashtable`, `count` and `date` the fields of the entries,
`request` the locals of a request. `addCount` is `AddGet`, `AddRead`, `AddWrite`, `AddPut`;
`isOverCount` is `OverFirst`, `OverGet`, `OverRead`; `isOverLimitDate` is `LimitFirst`,
`LimitGet`. `AddPut` puts *the caller's* entry, as the code does. An entry is built without a date
(`Create`); no code of the repository calls `setDate`, so `SetDate` dates an entry at any moment
or never, and `isOverLimitDate` throws for one without. The clock counts half minutes, the
coarsest unit in which "more than one minute, rounded down" is visible. `fails` counts what an
entry stands for, `bare` which entries were put without a date.

**Messaging**. `session`, `cached` and `tx` are the Producter's session, its `ThreadLocal` and
what has been sent since the last commit, per destination; `reader` and `recv` the same of the
Comsumers. A send is three steps (`SendMessage` up to the cached producer, `Send`, `Commit`), each
of which may fail; a failed commit has published all of the transaction or none of it. A receiver
is `GetMessage`, then `Receive` and `Handle` in its loop; `HandleFails` and `ComsumerClose` end
it. The broker is external: `queues` holds what is not dispatched, `Dispatch` moves the next text
of a queue to the `inbox` of any open consumer of it, up to `Prefetch`, whether its receiver is in
its loop or not; a consumer that is closed gives what it has not received back to the front of its
queue (`returned`). A loop that an exception ends leaves session and consumer open, with their
inbox. A commit copies a topic's texts to the inboxes of the subscribers of the moment
(`Publish`). `Faults` chooses what may fail. The broker itself runs on, and a process that dies
without closing its session is left out.

**SocketServer**. `client`, `arrived` are the network's side; `worker`, `backlog`, `size`, `read`, `open` the server's:
the accepting loop (`Accept`), the pool (`Begin`), and a worker's `Buffer`, `Read`, `ReadEnd`, `Reply`, `Close`, `Fail`.
Of a text only the number of bytes is kept. A read into an empty buffer returns 0 and the loop turns for ever without
changing anything: the model has no step for it, so the worker keeps its thread and never moves.

**UploadAddress**. `at[r]` walks a request through the files of `FilesOf[r]`: `EmptyFile`, or `ChoosePath`,
`StoreBegins`/`StoreEnds`/`StoreFails`, `ReadGPS`/`ReadNoGPS`/`ReadFails`, `AskMap`, until `Answer`. `disk` maps a path,
a millisecond and a name, to the file whose bytes are there, to a part of one, or to nothing. The answer of the map
service is the file whose position was asked, none, or one that cannot be parsed.

**WebSessions**. `userPool` and `userinfo` are the pool and the sessions' attribute. `ExistFirst` and `ExistSecond` are
the two gets of `existUserInPollBySession`; `Check` and `Refuse` the two reads of the session by `preHandle` and by the
constructor of `Result`. Who sets `userinfo` is not in the repository: `SetUserinfo` may change it at any moment, and
that includes the expiry of the session. `seen` is what a call's subject has been since the call began.

**DocumentConversion**. `png`, `doc`, `pdf` are the directories; `job[c]` a call with the paths it
has chosen, `proc` the OpenOffice it has started, `port` whose OpenOffice listens. The steps of
`ScreenshotUtil.generateWord` are `GenerateWord` to `DocClose`, with `WordFails` for its `catch`;
of `converter` `Exec` to `Destroy`, where a conversion may lose its connection (`ConvertLost`),
since the process it uses was destroyed by its own call or ended by itself (`Crash`), or be
refused, for a document that cannot be read or a pdf that cannot be written (`ConvertFails`). An
OpenOffice that runs without `soffice` is taken to run on. Of `WordPdfUtil` the steps are
`HtmlCreate`, `HtmlWrite`, `HtmlThrows` and `HtmlFails`. `ShotPath` is `name + yyyymmdd`, which is
the *minute* where a month is meant, `HtmlPath` `yyyyMMddHHmmss@` and a name. Opening a file for
writing empties it (`Blank`).

The modules of the **pages** have another grain: JavaScript runs one handler at a time, so a
handler, with everything it calls, is one step. What interleaves is the user, the answers of the
server, the `FileReader`, the timers of 100 ms, which fire in the order they were set (`timers` is
a queue), and the fading out of thumbnails, which takes 600 ms and therefore ends after the timers
that were due before it (`Nearer`).

**FileInput**. `stack` is `filestack`, whose entries may be holes; `frames`, `idx`, `status`,
`off` are the thumbnails, their `data-fileindex`, their indicator and their disabled buttons;
`bound` is the index a remove handler was bound with. `Select` is `_change` with `readFiles`;
`ReadFile` the head of `readFile`, `Load` its `onload` and `ReadNext` its timer. `UploadAll` and
`UploadOne` send; `Accept`, `Refuse` (an answer with an `error`), `Reject` are `fnSuccess` and
`fnError` with `fnComplete`, whose effects come 100 ms later in three timers (`Success` or
`Error`, `Complete`, `Check`, in the order they were set). `UploadBatch`, `AcceptBatch`,
`AcceptPart` (`errorkeys`), `RejectBatch` are the synchronous upload. `Remove` and `Faded` are the
two ends of a removal; `ResetFileStack` renumbers what is left, in `Cancel` and after the removal
of a file. Both upload modes are initial states.

**Sortable**. `page` is the list in the order of the document, `drag` the element under way with the index it had at the
press. A move puts the element before or after any draggable element, wherever it is then. `Renewed` is `destroy`, which
ends a drag without an event.

**PreviewCache** extends Sortable and is configured as `base-file.js` does it (`uploadAsync` and
`overwriteInitial` off). `initialPreview` and `content` are the two arrays, `index` the
thumbnails' index, `fileIds` the list of the form. A thumbnail is an item with the generation of
the page it was built in, since `Rebuild` replaces all of them while old ones may still be fading
out; `Listed` are those of stored files in the order of the list. `AcceptAll` is an answer for all
files (`previewCache.set`, a new page), `AcceptOne` one for a single file (`add`; the thumbnail
moves in when the one of the chosen file has faded; an exception, if there is no array to push to
or the answer replaces the cache), `Removed` is `unset`, `_deleteFileIndex` and `filedeleted`,
`Sorted` is `onSort`. `reversePreviewOrder` is chosen initially. Reading a chosen file binds the
remove buttons of stored thumbnails to the handler of chosen ones (`local`): a click then asks no
server (`Hide`), the thumbnail fades out (`leaving`) and leaves the page alone (`FadedHidden`,
`hidden`), until the page is built anew. `Only`, the selection from a list in its order that this
module, Sortable and FileInput use, is in **Selection**.

**Purify** is one call of `sanitize` node by node: `doc` is the document in document order with
depths, `pos` the iterator. `Keep`, `ForceRemove` and `Unwrap` (which puts the content behind the
node, where the iterator meets it, and removes the node) are what `_sanitizeElements` may do. A
form that hides a property which `_isClobbered` tests has a tag of its own (`ClobberedForms`, as
the iterator finds it): it goes with its content, although forms are allowed. What
`insertAdjacentHTML` makes of the markup of an unwrapped element is `Reread`: to the parser the
inside of an `iframe`, `noembed`, `noframes`, `plaintext` or `xmp` (`RawTags`, none of which is
allowed) is a text, which becomes html when its element is unwrapped. A document therefore has
below such an element the nodes its text reads as; of all other markup it is assumed that it is
parsed into the nodes it was written from. `SanitizeAttributes` folds `Visited` over the
attributes backwards, over the live list or, from the name of an image on, over the copy of it.
**Exif** has no state: `Dump`, `Insert`, `GetExifSeg`, `ExifLoad` are functions on pieces with a
length, so that a pointer that is off by any number of bytes finds nothing. A value also says
whether a number in it is out of the range of the type TAGS gives it, where `pack` throws, and a
thumbnail whether it is a JPEG. The value of a Long tag without numbers is not filled up
(`piexif.js:365`): its entry has eight bytes, and everything behind it is off (`NoValue`,
`Shortened`). `Directories` are the five directories as they are to be written, `Begins` where
each of them begins, `Bytes` what is written of one. **FilePreview** composes both with FileInput:
each step of FileInput with what it does to `shown` (the `img` elements at work), to
`loadedImages` and `totalImagesCount`, and `ImageLoads`/`ImageFails`, whose last one makes all
pictures smaller (`ResizeAll`). A broken picture that has failed before its handler is bound is
complete and counts as loaded (3082); `_getResizedImage` then fails on it and takes its file from
the stack. It models the option `resizeImage`, which index.html leaves off, and html files, which
index.html does not let the user choose.

**Histories of what went wrong.** These three modules describe code in which much does go wrong,
so their properties say *when* it does: `events` (and `mishaps` of FilePreview) record that one of
a few situations has occurred, and a property names those after which it does not claim anything.
A property with a list of situations is the statement that nothing else breaks it. Most names are
needed: without one of them the property fails, in its run or with a few more actions of the user
(`retry` and `stale` in `NothingLost`, `stale` and `reset` in `UploadedWasAccepted`, `fading` and
`reset` in `IndexFindsFile`, `threw`; some of these take three files that pass the tests). Some
were found by attempts to prove the property without them, far outside the bounds of the runs:
`retry`, `fading` and `reset` in `RemovedNotRevived` (five or six actions), `cancel`, `fading` and
`reset` in `AllResized` (four or five), and without `uploadAsync` `stale`, `fading` and `reset` in
`NotSentAgain`, where the shortest behaviours known take eleven actions on seven files: the answer
to a synchronous upload is spread over thumbnails by their numbers while older handlers renumber
the stack under it. No counterexample is known without `unsent` in `NothingLost` and without
`retry` in `UploadedWasAccepted` and `IndexFindsFile`: these are there because the proofs use
them. In FileInput:

| Situation | What has happened | What it breaks |
|---|---|---|
| `overlap` | a selection, a clearing or an upload while files are still being read (`fileinput.js:3603`: the index is the length the stack had when reading began) | files get indices that are taken, or of nothing |
| `cancel` | an upload was cancelled: the stack is renumbered, the error timers use the old indices (3892) | thumbnails and files part |
| `retry` | one file was sent by its own button while an upload is open (2304, 2576) | the accounting starts anew and the widget is unlocked early; files may then be chosen and renumbered under an open upload |
| `fading` | an upload or a clearing, or a selection with an empty stack, while a removed thumbnail was fading out | its file goes along, or its name is read when it is gone (2319) |
| `stale` | the renumbering at the end of an upload, by the answer to a synchronous one or by `chkComplete`, left a remove button with an index that is not its file's any more (2541) | the button removes another file, or none |
| `unsent` | a synchronous upload was answered as a success while the stack or the page held a file that had not been sent | it is shown as uploaded and dropped |
| `reset` | the last uploaded thumbnail faded out while the stack held files, one that is being read among them (2131) | they are dropped |

In PreviewCache: `reversed`, `again`, `rebuilt`, `dragged`, `replaced`, `unordered`, `holed`,
`aborted`, `threw`, `hidden` (a sort while a listed file has no thumbnail), explained before
`Happened`. In FilePreview: `early`, the user did something before all pictures were loaded, and
`unseen`, a picture was never loaded because it failed a test, is broken or has lost its
thumbnail.

## 3. Runs

| Run | Module / cfg | Distinct states | Question |
|---|---|---|---|
| `ws_pool` | MCWebSocketPool | 10,766 | handlers of three sessions of two users, and a calling thread |
| `login_safety` | MCLoginErrorCache | 959,849 | two requests without a lock on one entry, up to and past the limit |
| `login_limit` | MCLoginErrorLimit.cfg | violation | does the lock hold after the limit is reached? |
| `msg_safety` | MCMessagingSafety.cfg | 1,787,746 | two senders on one session, two receivers, faults, a broker that dispatches ahead |
| `msg_drain` | MCMessagingDrain.cfg | 13,021 | are queues drained by whoever stays? |
| `socket_served` | MCSocketServer | 5,053 | two clients, one thread, a buffer smaller than the text |
| `upload_safety` | MCUploadAddress | 631,852 | three requests with files of the same names in two milliseconds |
| `web_sessions` | MCWebSessions | 213,443 | two threads, two sessions of a user that log in, out and expire |
| `documents` | MCDocumentConversion | 2,887,869 | two calls of any kind, every failure of theirs and of OpenOffice, a minute that comes back |
| `file_input` | MCFileInput | 324,420 | four actions of the user on three files, in both upload modes |
| `preview` | MCPreviewCache | 42,023 | four actions of the user on two stored files and two new ones, in both orders of the page |
| `file_preview` | MCFilePreview | 3,039,607 | two actions of the user on two pictures and an html file |

What they show, and why their bounds are enough:

- **ws_pool.** `NoGhostSession`: the registry never names a session whose `onError` or `onClose` has run, or one of
  another user. `SoleSessionRegistered`: a user with an open connection is missing only if its connections have
  overlapped, since the late `onClose` of the older one removes the entry of the newer. `SteadyUserReceives`:
  `sendMessage` neither answers false nor throws for a user whose one connection stays open during the call.
  `ImplementsSessionLife`, and the liveness property `EventuallyRegistered`. The races are
  between two sessions of one user (`s1`, `s2`); the second user's session shows that users do not disturb one another.
  One calling thread is enough: threads write nothing but the state of a connection (`closeSession`), and that is what
  `PeerCloses` does at any moment as well. There is no bound on steps.
- **login_safety.** `NoEarlyLockout` (racing increments lose failures but invent none),
  `QueryThrowsOnlyAfterRemove`, through every age up to the two minutes at which the limit passes,
  with entries that are dated before or after they are put into the pool, or never. `MaxFails = 5`
  lets the second thread be past the guard at the limit, so counts go to six. One name and one
  entry are what two requests must share to race; several entries come in the proof.
- **msg_safety.** `NothingLeftBehind`, `OkMeansPublished`, `AtMostOnce`, `InOrder` under failing
  sends and reads and sessions closed at any moment. Two texts per thread are what order and
  repetition need; two receivers what sharing a queue needs, and with `Prefetch = 2` one receiver can hold
  two texts that the other then cannot get. What a closed consumer gives back may come late, and
  `InOrder` says that nothing else does. A commit that fails on an open
  session is left out of this run: it takes back what another thread has sent and then
  `OkMeansPublished` is false, which the theorem `OkPublished` states as its assumption.
  `NothingLeft` is proved with failing commits.
- **msg_drain.** `QueueDrained`: if from some moment on some consumer of a queue is always open,
  and each receiver whose loop was ended by an exception is called again, each text of the queue
  is received. The second condition is needed: what was dispatched to a consumer that nobody reads
  stays with it. Failures of `getText` and closings end loops at any point.
- **socket_served.** `ReplyAfterWholeText`, `LeakOnlyWhenLeft` and, under fairness, `EveryClientServed`. One thread for
  two clients makes the second wait for the first; `Available = 2 < Size = 3` makes a text take two reads, in every
  partition of its arrival.
- **upload_safety.** `AddressOfItsImage`: an address of another picture needs the same name and the same millisecond,
  whatever fails. The requests hold a file of each kind and two files of one name inside a
  request; two milliseconds tell "the same" from "another".
- **web_sessions.** `SteadySessionConfirmed`: a session that is registered all the while is found.
  `RefusalExplained`: a refusal, whose two reads of the session may see different states, names a
  status that the session had or passed through while the call ran. No bound: pool, sessions and
  calls are finite. A second user would be another entry that no step relates to the first.
- **documents.** `OwnDocument`, `ContentExplained`, `LeakOnlyAfterFault`, and `LostByNeighbour`: a
  conversion loses its connection only to a crash, or because another call destroys, on its way
  out, the OpenOffice they both use. With a minute of one millisecond and an hour of two minutes
  the clock 0..2 contains the same millisecond, the same second, another minute, and the minute
  that comes back. Two calls are one pair that meets; chains of more than one meeting (`MayHold`)
  begin with two. Each caller makes one call: what an earlier call has left on the disk is what
  the other caller's has.

- **file_input.** `NothingLost`: a file that reading has begun with is in the stack, taken by the
  server or given up by the user. `UploadedWasAccepted`, `NotSentAgain`, `LockedWhileUploading`: a
  success is shown only for what was taken, what was taken is not sent again, and the widget is
  locked as long as a request is open. `IndexFindsFile`: stack, index and remove handler agree.
  `EventuallyUnlocked`, `EverySentFileSettles`: an upload ends and every file of it gets a result.
  Three files of which one fails the tests of `readFile` make holes, `MaxFileCount = 2` lets a
  selection be refused, `MaxChosen = 2` reads one file after another; four actions are select,
  upload, and two more that meet the upload. The safety properties were checked with five actions
  as well (4,275,768 states), and more widely: four files of which two fail the tests, three at a
  time, five actions (23,317,608 states); four files of which one fails (1,720,978) and three that
  all pass (8,332,639) among others. `NotSentAgain` in particular was followed outside its
  situations, synchronous uploads through all of seven actions on four files (275,372 states),
  asynchronous ones through the first 50 million states of six actions (not exhausted), before it
  was proved.
- **preview.** `CacheAgrees`, `FrameNamesItem`, `IdsAgree`, `PageInOrder` relate the four copies
  of the list, the last but for thumbnails that a rebound button took away; `DeletedLeaves`: what
  the server has deleted leaves the page. Two stored files are an order, two new ones an upload of
  all and one of a single file; four actions let two deletions, an upload and a drag overlap.
  Safety was checked with five actions as well (392,599 states), and on 150,000 random behaviours
  with ten.
- **file_preview.** `RemovedNotRevived`, `AllResized` are about the interleaving of loading,
  removing and making smaller; two pictures, one of which may be broken, are what "all are loaded"
  needs. `ExifKept`: what `load` finds in the new picture is what the old one said, over eighteen
  choices of data: values on both sides of the four bytes of an entry, directories with and
  without their pointers, thumbnails with and without APP segments, a Long tag without numbers,
  which is exempt (without the exemption the run fails), and five dictionaries that `dump` or
  `insert` refuses. `PurifiedAsDefined`: what `sanitize` leaves is what a definition by the
  ancestors of each node says, on about 1,000 documents: all shapes of up to three nodes over an
  allowed, a forbidden and a content-forbidden tag and text, and over an iframe, a form and a
  clobbered form, all nests of four, and an element with up to three attributes in every order.
  Outside their situations `AllResized` was also checked with six actions on three files
  (11,124,801 states) and `RemovedNotRevived` with more actions than the run has (28,360,675
  states).

`CHECK_DEADLOCK` is off where the system really comes to rest: all texts sent and received, all
clients served, all calls over. Symmetry is used for safety only.

## 4. Fairness

Liveness is checked under weak fairness of steps that some running thread is about to take, never of the environment:

- `WebSocketPool`: the container finishes `onOpen` and calls `onClose` of what is closing or has failed. No peer need
  connect or close, no thread need call.
- `Messaging`: a call that has begun goes on or fails; the broker dispatches to an open consumer
  what it has room for; a receiver in its loop takes what was dispatched to it (`receive` blocks
  without a timeout) and handles it or fails. Nobody need call `getMessage`; `QueueDrained` says
  in its premises which receivers stay and are called again.
- `SocketServer`: the accepting loop and the workers run. That a client that has connected sends
  its text and then finishes is an **assumption**: the server sets no timeout, and a client that
  stays silent for ever keeps its thread for ever. A client may also break the connection at any
  moment.
- `FileInput`: timers fire, the file reader reads, a fading ends, and the server answers each
  request with some answer. The last is an **assumption**: the requests have no timeout, so an
  upload that is never answered stays locked, until the user cancels it. The user need do nothing.
- `PreviewCache`: a fading ends. Whether a request is answered does not matter to `DeletedLeaves`.
- `FilePreview` states no fairness and has no liveness property; what is missing when everything has come to rest is
  stated as the invariant `AllResized`.

## 5. Theorems

Each proof module strengthens its properties to an inductive invariant, `IInv` or a few named
parts that build on one another, and proves that `Init` implies it, that `[Next]_vars` keeps it
(one lemma per action or group of actions) and that it implies each property; the temporal
theorems follow by PTL. TLC was asked first: `LinkInv`, the largest, held on up to 962,520 states
before it was proved, the parts of `SendInv` on 6,061,752. The proofs about the widget are the
longest and take about fifteen minutes, the others a few. No bound on numbers of users, sessions,
threads, clients, names or entries is assumed, only the `ASSUME`s of the modules (that null is no
session, that a pool has a thread, ...), which TLC evaluates in the runs.

| Module | Theorems | Why the invariant is needed |
|---|---|---|
| EndpointProofs, of WebSocketPool | `TypeCorrect`, `NoGhost`, `SoleRegistered`, `SteadyReceives`, `Refinement` | `Alone`: a session outside `overlapped` has no living rival, so nobody else's `Remove` can hit its entry. `WitnessFound`: the steady session of a call is open, alone, and is what the call has read, so neither get nor send can fail. `Refinement` maps each handler step to `Register`, `Drop` or a stutter |
| LoginProofs, of LoginErrorCache | `CacheTypes`, `LockoutNotEarly`, `QueryThrows` | `CountsBounded`: no count, and no number read and not yet written back, exceeds the failures. `FoundUnlessRemoved`: a query between its reads has found its name. `DatedUnlessBare`: the pool gives out only entries that were dated before they were put there, and those of `bare` |
| ServerProofs, of Messaging | `TypeCorrect`, `NothingLeft`, `OkPublished`, `OrderKept`, `DeliveredOnce`, `SubscribersAgree` | `Pending`: whatever is uncommitted was sent by a call that is at its commit. `Sending`: a call at its commit has its text in the transaction or published. `Fresh`, `Later`: what a thread has yet to send or to commit is later than all it has published. `QueueInv`, `StreamInv`, `Apart`: queues, inboxes and what has been received hold published texts in the order of their senders, but for those given back, and what has left a queue is with one receiver. `Agree`: of two subscribers of a topic, what the one has got and waits for is the end of the other's |
| ServerProofs, of SocketServer | `ServerTypes`, `ReplyAfterText`, `LeakBounded` | `ReadSoFar`: a client that has finished has sent all, and nothing is read before it arrives. `OpenSockets`: done work has closed its socket, failed work has a client that is gone |
| EndpointProofs, of UploadAddress | `UploadTypeCorrect`, `AddressCorrect`, `AnswerComplete` | `OwnPath`: a file is found nowhere but under its path. `ReadPath`, `SamePath`: so what a request reads has the path of the file it handles. `Progress`: files are handled in order and have a path from `ChoosePath` on |
| LoginProofs, of WebSessions | `TypeCorrect`, `TrueRegistered`, `SteadyConfirmed`, `Explained` | `ProgressInv`: a call's history holds the present value of what it reads next, whoever changes it, and the reason it goes on |
| UploadWidgetProofs | `FileInputTypes`, `Locked`, `IndexFinds`, `FilesKept`, `UploadedAccepted`, `NotSentTwice` | `ControlInv`: which requests, answers and timers can be waiting together (`Track`, `Pairs`, `Calls`, `OneCall`, `OneCheck`), and that the widget is locked then. `LinkInv`: while no situation of section 2 but `unsent` has occurred, entry, index, thumbnail and remove handler of a file belong together (`Linkage`), the file being read is the last of the stack (`Read`), what fades is what the user has given up (`Fades`), and a request without a result is that of its thumbnail and of its entry (`Under`). `AccountInv`: what is marked as uploaded was taken; a partial answer is spread by numbers, so the n-th unmarked thumbnail must be the n-th file sent (`SentAreMarked`). `SendInv` survives more than `LinkInv`: a file has one entry, one that is sent has the entry it was sent from, files are read in one chain and what is still to be read was never in the stack (`Held`). `ModeInv`: with `uploadAsync` there is no batch, without it a request is of one file. `LockInv`: while the widget is locked every button is off and nothing is read. `RisingInv`: the thumbnails an answer is spread over follow their numbers, and a renumbering that leaves no stale handler leaves the entries where they were |
| ContentProofs and UploadWidgetProofs, of Purify in FilePreview | `SanitizedAttributes`, `PurifiedRight`, `PurifiedIsAllowed` | `Cleaned`: of the attributes the backward loop has visited those that are permitted are in the list, and the ones before it are where they were, whichever list it goes over. `Traced`: the document is the parsed one without nodes that should not stay (`Thinned`: the same order, the same ancestors among those that are left, and around them only elements have gone whose content is kept), the depth of each node is the number of its ancestors, and what the iterator has passed is cleaned |
| ContentProofs and UploadWidgetProofs, of Exif in FilePreview | `ReadBack`, `ExifPreserved` | `LiesAt`: a piece lies at the sum of the lengths before it, on whichever side of a concatenation it is. `DirectoryWritten`: where the count, the entries, the pointers, the link and the values of a directory lie in it, so that an entry has the offset of its value (`IfdRead`). `FileWritten`: the length from which the offsets are computed, before anything is written, is that of what is written, so each directory begins where the pointer to it says. `PictureInv`: only pictures are made smaller |
| PreviewCacheProofs | `CacheTypes`, `CacheAgreement`, `NumberInvariance`, `FramesNameItems`, `IdsAgreement`, `PagesInOrder` | `BaseInv`, whatever has happened: no thumbnail is on the page twice, those of stored files are of the present page (`PageInv`), no entry is listed twice (`ListInv`), and what is sent is not stored yet (`SendingInv`). `NumberInv`, until one of seven situations: each index names its own entry (`NamedInv`), counted from the front of the page the thumbnails are in the order of their numbers, but for the one that is moved (`OrderInv`), the number a drag has noted is its own (`DragInv`), and what is listed is what is shown or hidden (`ShownInv`). From it the place of a dropped thumbnail among the others is the number `onSort` moves its entry to |
| DocumentConversionProofs | `TypeCorrect`, `LeakAfterFault`, `LostByOther`, `ContentsExplained`, `OwnDocuments` | `FilesInv`: a call has chosen its path and created its files, or has failed, by the time it goes on without them. `ProcessInv`: the process of a call runs from `Exec` on, until it crashes or the call destroys it, which is the last the call does. `ConnectionInv`, `PortInv`: what a call is connected to has been started, what it has lost has ended, and only a running process listens. `OriginInv`: whose content a picture, a document and a pdf can have at each step, which is that of a call with the same name for it, or of one that had it from such a call |

The situations are where the proofs about the widget end: `Locked` needs two of them, `IndexFinds`
six and the others all, and each step is proved to raise its situation or to keep the link.
`NotSentTwice` needs two of them, and three more without `uploadAsync`: while the proof without
these was tried it led to the behaviours that section 2 mentions. What they and those about
PreviewCache rest on besides are the lemmas of **SelectionProofs** on `Only`, the selection from a
sequence: which elements, in which order, how many, that the n-th selected of two sequences with
the same selection is the same, and what becomes of order, numbers and length when an element is
put in or taken out or the sequence is reversed.

`PurifiedRight` is about a recursive function (`SanitizeAttributes`) and about an iteration over a
document that changes. The induction theorems of the library cannot be used, so the proof takes
the least step at which its claim would fail (`LeastNumber`, from the well-foundedness of the
natural numbers) and shows that there is none; that the recursion defines a function at all
(`LoopEnds`) is proved the same way. It assumes of a document what a parser makes of any text
(`DocumentsAssumption`): a tree, whose elements have each attribute once; and that no raw-text
element is allowed (`RawTextAssumption`), which the lists of `purify.js` satisfy.

`ReadBack` says of every dictionary that `dump` and `insert` do not refuse and in which no Long
tag is without numbers (`Shortened`), with any number of tags in each directory and values of any
length, that `load` finds what was written. The offsets are sums over a directory and over the
file, again with the least-number argument in place of induction (`OffsetsExist`, `JoinOffsets`).
It assumes that a value has the kind that TAGS gives its tag, or is a text where numbers are
wanted, which `dump` refuses (`IsDictionary`, `ExifAssumption`): `load` decodes a value by the
type noted in the file, and what becomes of a number where TAGS wants a text, a list of pairs that
is empty, or a tag that TAGS does not have is not said.

`OkPublished` assumes `CommitsHold`: commits do not fail while the session is open, or there is
one sender. Without it the statement is false, as the comment of `OkMeansPublished` explains.
`PurifiedIsAllowed` (`OnlyAllowedShown`) is a part of `PurifiedRight`, kept for what it says. The
runs leave to the proofs what these say for every instance: the type invariants of the proof
modules, `TrueWasRegistered` and `AnswerFollowsRequest`.

**Only model-checked.** Liveness (`EventuallyRegistered`, `QueueDrained`, `EveryClientServed`,
`EventuallyUnlocked`, `EverySentFileSettles`, `DeletedLeaves`): the prover does not reason about
fairness and ENABLED. Of FilePreview `RemovedNotRevived` and `AllResized`: pictures whose Exif
data cannot be written leave the stack while their thumbnails stay, so that `LinkInv` does not
hold there and would need a second form, with what is to be loaded related to it.

Stated, true in their component's run and not in its cfg, to keep the runs to what says most: `EventuallyForgotten` of
WebSocketPool, and `TypeOK` and `TopicStreamsAgree` of Messaging, which are
proved (`TypeCorrect`, `SubscribersAgree`).

## 6. Where code and comments disagree

The run `login_limit` ends in a counterexample to what a comment says: `isOverCount` tests `count
== 5`, so a sixth failure unlocks the user (`cache/UserErrorLoginCache.java:56`). The models show
more of the kind, each of which can be had as a counterexample by putting the named property into
the component's cfg:

- `addCount` increments one entry and puts another one into the pool (line 82); when the caller's
  map has no entry the put throws. A late write takes failures back (line 81). An entry has no
  date until a caller sets one, and nothing does: `isOverLimitDate` then throws (line 67,
  `QueryThrowsOnlyAfterRemove` without `bare`).
- The producer cached for a thread stays bound to the first destination (`server/activemq/Producter.java:61`,
  `SentWhereAsked`); the cached consumer of a queue answers `getTopicMessage` (`TopicCallsReadTopics`).
- Without the argument `available` the socket server's buffer has as many bytes as have arrived when the worker starts;
  when that is none the worker spins and keeps its thread (`server/SocketServer.java:44`, `EveryClientServed` with
  `Available = NoSize`).
- `js/fileinput.js`: an upload may stay locked for ever (`EventuallyUnlocked` without one of its
  situations); a file that was never sent may be shown as uploaded (`UploadedWasAccepted` without
  `unsent`); with `reversePreviewOrder` a deletion takes another entry out of the lists (2515,
  `FrameNamesItem` without `reversed`); a deleted file comes back with the next page
  (`DeletedLeaves` without `rebuilt`); after a file was read the remove button of a stored
  thumbnail deletes nothing (2539, `PageInOrder` without `hidden`); a picture that is found
  missing is reported and, for want of a `return` (3127-3145), written back into the stack all the
  same (`RemovedNotRevived` without `early`).
- `js/plugins/piexif.js:201-208`: `dump` does not write a first directory that has no thumbnail, so `ExifKept` compares
  with what is said apart from that (`Said`). A Long tag without numbers spoils the directory it is in (365, `ExifKept`
  without `Shortened`).

## 7. What is not modelled

Inside the modelled components: operations nobody calls (`setClients`, `setSession`,
`setUserPool`, `setUserErrorLoginPool`), reads that return at once (`existUserInPoll`,
`getSessionInPoll`), `onMessage`'s printing, the decoding of bytes into characters in
SocketServer, the layout of documents and `preview`, the JSON converter of WebConfig,
`AuthInterceptor` (registered nowhere), the writer of `userinfo` (not in the repository), the time
the map service may take (the call has no timeout and a request simply waits), `downloadHistory`
and the arithmetic of degrees.

Inside the upload widget: a file that cannot be read (`reader.onerror`, 3755, ends the chain of
reading), the remove buttons of uploaded thumbnails that `_initSuccessThumbs` enables (2119),
forms submitted without Ajax, inputs for a single file, extra data without files, events whose
handlers abort an upload, the zoom dialog, captions, templates and the remaining options; in
PreviewCache `overwriteInitial`, stored lists with `uploadAsync`, and the tags of
`initialPreviewThumbTags`, which `onSort` does not move along (`fileinput.js:1493`); in Sortable
groups, clones, delays, filters, animation and scrolling; in Purify hooks, the options of the
call, the content of templates, a clobbered form that hides what removes it as well, markup that
is not parsed into what it was written from, and the patterns of the addresses; in Exif `remove`,
base64 and the bytes themselves.

Components with behaviour that are left out, each with a note in `PROJECT.json`: FoldTask (a task
due after 2000 ms whose timer is cancelled after 2000 ms, `task/FoldTask.java:22`; ages read
before deletion; `listFiles` answering null), FileUtil (a copy of an empty file that never ends,
`utils/FileUtil.java:48`; `mkdirs` that asks the same parent for ever, 99), the menu (an update
without fields, `MenuMapper.xml:57`), DateUtils (fields taken for durations, 94),
`downloadHistory` (two characters cut by the page, one by the server,
`controller/GPScontroller.java:90`). They are sequential, small and within reach of a unit test;
the modules above are about what is not.

Components: the workflow controller only starts an instance, whose tasks are the engine's to run;
the Netty server prints and releases what it is sent, in loops of the library; system information
reads properties; ClassUtil, PropUtils, RuntimeUtil and BackUpUtil are single calls of the
platform; the data source copies settings; the Spark example, the empty Hadoop class, plain types
and the main class have no state; the tests are examples of the platform and of the workflow
engine; the code generator, jQuery, the locales (tables of words) and the themes (tables of
markup) are third-party data.

**How much of the code.** The Java modules cover the handlers of the components they name nearly
line by line. Of the JavaScript `PROJECT.json` maps 3,000 lines, more than a third of the five
files that hold behaviour: the control of `fileinput.js`, `sortable.js`, `purify.js`, `piexif.js`
and `base-file.js`. The other lines are markup, options, defaults, browser differences, the table
of Exif tags (1,200 lines), 40 files of translations, and a second copy of all of it under
`target/classes`, which is what the build copies and is not mapped again.

## 8. Plan

Done, in the order of importance: the registry (the one component whose races reach users), the login cache, messaging,
the socket server, uploads, sessions, documents, the upload widget with its plugins. Later work:

1. **FoldTask** over a small tree with ages, composed with an upload that writes while it walks.
2. **FileUtil**, **Menu** and the pure functions against reference definitions.
3. **Proofs**: `RemovedNotRevived` and `AllResized` of FilePreview, with a `LinkInv` that allows
   entries to go while their thumbnails stay.
4. **FileInput** with an event that aborts an upload, and PreviewCache with `uploadAsync`.
