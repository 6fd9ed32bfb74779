---------------------------- MODULE UploadAddress ----------------------------
(***************************************************************************)
(* GPScontroller.getAddress: each file of a request is stored under a path *)
(* made of the millisecond and its name, its position is read back from    *)
(* that path, and the map service turns the position into an address.      *)
(* Requests run in parallel over one directory, which nothing locks.  Of a *)
(* file its name and what getImgGPS finds in it are kept, of an address    *)
(* which file's position it is of.                                         *)
(***************************************************************************)
EXTENDS Naturals, Sequences

CONSTANTS
  Requests,
  Names,      \* original names of files
  FilesOf,    \* the files of each request, in its order
  Nothing, Partial,  \* what a path may hold besides a file that was sent
  MaxTime     \* bound on the clock, in milliseconds

File == [name : Names, holds : {"nothing", "gps", "noGps", "noImage"}]

ASSUME FilesAssumption   == FilesOf \in [Requests -> Seq(File)]
ASSUME MaxTimeAssumption == MaxTime \in Nat

\* A file is known by its request and its place in it.
Sent == UNION {{r} \X DOMAIN FilesOf[r] : r \in Requests}
ASSUME ContentAssumption == Nothing # Partial /\ {Nothing, Partial} \cap Sent = {}

Paths   == [time : 0..MaxTime, name : Names]
Content == Sent \cup {Nothing, Partial}
Results == [name : Names, says : {"address", "unknown", "noGps", "uploadFailed"},
            of : Sent \cup {Nothing}]

ASSUME PathsAssumption == Nothing \notin Paths

VARIABLES
  now,
  disk,     \* the upload directory: what is under each path
  at,       \* the next step of each request
  filePath, \* of each file sent, once its request has come to it
  img,      \* the file whose position a request has read
  results   \* resultArr

uploadVars == <<now, disk, at, filePath, img, results>>

Steps == {"idle", "file", "store", "storing", "read", "ask", "answered", "failed"}

UploadTypeOK ==
  /\ now \in 0..MaxTime
  /\ disk \in [Paths -> Content]
  /\ at \in [Requests -> Steps]
  /\ filePath \in [Sent -> Paths \cup {Nothing}]
  /\ img \in [Requests -> Sent \cup {Nothing}]
  /\ results \in [Requests -> Seq(Results)]

UploadInit ==
  /\ now = 0
  /\ disk = [p \in Paths |-> Nothing]
  /\ at = [r \in Requests |-> "idle"]
  /\ filePath = [f \in Sent |-> Nothing]
  /\ img = [r \in Requests |-> Nothing]
  /\ results = [r \in Requests |-> <<>>]

-----------------------------------------------------------------------------
\* The file a request is at, and where it stores it.
Index(r)   == Len(results[r]) + 1
Current(r) == FilesOf[r][Index(r)]
PathNow(r) == filePath[<<r, Index(r)>>]

\* Mutant of AllDone: the last file left out.
AllDoneEarly(r) == Index(r) >= Len(FilesOf[r])

AllDone(r) == Index(r) > Len(FilesOf[r])

Go(r, from, to) == at[r] = from /\ at' = [at EXCEPT ![r] = to]

\* resultArr.add, under the name the client gave.
Recorded(r, says, f) ==
  results' = [results EXCEPT ![r] = Append(@, [name |-> Current(r).name, says |-> says, of |-> f])]

Tick == now < MaxTime /\ now' = now + 1 /\ UNCHANGED <<disk, at, filePath, img, results>>

Receive(r) ==
  /\ Go(r, "idle", "file")
  /\ UNCHANGED <<now, disk, filePath, img, results>>

EmptyFile(r) ==
  /\ Go(r, "file", "file")
  /\ ~AllDone(r) /\ Current(r).holds = "nothing"
  /\ Recorded(r, "uploadFailed", Nothing)
  /\ UNCHANGED <<now, disk, filePath, img>>

\* Mutant of NewPath: the file's own name left out.
NewPathByTime(name) == [time |-> now, name |-> CHOOSE n \in Names : TRUE]

NewPath(name) == [time |-> now, name |-> name]

\* The path of the next file; a missing directory is made, which hurts no other request.
ChoosePath(r) ==
  /\ Go(r, "file", "store")
  /\ ~AllDone(r) /\ Current(r).holds # "nothing"
  /\ filePath' = [filePath EXCEPT ![<<r, Index(r)>>] = NewPath(Current(r).name)]
  /\ UNCHANGED <<now, disk, img, results>>

\* transferTo replaces what is under the path, and a reader may come before it has finished.
StoreBegins(r) ==
  /\ Go(r, "store", "storing")
  /\ disk' = [disk EXCEPT ![PathNow(r)] = Partial]
  /\ UNCHANGED <<now, filePath, img, results>>

\* Mutant of Stored: the file after the one the request is at.
StoredNext(r) == <<r, Index(r) + 1>>

Stored(r) == <<r, Index(r)>>

StoreEnds(r) ==
  /\ Go(r, "storing", "read")
  /\ disk' = [disk EXCEPT ![PathNow(r)] = Stored(r)]
  /\ UNCHANGED <<now, filePath, img, results>>

\* An exception while storing is printed, and the path is read all the same.
StoreFails(r) ==
  /\ at[r] \in {"store", "storing"} /\ at' = [at EXCEPT ![r] = "read"]
  /\ UNCHANGED <<now, disk, filePath, img, results>>

Found(r) == disk[PathNow(r)]
Holds(f) == FilesOf[f[1]][f[2]].holds
Readable(r) == Found(r) \in Sent /\ Holds(Found(r)) # "noImage"

\* getImgGPS of whatever the path holds by now.
ReadGPS(r) ==
  /\ Go(r, "read", "ask")
  /\ Readable(r) /\ Holds(Found(r)) = "gps"
  /\ img' = [img EXCEPT ![r] = Found(r)]
  /\ UNCHANGED <<now, disk, filePath, results>>

ReadNoGPS(r) ==
  /\ Go(r, "read", "file")
  /\ Readable(r) /\ Holds(Found(r)) # "gps"
  /\ Recorded(r, "noGps", Nothing)
  /\ UNCHANGED <<now, disk, filePath, img>>

\* No file, part of one or none that is an image: the exception ends the request, and the
\* results of its earlier files are lost.
ReadFails(r) ==
  /\ Go(r, "read", "failed")
  /\ ~Readable(r)
  /\ UNCHANGED <<now, disk, filePath, img, results>>

\* getposition and getAddress: an address; none when the service does not answer, of which
\* the exception is printed; or a request that fails over an answer it cannot parse.
AskMap(r) ==
  /\ at[r] = "ask"
  /\ \/ /\ Recorded(r, "address", img[r]) \/ Recorded(r, "unknown", Nothing)
        /\ at' = [at EXCEPT ![r] = "file"]
     \/ at' = [at EXCEPT ![r] = "failed"] /\ UNCHANGED results
  /\ UNCHANGED <<now, disk, filePath, img>>

Answer(r) ==
  /\ AllDone(r)
  /\ Go(r, "file", "answered")
  /\ UNCHANGED <<now, disk, filePath, img, results>>

-----------------------------------------------------------------------------
GetAddress(r) ==
  \/ Receive(r) \/ EmptyFile(r) \/ ChoosePath(r)
  \/ StoreBegins(r) \/ StoreEnds(r) \/ StoreFails(r)
  \/ ReadGPS(r) \/ ReadNoGPS(r) \/ ReadFails(r) \/ AskMap(r) \/ Answer(r)

UploadNext == Tick \/ (\E r \in Requests : GetAddress(r))

UploadSpec == UploadInit /\ [][UploadNext]_uploadVars

-----------------------------------------------------------------------------
\* The address given for a file is of that file, or of one of the same name that was given
\* the same millisecond: two uploads that clash on a path are the only way to an address
\* of another image, however requests, storing errors and reads interleave.
AddressOfItsImage ==
  \A r \in Requests : \A k \in DOMAIN results[r] :
    LET f == results[r][k].of
    IN  f \notin {Nothing, <<r, k>>} =>
          /\ FilesOf[f[1]][f[2]].name = FilesOf[r][k].name
          /\ filePath[f].time = filePath[<<r, k>>].time

\* An answer has one result for each file of its request, in the request's order, whichever
\* of its files was empty, unstored, without a position or unknown to the map.
AnswerFollowsRequest ==
  \A r \in Requests : at[r] = "answered" =>
    /\ Len(results[r]) = Len(FilesOf[r])
    /\ \A k \in DOMAIN results[r] : results[r][k].name = FilesOf[r][k].name

=============================================================================
