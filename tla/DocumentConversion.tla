-------------------------- MODULE DocumentConversion --------------------------
(***************************************************************************)
(* Documents made on request.  ScreenshotUtil stores the picture it is     *)
(* given, puts it into a Word file and has OpenOfficeUtil.converter make a *)
(* PDF of that; WordPdfUtil writes a Word file or a PDF from a page.  The  *)
(* callers share the directories jpg, doc and pdf, and the one port at     *)
(* which an OpenOffice listens; each call starts an OpenOffice of its own. *)
(*                                                                         *)
(* A file holds nothing yet (Blank) or what one of the callers asked for,  *)
(* who is named for it; what several streams write to one file at a time   *)
(* is taken to be what the last of them writes.                            *)
(***************************************************************************)
EXTENDS Naturals

CONSTANTS
  Callers,   \* threads, of one call each
  Names,     \* the argument "name"
  Soffice,   \* "soffice" is configured; if not, an OpenOffice is expected to run already
  Second, Minute, Hour,  \* milliseconds, milliseconds, and minutes
  MaxTime,   \* bound on the clock, in milliseconds
  Nothing,   \* no file, path or process
  Blank, Resident

ASSUME TimeAssumption == Second \in Nat \ {0} /\ Minute \in Nat \ {0} /\ Hour \in Nat \ {0} /\ MaxTime \in Nat
ASSUME SofficeAssumption == Soffice \in BOOLEAN
ASSUME NothingAssumption ==
  /\ Nothing \notin Callers /\ Blank \notin Callers /\ Resident \notin Callers
  /\ Nothing # Blank /\ Nothing # Resident /\ Nothing \notin Nat
  /\ Nothing \notin {"shot", "html"} \X Names \X (0..MaxTime)

VARIABLES
  now,   \* the clock
  png,   \* the pictures, by the millisecond they are named for
  doc,   \* the Word files
  pdf,   \* the PDFs
  job,   \* the call of each caller: its next step, the paths it has chosen, its exceptions
  proc,  \* the OpenOffice a call has started
  port   \* whose OpenOffice listens at port 8100

vars == <<now, png, doc, pdf, job, proc, port>>
files == <<png, doc, pdf>>
office == <<proc, port>>

Kinds == {"shotPdf", "shotWord", "htmlPdf", "htmlWord"}

Steps == {"idle", "word", "png", "pngWrite", "doc", "image", "docClose", "exec", "connect", "convert",
          "destroy", "html", "htmlWrite", "returned", "thrown"}

Moments == 0..MaxTime

\* A path is made of the name and the time.
Paths == {"shot", "html"} \X Names \X Moments

Contents == Callers \cup {Blank, Nothing}

TypeOK ==
  /\ now \in Moments
  /\ png \in [Moments -> Contents] /\ doc \in [Paths -> Contents] /\ pdf \in [Paths -> Contents]
  /\ job \in [Callers -> [kind : Kinds, name : Names, at : Steps, pdf : Paths \cup {Nothing},
                          doc : Paths \cup {Nothing}, png : Moments \cup {Nothing},
                          img : Contents, via : Callers \cup {Resident, Nothing},
                          faults : SUBSET {"write", "connect", "lost", "office", "text"}]]
  /\ proc \in [Callers -> {"none", "alive", "destroyed", "crashed"}]
  /\ port \in Callers \cup {Resident, Nothing}

Init ==
  /\ now = 0
  /\ png = [t \in Moments |-> Nothing]
  /\ doc = [p \in Paths |-> Nothing] /\ pdf = [p \in Paths |-> Nothing]
  /\ job \in [Callers -> [kind : Kinds, name : Names, at : {"idle"}, pdf : {Nothing}, doc : {Nothing},
                          png : {Nothing}, img : {Nothing}, via : {Nothing}, faults : {{}}]]
  /\ proc = [c \in Callers |-> "none"]
  /\ port = IF Soffice THEN Nothing ELSE Resident

-----------------------------------------------------------------------------
At(c, step) == job[c].at = step

\* A call goes on to a step, with one more of its fields set.
Goto(c, step) == job' = [job EXCEPT ![c].at = step]

\* An exception, caught or not, ends a part of a call.
Fault(c, fault, step) == job' = [job EXCEPT ![c].at = step, ![c].faults = @ \cup {fault}]

\* Mutant of ShotPath: hours forgotten, so that minutes count on.
ShotPathOn(c) == <<"shot", job[c].name, now * Minute + Hour>>

\* The format "yyyymmdd" gives the minute of the hour for the month.
ShotPath(c) == <<"shot", job[c].name, (now \div Minute) % Hour>>

\* The format "yyyyMMddHHmmss@".
HtmlPath(c) == <<"html", job[c].name, now \div Second>>

Begin(c) ==
  /\ At(c, "idle")
  /\ job' = [job EXCEPT
       ![c].at = IF job[c].kind \in {"shotPdf", "shotWord"} THEN "word" ELSE "html",
       ![c].pdf = IF job[c].kind = "shotPdf" THEN ShotPath(c) ELSE IF job[c].kind = "htmlPdf" THEN HtmlPath(c) ELSE @,
       ![c].doc = IF job[c].kind = "htmlWord" THEN HtmlPath(c) ELSE @]
  /\ UNCHANGED <<now, files, office>>

-----------------------------------------------------------------------------
(* ScreenshotUtil.generateWord *)

GenerateWord(c) ==
  /\ At(c, "word")
  /\ job' = [job EXCEPT ![c].at = "png", ![c].doc = ShotPath(c)]
  /\ UNCHANGED <<now, files, office>>

\* generatePdf goes on when generateWord has returned, as it does whatever has happened.
AfterWord(c) == IF job[c].kind = "shotPdf" THEN "exec" ELSE "returned"

\* The picture is named for the millisecond alone.
PictureName == now

\* new FileOutputStream empties the file.
PngCreate(c) ==
  /\ At(c, "png")
  /\ png' = [png EXCEPT ![PictureName] = Blank]
  /\ job' = [job EXCEPT ![c].at = "pngWrite", ![c].png = PictureName]
  /\ UNCHANGED <<now, doc, pdf, office>>

\* Mutant of Picture: the time asked again.
PictureNow(c) == now

\* The path of the picture, which is made once.
Picture(c) == job[c].png

PngWrite(c) ==
  /\ At(c, "pngWrite")
  /\ png' = [png EXCEPT ![Picture(c)] = c]
  /\ Goto(c, "doc")
  /\ UNCHANGED <<now, doc, pdf, office>>

DocCreate(c) ==
  /\ At(c, "doc")
  /\ doc' = [doc EXCEPT ![job[c].doc] = Blank]
  /\ Goto(c, "image")
  /\ UNCHANGED <<now, png, pdf, office>>

\* Image.getInstance reads the picture back: a file that another call has just emptied is none.
ReadImage(c) ==
  /\ At(c, "image")
  /\ png[Picture(c)] # Blank
  /\ job' = [job EXCEPT ![c].at = "docClose", ![c].img = png[Picture(c)]]
  /\ UNCHANGED <<now, files, office>>

\* The document is written when it is closed.
DocClose(c) ==
  /\ At(c, "docClose")
  /\ doc' = [doc EXCEPT ![job[c].doc] = job[c].img]
  /\ Goto(c, AfterWord(c))
  /\ UNCHANGED <<now, png, pdf, office>>

\* What cannot be decoded, written or read throws; the exception is caught and the path
\* returned all the same.
WordFails(c) ==
  /\ job[c].at \in {"png", "pngWrite", "doc", "image", "docClose"}
  /\ Fault(c, "write", AfterWord(c))
  /\ UNCHANGED <<now, files, office>>

-----------------------------------------------------------------------------
(* OpenOfficeUtil.converter, called by ScreenshotUtil.generatePdf *)

Exec(c) ==
  /\ At(c, "exec")
  /\ proc' = [proc EXCEPT ![c] = IF Soffice THEN "alive" ELSE @]
  /\ Goto(c, "connect")
  /\ UNCHANGED <<now, files, port>>

\* exec throws an IOException, which generatePdf catches.
ExecFails(c) ==
  /\ At(c, "exec") /\ Soffice
  /\ Fault(c, "connect", "returned")
  /\ UNCHANGED <<now, files, office>>

\* An OpenOffice takes its time to listen, and only one can have the port.
Listen(c) ==
  /\ proc[c] = "alive" /\ port = Nothing
  /\ port' = c
  /\ UNCHANGED <<now, files, job, proc>>

\* connect does not wait for the process just started; a refused connection is an
\* IOException, which skips everything that follows.
Connect(c) ==
  /\ At(c, "connect")
  /\ IF port = Nothing
     THEN Fault(c, "connect", "returned")
     ELSE job' = [job EXCEPT ![c].at = "convert", ![c].via = port]
  /\ UNCHANGED <<now, files, office>>

Connected(c) == job[c].via = Resident \/ proc[job[c].via] = "alive"

Convert(c) ==
  /\ At(c, "convert")
  /\ Connected(c) /\ doc[job[c].doc] # Nothing
  /\ pdf' = [pdf EXCEPT ![job[c].pdf] = doc[job[c].doc]]
  /\ Goto(c, "destroy")
  /\ UNCHANGED <<now, png, doc, office>>

\* A connection that is gone ends the conversion with an exception, which nobody catches.
ConvertLost(c) ==
  /\ At(c, "convert")
  /\ ~Connected(c)
  /\ Fault(c, "lost", "thrown")
  /\ UNCHANGED <<now, files, office>>

\* So does a Word file that is not there or that OpenOffice cannot read, and a pdf it cannot
\* write, which may be left empty.
ConvertFails(c) ==
  /\ At(c, "convert")
  /\ Connected(c)
  /\ \E left \in {pdf[job[c].pdf], Blank} : pdf' = [pdf EXCEPT ![job[c].pdf] = left]
  /\ Fault(c, "office", "thrown")
  /\ UNCHANGED <<now, png, doc, office>>

\* An OpenOffice that a call has started may end by itself, at any time.
Crash(c) ==
  /\ proc[c] = "alive"
  /\ proc' = [proc EXCEPT ![c] = "crashed"]
  /\ port' = IF port = c THEN Nothing ELSE port
  /\ UNCHANGED <<now, files, job>>

\* Mutants of Destroyed: nobody's process; the one the call has used.
DestroyedNothing(c) == {}
DestroyedUsed(c) == {job[c].via}

\* The process p of the call, if it has started one.
Destroyed(c) == IF Soffice THEN {c} ELSE {}

\* connection.disconnect and p.destroy, which does nothing to a process that has ended.
Destroy(c) ==
  /\ At(c, "destroy")
  /\ proc' = [d \in Callers |-> IF d \in Destroyed(c) /\ proc[d] = "alive" THEN "destroyed" ELSE proc[d]]
  /\ port' = IF port \in Destroyed(c) THEN Nothing ELSE port
  /\ Goto(c, "returned")
  /\ UNCHANGED <<now, files>>

-----------------------------------------------------------------------------
(* WordPdfUtil *)

\* The file of the call, in its directory.
HtmlPut(c, content) ==
  IF job[c].kind = "htmlPdf"
  THEN pdf' = [pdf EXCEPT ![job[c].pdf] = content] /\ UNCHANGED doc
  ELSE doc' = [doc EXCEPT ![job[c].doc] = content] /\ UNCHANGED pdf

HtmlCreate(c) ==
  /\ At(c, "html")
  /\ HtmlPut(c, Blank)
  /\ Goto(c, "htmlWrite")
  /\ UNCHANGED <<now, png, office>>

HtmlWrite(c) ==
  /\ At(c, "htmlWrite")
  /\ HtmlPut(c, c)
  /\ Goto(c, "returned")
  /\ UNCHANGED <<now, png, office>>

\* A page without its end mark throws, before the PDF and after the Word file is created;
\* a Word file that cannot be created or parsed throws as well.
HtmlThrows(c) ==
  /\ At(c, "html") \/ (At(c, "htmlWrite") /\ job[c].kind = "htmlWord")
  /\ Fault(c, "text", "thrown")
  /\ UNCHANGED <<now, files, office>>

\* Other exceptions are caught: the PDF stays as it is, the Word file is closed without contents.
HtmlFails(c) ==
  /\ \/ At(c, "htmlWrite") /\ job[c].kind = "htmlWord" /\ HtmlPut(c, Blank)
     \/ job[c].at \in {"html", "htmlWrite"} /\ job[c].kind = "htmlPdf" /\ UNCHANGED <<doc, pdf>>
  /\ Fault(c, "write", "returned")
  /\ UNCHANGED <<now, png, office>>

-----------------------------------------------------------------------------
Tick ==
  /\ now < MaxTime
  /\ now' = now + 1
  /\ UNCHANGED <<files, job, office>>

Screenshot(c) == GenerateWord(c) \/ PngCreate(c) \/ PngWrite(c) \/ DocCreate(c) \/ ReadImage(c)
                 \/ DocClose(c) \/ WordFails(c)

Converter(c) == Exec(c) \/ ExecFails(c) \/ Listen(c) \/ Connect(c) \/ Convert(c) \/ ConvertLost(c)
                \/ ConvertFails(c) \/ Crash(c) \/ Destroy(c)

WordPdf(c) == HtmlCreate(c) \/ HtmlWrite(c) \/ HtmlThrows(c) \/ HtmlFails(c)

Next == Tick \/ \E c \in Callers : Begin(c) \/ Screenshot(c) \/ Converter(c) \/ WordPdf(c)

Spec == Init /\ [][Next]_vars
-----------------------------------------------------------------------------
Over(c) == job[c].at \in {"returned", "thrown"}

Same(x, y) == x = y /\ x # Nothing

\* Two calls meet in a file.
Meet(c, d) == Same(job[c].png, job[d].png) \/ Same(job[c].doc, job[d].doc) \/ Same(job[c].pdf, job[d].pdf)

\* A call that meets no other one in a file, and of which nothing has failed, returns the
\* path of what it was asked for, and the file stays so.
OwnDocument ==
  \A c \in Callers :
    At(c, "returned") /\ job[c].faults = {} /\ (\A d \in Callers \ {c} : ~Meet(c, d)) =>
      IF job[c].kind \in {"shotPdf", "htmlPdf"} THEN pdf[job[c].pdf] = c ELSE doc[job[c].doc] = c

\* Whose picture or page the Word file of call c may hold: its own, or that of a call that
\* had the same path, or of one whose picture was stored in the same millisecond.
MayHold(c) ==
  {e \in Callers : \E d \in Callers : /\ d = c \/ Same(job[c].doc, job[d].doc)
                                      /\ e = d \/ Same(job[d].png, job[e].png)}

\* What is found under the path of a call comes from that call or from one it has met,
\* directly or on the way to the PDF.
ContentExplained ==
  /\ \A p \in Paths : doc[p] \in Callers => \E c \in Callers : job[c].doc = p /\ doc[p] \in MayHold(c)
  /\ \A p \in Paths : pdf[p] \in Callers => \E c \in Callers : job[c].pdf = p /\ pdf[p] \in MayHold(c)

\* The OpenOffice of a call that is over runs on only if something has failed in that call.
LeakOnlyAfterFault ==
  \A c \in Callers : Over(c) /\ proc[c] = "alive" => job[c].faults # {}

\* A conversion loses its connection only because the OpenOffice it has used has crashed, or
\* because that was the one of another call, which has destroyed it on its way out: whatever
\* other calls do, nobody else destroys the one a call has started itself.
LostByNeighbour ==
  \A c \in Callers :
    "lost" \in job[c].faults =>
      LET owner == job[c].via IN
      /\ owner \in Callers
      /\ proc[owner] = "crashed" \/ (proc[owner] = "destroyed" /\ owner # c /\ At(owner, "returned"))
===============================================================================
