---------------------- MODULE DocumentConversionProofs ----------------------
(***************************************************************************)
(* The OpenOffice processes and the files of any callers, names and clock: *)
(* when a process runs on, when a conversion is lost, and whose content a  *)
(* file has.  IInv says of each call what files it has left so far, how    *)
(* far its own process is, and that the process it is connected to has     *)
(* been started; OriginInv says where the content of every picture,        *)
(* document and pdf comes from.                                            *)
(***************************************************************************)
EXTENDS DocumentConversion, Integers, TLAPS

\* The picture and the Word file of a call are there once it has created them; only a failure
\* of its own lets it go on without the Word file.
FilesInv(c) ==
  /\ At(c, "docClose") => job[c].img # Nothing
  /\ job[c].at \in {"pngWrite", "doc", "image"} => job[c].png \in Moments /\ png[job[c].png] # Nothing
  /\ job[c].at \in {"png", "pngWrite", "doc", "image", "docClose", "exec", "connect", "convert"} =>
       job[c].doc \in Paths
  /\ job[c].at \in {"image", "docClose", "exec", "connect", "convert"} =>
       "write" \in job[c].faults \/ doc[job[c].doc] # Nothing

\* The process of a call runs from exec on, until it crashes or the call destroys it, which is
\* the last the call does.
ProcessInv(c) ==
  /\ job[c].at \notin {"connect", "convert", "destroy", "returned", "thrown"} => proc[c] = "none"
  /\ proc[c] = "destroyed" => At(c, "returned")
  /\ ~Soffice => proc[c] = "none"
  /\ Over(c) /\ proc[c] = "alive" => job[c].faults # {}

\* A call is connected to a process that has been started, and one that has lost its connection
\* to one that has ended.
ConnectionInv(c) ==
  /\ At(c, "convert") => job[c].via = Resident \/ (job[c].via \in Callers /\ proc[job[c].via] # "none")
  /\ "lost" \in job[c].faults =>
       At(c, "thrown") /\ job[c].via \in Callers /\ proc[job[c].via] \in {"destroyed", "crashed"}

CallInv(c) == FilesInv(c) /\ ProcessInv(c) /\ ConnectionInv(c)

\* Only a running process listens.
PortInv == port \in Callers => proc[port] = "alive"

IInv == TypeOK /\ PortInv /\ \A c \in Callers : CallInv(c)

USE DEF Moments

-----------------------------------------------------------------------------
LEMMA DivLess ==
  ASSUME NEW n \in Nat, NEW d \in Nat \ {0}
  PROVE  n \div d \in 0..n
<1>1. n \div d \in Int /\ d * (n \div d) <= n /\ n < d * (n \div d) + d
  BY SMT
<1>2. n \div d >= 0
  BY <1>1, SMT
<1>3. n \div d <= n
  BY <1>1, <1>2, SMT
<1> QED BY <1>2, <1>3

LEMMA ModLess ==
  ASSUME NEW n \in Nat, NEW d \in Nat \ {0}
  PROVE  n % d \in 0..n
<1> DEFINE q == n \div d
<1>1. n % d \in Int /\ n % d >= 0 /\ n = d * q + (n % d)
  BY SMT
<1>2. d * q \in Nat
  <2>1. q \in Nat
    BY DivLess
  <2> HIDE DEF q
  <2> QED BY <2>1, SMT
<1> HIDE DEF q
<1> QED BY <1>2, SMT

\* Both formats give a moment within the bound of the clock.
LEMMA PathsChosen ==
  ASSUME TypeOK, NEW c \in Callers
  PROVE  ShotPath(c) \in Paths /\ HtmlPath(c) \in Paths
<1>1. now \in Nat /\ now <= MaxTime /\ MaxTime \in Nat /\ job[c].name \in Names
  BY TimeAssumption DEF TypeOK
<1>2. now \div Second \in 0..now /\ now \div Minute \in 0..now
  BY <1>1, DivLess, TimeAssumption
<1>3. (now \div Minute) % Hour \in 0..(now \div Minute)
  BY <1>2, ModLess, TimeAssumption
<1>4. now \div Second \in Moments /\ (now \div Minute) % Hour \in Moments
  BY <1>1, <1>2, <1>3
<1> QED BY <1>1, <1>4 DEF ShotPath, HtmlPath, Paths

LEMMA InitIInv == Init => IInv
<1> SUFFICES ASSUME Init PROVE IInv
  OBVIOUS
<1>1. TypeOK
  BY TimeAssumption, SofficeAssumption DEF Init, TypeOK, Steps, Contents
<1>2. PortInv
  BY NothingAssumption DEF Init, PortInv
<1>3. \A c \in Callers : CallInv(c)
  BY DEF Init, CallInv, FilesInv, ProcessInv, ConnectionInv, At, Over
<1> QED BY <1>1, <1>2, <1>3 DEF IInv

-----------------------------------------------------------------------------
\* What no step takes back: files are not deleted, processes not started twice.
Grows ==
  /\ \A p \in Paths : doc[p] # Nothing => doc'[p] # Nothing
  /\ \A t \in Moments : png[t] # Nothing => png'[t] # Nothing
  /\ \A d \in Callers : /\ proc[d] # "none" => proc'[d] # "none"
                        /\ proc[d] \in {"destroyed", "crashed"} => proc'[d] = proc[d]

\* A step of one call preserves the invariant if it leaves that call with its own part of it.
LEMMA StepOfOne ==
  ASSUME IInv, NEW c \in Callers, TypeOK', PortInv', Grows, CallInv(c)',
         \A d \in Callers \ {c} : job'[d] = job[d] /\ proc'[d] = proc[d]
  PROVE  IInv'
<1> SUFFICES ASSUME NEW d \in Callers \ {c} PROVE CallInv(d)'
  BY DEF IInv
<1>1. CallInv(d) /\ job'[d] = job[d] /\ proc'[d] = proc[d]
  BY DEF IInv
<1>2. FilesInv(d)'
  BY <1>1 DEF CallInv, FilesInv, At, Grows
<1>3. ProcessInv(d)'
  BY <1>1 DEF CallInv, ProcessInv, At, Over
<1>4. ConnectionInv(d)'
  BY <1>1 DEF CallInv, ConnectionInv, At, Grows
<1> QED BY <1>2, <1>3, <1>4 DEF CallInv

\* The types of the calls.
Jobs == [kind : Kinds, name : Names, at : Steps, pdf : Paths \cup {Nothing},
         doc : Paths \cup {Nothing}, png : Moments \cup {Nothing},
         img : Contents, via : Callers \cup {Resident, Nothing},
         faults : SUBSET {"write", "connect", "lost", "office", "text"}]

JobTyped == job \in [Callers -> Jobs]

\* A step leaves the other calls alone.
OnlyJob(c) == \A d \in Callers \ {c} : job'[d] = job[d]

\* A step leaves the files of the right types, and none of them gone.
FilesKept ==
  /\ doc' \in [Paths -> Contents] /\ png' \in [Moments -> Contents] /\ pdf' \in [Paths -> Contents]
  /\ \A p \in Paths : doc[p] # Nothing => doc'[p] # Nothing
  /\ \A t \in Moments : png[t] # Nothing => png'[t] # Nothing

\* A step that leaves the clock, the processes and the port alone.
LEMMA FilesStep ==
  ASSUME IInv, NEW c \in Callers, UNCHANGED <<now, office>>, FilesKept, JobTyped', OnlyJob(c), CallInv(c)'
  PROVE  IInv'
<1>1. TypeOK'
  BY DEF IInv, TypeOK, office, FilesKept, JobTyped, Jobs
<1>2. PortInv'
  BY DEF IInv, PortInv, office
<1>3. Grows
  BY DEF Grows, FilesKept, office
<1> QED BY <1>1, <1>2, <1>3, StepOfOne DEF OnlyJob, office

-----------------------------------------------------------------------------
\* The ways in which a step changes the record of its call.
LEMMA JobSteps ==
  ASSUME TypeOK, NEW c \in Callers, NEW step \in Steps
  PROVE  /\ job' = [job EXCEPT ![c].at = step] => JobTyped' /\ OnlyJob(c)
         /\ \A fault \in {"write", "connect", "lost", "office", "text"} :
               job' = [job EXCEPT ![c].at = step, ![c].faults = @ \cup {fault}] => JobTyped' /\ OnlyJob(c)
         /\ \A p \in Paths \cup {Nothing}, path \in Paths \cup {Nothing} :
               job' = [job EXCEPT ![c].at = step, ![c].pdf = p, ![c].doc = path] => JobTyped' /\ OnlyJob(c)
         /\ \A path \in Paths :
               job' = [job EXCEPT ![c].at = step, ![c].doc = path] => JobTyped' /\ OnlyJob(c)
         /\ \A time \in Moments :
               job' = [job EXCEPT ![c].at = step, ![c].png = time] => JobTyped' /\ OnlyJob(c)
         /\ \A content \in Contents :
               job' = [job EXCEPT ![c].at = step, ![c].img = content] => JobTyped' /\ OnlyJob(c)
         /\ \A from \in Callers \cup {Resident, Nothing} :
               job' = [job EXCEPT ![c].at = step, ![c].via = from] => JobTyped' /\ OnlyJob(c)
<1> DEFINE P == Paths \cup {Nothing}
           T == Moments \cup {Nothing}
           V == Callers \cup {Resident, Nothing}
           F == SUBSET {"write", "connect", "lost", "office", "text"}
           J == [kind : Kinds, name : Names, at : Steps, pdf : P, doc : P, png : T,
                 img : Contents, via : V, faults : F]
<1>1. job \in [Callers -> J]
  BY DEF TypeOK
<1>2. /\ Paths \subseteq P /\ Moments \subseteq T
      /\ \A fault \in {"write", "connect", "lost", "office", "text"} : job[c].faults \cup {fault} \in F
  BY DEF TypeOK
<1>3. JobTyped' <=> job' \in [Callers -> J]
  BY DEF JobTyped, Jobs
<1> HIDE DEF P, T, V, F
<1>4. ASSUME job' = [job EXCEPT ![c].at = step]
      PROVE  job' \in [Callers -> J] /\ OnlyJob(c)
  BY <1>1, <1>2, <1>4 DEF OnlyJob
<1>5. ASSUME NEW fault \in {"write", "connect", "lost", "office", "text"},
             job' = [job EXCEPT ![c].at = step, ![c].faults = @ \cup {fault}]
      PROVE  job' \in [Callers -> J] /\ OnlyJob(c)
  BY <1>1, <1>2, <1>5 DEF OnlyJob
<1>6. ASSUME NEW p \in P, NEW path \in P, job' = [job EXCEPT ![c].at = step, ![c].pdf = p, ![c].doc = path]
      PROVE  job' \in [Callers -> J] /\ OnlyJob(c)
  BY <1>1, <1>2, <1>6 DEF OnlyJob
<1>7. ASSUME NEW path \in Paths, job' = [job EXCEPT ![c].at = step, ![c].doc = path]
      PROVE  job' \in [Callers -> J] /\ OnlyJob(c)
  BY <1>1, <1>2, <1>7 DEF OnlyJob
<1>8. ASSUME NEW time \in Moments, job' = [job EXCEPT ![c].at = step, ![c].png = time]
      PROVE  job' \in [Callers -> J] /\ OnlyJob(c)
  BY <1>1, <1>2, <1>8 DEF OnlyJob
<1>9. ASSUME NEW content \in Contents, job' = [job EXCEPT ![c].at = step, ![c].img = content]
      PROVE  job' \in [Callers -> J] /\ OnlyJob(c)
  BY <1>1, <1>2, <1>9 DEF OnlyJob
<1>10. ASSUME NEW from \in V, job' = [job EXCEPT ![c].at = step, ![c].via = from]
      PROVE  job' \in [Callers -> J] /\ OnlyJob(c)
  BY <1>1, <1>2, <1>10 DEF OnlyJob
<1> QED BY <1>3, <1>4, <1>5, <1>6, <1>7, <1>8, <1>9, <1>10 DEF P, T, V, F

LEMMA BeginInv ==
  ASSUME IInv, NEW c \in Callers, Begin(c)
  PROVE  IInv'
<1>1. ShotPath(c) \in Paths /\ HtmlPath(c) \in Paths
  BY PathsChosen DEF IInv
<1>2. CallInv(c)
  BY DEF IInv
<1>3. CallInv(c)'
  BY <1>1, <1>2 DEF IInv, TypeOK, Begin, At, Over, CallInv, FilesInv, ProcessInv, ConnectionInv, files, office
<1>4. JobTyped' /\ OnlyJob(c)
  <2> DEFINE step  == IF job[c].kind \in {"shotPdf", "shotWord"} THEN "word" ELSE "html"
             pathP == IF job[c].kind = "shotPdf" THEN ShotPath(c)
                      ELSE IF job[c].kind = "htmlPdf" THEN HtmlPath(c) ELSE job[c].pdf
             path  == IF job[c].kind = "htmlWord" THEN HtmlPath(c) ELSE job[c].doc
  <2>1. step \in Steps /\ pathP \in Paths \cup {Nothing} /\ path \in Paths \cup {Nothing}
    BY <1>1 DEF IInv, TypeOK, Steps
  <2>2. job' = [job EXCEPT ![c].at = step, ![c].pdf = pathP, ![c].doc = path]
    BY DEF Begin
  <2> HIDE DEF step, pathP, path
  <2> QED BY <2>1, <2>2, JobSteps DEF IInv
<1>5. FilesKept
  BY DEF FilesKept, IInv, TypeOK, Begin, files
<1> QED BY <1>3, <1>4, <1>5, FilesStep DEF Begin, office

LEMMA ScreenshotInv ==
  ASSUME IInv, NEW c \in Callers, Screenshot(c)
  PROVE  IInv'
<1> USE NothingAssumption DEF At, Goto, Fault, files, office
<1>1. /\ CallInv(c) /\ TypeOK /\ job[c].faults \subseteq {"write", "connect", "lost", "office", "text"}
      /\ AfterWord(c) \in {"exec", "returned"} /\ ShotPath(c) \in Paths
  BY PathsChosen DEF IInv, TypeOK, AfterWord
<1>2. CASE GenerateWord(c)
  <2>1. CallInv(c)'
    BY <1>1, <1>2 DEF Over, CallInv, FilesInv, ProcessInv, ConnectionInv, TypeOK, GenerateWord
  <2>2. JobTyped' /\ OnlyJob(c)
    BY <1>1, <1>2, JobSteps DEF TypeOK, GenerateWord, Steps
  <2>3. FilesKept
    BY <1>1, <1>2 DEF FilesKept, TypeOK, GenerateWord, Steps
  <2> QED BY <1>2, <2>1, <2>2, <2>3, FilesStep DEF GenerateWord
<1>3. CASE PngCreate(c)
  <2>1. CallInv(c)'
    BY <1>1, <1>3 DEF Over, CallInv, FilesInv, ProcessInv, ConnectionInv, TypeOK, PngCreate, PictureName
  <2>2. JobTyped' /\ OnlyJob(c)
    BY <1>1, <1>3, JobSteps DEF TypeOK, PngCreate, PictureName, Steps, Contents
  <2>3. FilesKept
    BY <1>1, <1>3 DEF FilesKept, TypeOK, PngCreate, PictureName, Steps, Contents
  <2> QED BY <1>3, <2>1, <2>2, <2>3, FilesStep DEF PngCreate
<1>4. CASE PngWrite(c)
  <2>1. CallInv(c)'
    BY <1>1, <1>4 DEF Over, CallInv, FilesInv, ProcessInv, ConnectionInv, TypeOK, PngWrite, Picture
  <2>2. JobTyped' /\ OnlyJob(c)
    BY <1>1, <1>4, JobSteps DEF TypeOK, PngWrite, Picture, Steps, Contents
  <2>3. FilesKept
    BY <1>1, <1>4 DEF FilesKept, TypeOK, PngWrite, Picture, Steps, Contents
  <2> QED BY <1>4, <2>1, <2>2, <2>3, FilesStep DEF PngWrite
<1>5. CASE DocCreate(c)
  <2>1. CallInv(c)'
    BY <1>1, <1>5 DEF Over, CallInv, FilesInv, ProcessInv, ConnectionInv, TypeOK, DocCreate
  <2>2. JobTyped' /\ OnlyJob(c)
    BY <1>1, <1>5, JobSteps DEF TypeOK, DocCreate, Steps, Contents
  <2>3. FilesKept
    BY <1>1, <1>5 DEF FilesKept, TypeOK, DocCreate, Steps, Contents
  <2> QED BY <1>5, <2>1, <2>2, <2>3, FilesStep DEF DocCreate
<1>6. CASE ReadImage(c)
  <2>1. CallInv(c)'
    BY <1>1, <1>6 DEF Over, CallInv, FilesInv, ProcessInv, ConnectionInv, TypeOK, ReadImage, Picture
  <2>2. JobTyped' /\ OnlyJob(c)
    <3>1. png[job[c].png] \in Contents
      BY <1>1, <1>6 DEF TypeOK, ReadImage, CallInv, FilesInv
    <3> QED BY <1>1, <1>6, <3>1, JobSteps DEF ReadImage, Picture, Steps
  <2>3. FilesKept
    BY <1>1, <1>6 DEF FilesKept, TypeOK, ReadImage, Picture, Steps, Contents
  <2> QED BY <1>6, <2>1, <2>2, <2>3, FilesStep DEF ReadImage
<1>7. CASE DocClose(c)
  <2>1. CallInv(c)'
    BY <1>1, <1>7 DEF Over, CallInv, FilesInv, ProcessInv, ConnectionInv, TypeOK, DocClose
  <2>2. JobTyped' /\ OnlyJob(c)
    BY <1>1, <1>7, JobSteps DEF TypeOK, DocClose, Steps, Contents
  <2>3. FilesKept
    <3>1. job[c].img \in Contents \ {Nothing} /\ doc' = [doc EXCEPT ![job[c].doc] = job[c].img]
      BY <1>1, <1>7 DEF TypeOK, DocClose, CallInv, FilesInv
    <3> QED BY <1>1, <1>7, <3>1 DEF FilesKept, TypeOK, DocClose
  <2> QED BY <1>7, <2>1, <2>2, <2>3, FilesStep DEF DocClose
<1>8. CASE WordFails(c)
  <2>1. CallInv(c)'
    BY <1>1, <1>8 DEF Over, CallInv, FilesInv, ProcessInv, ConnectionInv, TypeOK, WordFails
  <2>2. JobTyped' /\ OnlyJob(c)
    BY <1>1, <1>8, JobSteps DEF TypeOK, WordFails, Steps
  <2>3. FilesKept
    BY <1>1, <1>8 DEF FilesKept, TypeOK, WordFails, Steps
  <2> QED BY <1>8, <2>1, <2>2, <2>3, FilesStep DEF WordFails
<1> QED BY <1>2, <1>3, <1>4, <1>5, <1>6, <1>7, <1>8 DEF Screenshot

LEMMA WordPdfInv ==
  ASSUME IInv, NEW c \in Callers, WordPdf(c)
  PROVE  IInv'
<1> USE NothingAssumption DEF At, Goto, Fault, files, office
<1>1. CallInv(c) /\ TypeOK /\ job[c].faults \subseteq {"write", "connect", "lost", "office", "text"}
  BY DEF IInv, TypeOK
<1>2. ASSUME NEW content \in {Blank, c}, HtmlPut(c, content)
      PROVE  /\ doc' \in [Paths -> Contents] /\ pdf' \in [Paths -> Contents]
             /\ \A p \in Paths : doc[p] # Nothing => doc'[p] # Nothing
  BY <1>1, <1>2 DEF TypeOK, HtmlPut, Contents
<1>3. CASE HtmlCreate(c)
  <2>1. CallInv(c)'
    BY <1>1, <1>3 DEF Over, CallInv, FilesInv, ProcessInv, ConnectionInv, TypeOK, HtmlCreate
  <2>2. JobTyped' /\ OnlyJob(c)
    BY <1>1, <1>2, <1>3, JobSteps DEF TypeOK, HtmlCreate, Steps
  <2>3. FilesKept
    BY <1>1, <1>2, <1>3 DEF FilesKept, TypeOK, HtmlCreate, Steps
  <2> QED BY <1>2, <1>3, <2>1, <2>2, <2>3, FilesStep DEF HtmlCreate
<1>4. CASE HtmlWrite(c)
  <2>1. CallInv(c)'
    BY <1>1, <1>4 DEF Over, CallInv, FilesInv, ProcessInv, ConnectionInv, TypeOK, HtmlWrite
  <2>2. JobTyped' /\ OnlyJob(c)
    BY <1>1, <1>2, <1>4, JobSteps DEF TypeOK, HtmlWrite, Steps
  <2>3. FilesKept
    BY <1>1, <1>2, <1>4 DEF FilesKept, TypeOK, HtmlWrite, Steps
  <2> QED BY <1>2, <1>4, <2>1, <2>2, <2>3, FilesStep DEF HtmlWrite
<1>5. CASE HtmlThrows(c)
  <2>1. CallInv(c)'
    BY <1>1, <1>5 DEF Over, CallInv, FilesInv, ProcessInv, ConnectionInv, TypeOK, HtmlThrows
  <2>2. JobTyped' /\ OnlyJob(c)
    BY <1>1, <1>5, JobSteps DEF TypeOK, HtmlThrows, Steps
  <2>3. FilesKept
    BY <1>1, <1>5 DEF FilesKept, TypeOK, HtmlThrows, Steps
  <2> QED BY <1>5, <2>1, <2>2, <2>3, FilesStep DEF HtmlThrows
<1>6. CASE HtmlFails(c)
  <2>1. CallInv(c)'
    BY <1>1, <1>6 DEF Over, CallInv, FilesInv, ProcessInv, ConnectionInv, TypeOK, HtmlFails
  <2>2. JobTyped' /\ OnlyJob(c)
    BY <1>1, <1>2, <1>6, JobSteps DEF TypeOK, HtmlFails, Steps
  <2>3. FilesKept
    BY <1>1, <1>2, <1>6 DEF FilesKept, TypeOK, HtmlFails, Steps
  <2> QED BY <1>2, <1>6, <2>1, <2>2, <2>3, FilesStep DEF HtmlFails
<1> QED BY <1>3, <1>4, <1>5, <1>6 DEF WordPdf

LEMMA ConverterInv ==
  ASSUME IInv, NEW c \in Callers, Converter(c)
  PROVE  IInv'
<1> USE NothingAssumption, SofficeAssumption
    DEF At, Goto, Fault, files, office
<1>1. /\ CallInv(c) /\ TypeOK /\ job[c].faults \subseteq {"write", "connect", "lost", "office", "text"}
      /\ PortInv
  BY DEF IInv, TypeOK
<1>2. CASE Exec(c)
  <2>1. CallInv(c)'
    BY <1>1, <1>2 DEF Over, CallInv, FilesInv, ProcessInv, ConnectionInv, TypeOK, Exec
  <2>2. JobTyped' /\ OnlyJob(c)
    BY <1>1, <1>2, JobSteps DEF Exec, Steps
  <2>3. proc[c] = "none" /\ proc' = [proc EXCEPT ![c] = IF Soffice THEN "alive" ELSE @]
    BY <1>1, <1>2 DEF Exec, CallInv, ProcessInv
  <2>4. TypeOK'
    BY <1>1, <1>2, <2>2, <2>3 DEF TypeOK, Exec, JobTyped, Jobs
  <2>5. Grows /\ PortInv'
    BY <1>1, <1>2, <2>3 DEF TypeOK, Exec, Grows, PortInv
  <2> QED BY <1>2, <2>1, <2>2, <2>3, <2>4, <2>5, StepOfOne DEF TypeOK, OnlyJob
<1>3. CASE ExecFails(c)
  <2>1. CallInv(c)'
    BY <1>1, <1>3 DEF Over, CallInv, FilesInv, ProcessInv, ConnectionInv, TypeOK, ExecFails
  <2>2. JobTyped' /\ OnlyJob(c)
    BY <1>1, <1>3, JobSteps DEF TypeOK, ExecFails, Steps
  <2>3. FilesKept
    BY <1>1, <1>3 DEF FilesKept, TypeOK, ExecFails, Steps
  <2> QED BY <1>3, <2>1, <2>2, <2>3, FilesStep DEF ExecFails
<1>4. CASE Listen(c)
  <2>1. TypeOK' /\ Grows /\ PortInv'
    BY <1>1, <1>4 DEF TypeOK, Listen, Grows, PortInv
  <2>2. CallInv(c)'
    BY <1>1, <1>4 DEF Over, CallInv, FilesInv, ProcessInv, ConnectionInv, Listen
  <2> QED BY <1>4, <2>1, <2>2, StepOfOne DEF Listen
<1>5. CASE Connect(c)
  <2>1. CallInv(c)'
    <3>1. CASE port = Nothing
      <4>1. job' = [job EXCEPT ![c].at = "returned", ![c].faults = @ \cup {"connect"}]
        BY <1>5, <3>1 DEF Connect
      <4>2. /\ job'[c].at = "returned" /\ job'[c].faults = job[c].faults \cup {"connect"}
            /\ job'[c].via = job[c].via /\ UNCHANGED <<doc, png, proc>>
        BY <1>1, <1>5, <4>1 DEF TypeOK, Connect
      <4>3. "lost" \notin job[c].faults
        BY <1>1, <1>5 DEF CallInv, ConnectionInv, Connect
      <4>4. FilesInv(c)'
        BY <4>2 DEF FilesInv
      <4>5. ProcessInv(c)'
        BY <1>1, <4>2 DEF CallInv, ProcessInv, Over
      <4>6. ConnectionInv(c)'
        BY <4>2, <4>3 DEF ConnectionInv
      <4> QED BY <4>4, <4>5, <4>6 DEF CallInv
    <3>2. CASE port # Nothing
      <4>1. job' = [job EXCEPT ![c].at = "convert", ![c].via = port]
        BY <1>5, <3>2 DEF Connect
      <4>2. port = Resident \/ (port \in Callers /\ proc[port] # "none")
        BY <1>1, <3>2 DEF TypeOK, PortInv
      <4>3. /\ job'[c].at = "convert" /\ job'[c].via = port /\ UNCHANGED <<doc, png, proc>>
            /\ job'[c].doc = job[c].doc /\ job'[c].faults = job[c].faults
        BY <1>1, <1>5, <4>1 DEF TypeOK, Connect
      <4>4. FilesInv(c)'
        BY <1>1, <1>5, <4>3 DEF CallInv, FilesInv, Connect
      <4>5. ProcessInv(c)'
        BY <1>1, <1>5, <4>3 DEF CallInv, ProcessInv, Connect, Over
      <4>6. ConnectionInv(c)'
        BY <1>1, <1>5, <4>2, <4>3 DEF CallInv, ConnectionInv, Connect
      <4> QED BY <4>4, <4>5, <4>6 DEF CallInv
    <3> QED BY <3>1, <3>2
  <2>2. JobTyped' /\ OnlyJob(c)
    BY <1>1, <1>5, JobSteps DEF TypeOK, Connect, Steps
  <2>3. FilesKept
    BY <1>1, <1>5 DEF FilesKept, TypeOK, Connect, Steps
  <2> QED BY <1>5, <2>1, <2>2, <2>3, FilesStep DEF Connect
<1>6. CASE Convert(c)
  <2>1. CallInv(c)'
    BY <1>1, <1>6 DEF Over, CallInv, FilesInv, ProcessInv, ConnectionInv, TypeOK, Convert
  <2>2. JobTyped' /\ OnlyJob(c)
    BY <1>1, <1>6, JobSteps DEF TypeOK, Convert, Steps
  <2>3. FilesKept
    <3>1. doc[job[c].doc] \in Contents /\ pdf' = [pdf EXCEPT ![job[c].pdf] = doc[job[c].doc]]
      BY <1>1, <1>6 DEF TypeOK, Convert, CallInv, FilesInv
    <3> QED BY <1>1, <1>6, <3>1 DEF FilesKept, TypeOK, Convert
  <2> QED BY <1>6, <2>1, <2>2, <2>3, FilesStep DEF Convert
<1>7. CASE ConvertLost(c)
  <2>1. CallInv(c)'
    BY <1>1, <1>7 DEF Over, CallInv, FilesInv, ProcessInv, ConnectionInv, TypeOK, ConvertLost, Connected
  <2>2. JobTyped' /\ OnlyJob(c)
    BY <1>1, <1>7, JobSteps DEF TypeOK, ConvertLost, Steps
  <2>3. FilesKept
    BY <1>1, <1>7 DEF FilesKept, TypeOK, ConvertLost, Steps
  <2> QED BY <1>7, <2>1, <2>2, <2>3, FilesStep DEF ConvertLost
<1>8. CASE ConvertFails(c)
  <2>1. CallInv(c)'
    BY <1>1, <1>8 DEF Over, CallInv, FilesInv, ProcessInv, ConnectionInv, TypeOK, ConvertFails
  <2>2. JobTyped' /\ OnlyJob(c)
    BY <1>1, <1>8, JobSteps DEF TypeOK, ConvertFails, Steps
  <2>3. FilesKept
    BY <1>1, <1>8 DEF FilesKept, TypeOK, ConvertFails, Contents
  <2> QED BY <1>8, <2>1, <2>2, <2>3, FilesStep DEF ConvertFails
<1>9. CASE Crash(c)
  <2>1. CallInv(c)'
    BY <1>1, <1>9 DEF Over, CallInv, FilesInv, ProcessInv, ConnectionInv, TypeOK, Crash
  <2>2. TypeOK' /\ Grows /\ PortInv'
    BY <1>1, <1>9 DEF TypeOK, Crash, Grows, PortInv
  <2> QED BY <1>9, <2>1, <2>2, StepOfOne DEF TypeOK, Crash
<1>10. CASE Destroy(c)
  <2>1. CallInv(c)'
    BY <1>1, <1>10 DEF Over, CallInv, FilesInv, ProcessInv, ConnectionInv, TypeOK, Destroy, Destroyed
  <2>2. TypeOK' /\ Grows /\ PortInv'
    BY <1>1, <1>10 DEF TypeOK, Destroy, Destroyed, Steps, Grows, PortInv
  <2> QED BY <1>10, <2>1, <2>2, StepOfOne DEF TypeOK, Destroy, Destroyed
<1> QED BY <1>2, <1>3, <1>4, <1>5, <1>6, <1>7, <1>8, <1>9, <1>10 DEF Converter

LEMMA NextIInv == IInv /\ [Next]_vars => IInv'
<1> SUFFICES ASSUME IInv, [Next]_vars PROVE IInv'
  OBVIOUS
<1>1. ASSUME UNCHANGED <<files, job, office>>, now' \in Moments PROVE IInv'
  BY <1>1 DEF IInv, TypeOK, PortInv, CallInv, FilesInv, ProcessInv, ConnectionInv, At, Over, files, office
<1>2. CASE Tick
  BY <1>1, <1>2, TimeAssumption DEF Tick, IInv, TypeOK
<1>3. CASE UNCHANGED vars
  BY <1>1, <1>3 DEF vars, IInv, TypeOK, files, office
<1>4. ASSUME NEW c \in Callers, Begin(c) \/ Screenshot(c) \/ Converter(c) \/ WordPdf(c) PROVE IInv'
  BY <1>4, BeginInv, ScreenshotInv, ConverterInv, WordPdfInv
<1> QED BY <1>2, <1>3, <1>4 DEF Next

\* The invariant holds in every reachable state, however the calls interleave and fail.
THEOREM Invariance == Spec => []IInv
BY InitIInv, NextIInv, PTL DEF Spec

\* The clock, the directories, the calls and the processes keep their types: the paths that
\* the two formats give are paths.
THEOREM TypeCorrect == Spec => []TypeOK
<1>1. IInv => TypeOK
  BY DEF IInv
<1> QED BY <1>1, Invariance, PTL

\* The OpenOffice of a call that is over runs on only if something has failed in that call.
THEOREM LeakAfterFault == Spec => []LeakOnlyAfterFault
<1>1. IInv => LeakOnlyAfterFault
  BY DEF IInv, CallInv, ProcessInv, LeakOnlyAfterFault
<1> QED BY <1>1, Invariance, PTL

\* A conversion loses its connection only by a crash of the OpenOffice it has used, or because
\* that was the one of another call, which has destroyed it on its way out.
THEOREM LostByOther == Spec => []LostByNeighbour
<1>1. IInv => LostByNeighbour
  BY DEF IInv, CallInv, ConnectionInv, ProcessInv, LostByNeighbour, At
<1> QED BY <1>1, Invariance, PTL

-----------------------------------------------------------------------------
(* Where the contents of the files come from.  No call changes a path it has chosen, so that
   callers that have met stay met, and each step writes, at most, to the files of its call. *)

\* A call chooses its paths once, and those of its kind.
ChoiceInv(c) ==
  /\ At(c, "idle") => job[c].pdf = Nothing /\ job[c].doc = Nothing
  /\ job[c].at \in {"idle", "word", "png"} => job[c].png = Nothing
  /\ At(c, "word") => job[c].doc = Nothing
  /\ job[c].at \in {"word", "png", "pngWrite", "doc", "image", "docClose"} =>
       job[c].kind \in {"shotPdf", "shotWord"}
  /\ job[c].at \in {"exec", "connect", "convert", "destroy"} => job[c].kind = "shotPdf"
  /\ job[c].at \in {"html", "htmlWrite"} => job[c].kind \in {"htmlPdf", "htmlWord"}
  /\ ~At(c, "idle") /\ job[c].kind \in {"shotPdf", "htmlPdf"} => job[c].pdf \in Paths
  /\ ~At(c, "idle") /\ job[c].kind = "htmlWord" => job[c].doc \in Paths
  /\ ~At(c, "idle") /\ ~At(c, "word") /\ job[c].kind \in {"shotPdf", "shotWord"} => job[c].doc \in Paths

Alone(c) == \A d \in Callers \ {c} : ~Meet(c, d)

\* What a call that meets no other one, and of which nothing has failed, has written so far
\* holds what it was asked for.
OwnInv(c) ==
  Alone(c) /\ job[c].faults = {} =>
    /\ job[c].at \in {"doc", "image"} => png[job[c].png] = c
    /\ At(c, "docClose") => job[c].img = c
    /\ job[c].at \in {"exec", "connect", "convert"} => doc[job[c].doc] = c
    /\ At(c, "destroy") => pdf[job[c].pdf] = c
    /\ At(c, "returned") => IF job[c].kind \in {"shotPdf", "htmlPdf"} THEN pdf[job[c].pdf] = c
                            ELSE doc[job[c].doc] = c

\* A picture is that of a caller who has chosen its name.
PicturesInv == \A t \in Moments : png[t] \in Callers => job[png[t]].png = t

\* The picture a call has read is its own, or that of one which had the same name for it.
ImageInv(c) == job[c].img \in Callers => Same(job[c].png, job[job[c].img].png)

OriginInv ==
  PicturesInv /\ ContentExplained /\ \A c \in Callers : ChoiceInv(c) /\ OwnInv(c) /\ ImageInv(c)

LEMMA InitOriginInv == Init => OriginInv
<1> SUFFICES ASSUME Init PROVE OriginInv
  OBVIOUS
<1>1. PicturesInv /\ ContentExplained
  BY NothingAssumption DEF Init, PicturesInv, ContentExplained
<1>2. \A c \in Callers : ChoiceInv(c) /\ OwnInv(c) /\ ImageInv(c)
  BY NothingAssumption DEF Init, ChoiceInv, OwnInv, ImageInv, At
<1> QED BY <1>1, <1>2 DEF OriginInv

\* Paths that have been chosen stay.
PathsKept ==
  \A d \in Callers : /\ job'[d].kind = job[d].kind
                     /\ job[d].png # Nothing => job'[d].png = job[d].png
                     /\ job[d].doc # Nothing => job'[d].doc = job[d].doc
                     /\ job[d].pdf # Nothing => job'[d].pdf = job[d].pdf

\* What a step of call c writes, where, and what it reads.
Writes(c) ==
  /\ \A t \in Moments : png'[t] = png[t] \/ (t = job'[c].png /\ png'[t] \in {Blank, c})
  /\ \A p \in Paths : doc'[p] = doc[p] \/ (p = job'[c].doc /\ doc'[p] \in {Blank, c, job[c].img})
  /\ \A p \in Paths : \/ pdf'[p] = pdf[p]
                      \/ p = job'[c].pdf /\ pdf'[p] \in {Blank, c}
                      \/ p = job'[c].pdf /\ job[c].doc \in Paths /\ pdf'[p] = doc[job[c].doc]
  /\ job'[c].img = job[c].img \/ (job[c].png \in Moments /\ job'[c].img = png[job[c].png])

\* Callers that have met stay met.
LEMMA MeetingsKept ==
  ASSUME PathsKept, NEW c \in Callers
  PROVE  /\ \A d \in Callers : Meet(c, d) => Meet(c, d)'
         /\ MayHold(c) \subseteq MayHold(c)'
         /\ Alone(c)' => Alone(c)
<1>1. \A d \in Callers : /\ Same(job[c].png, job[d].png) => Same(job'[c].png, job'[d].png)
                         /\ Same(job[c].doc, job[d].doc) => Same(job'[c].doc, job'[d].doc)
                         /\ Same(job[c].pdf, job[d].pdf) => Same(job'[c].pdf, job'[d].pdf)
  BY DEF PathsKept, Same
<1>2. \A d, e \in Callers : Same(job[d].png, job[e].png) => Same(job'[d].png, job'[e].png)
  BY DEF PathsKept, Same
<1>3. \A d \in Callers : Meet(c, d) => Meet(c, d)'
  BY <1>1 DEF Meet
<1>4. MayHold(c) \subseteq MayHold(c)'
  BY <1>1, <1>2 DEF MayHold
<1> QED BY <1>3, <1>4 DEF Alone

\* A step of call c that writes only where it may, and leaves the call with its own part of
\* the invariant, preserves it.
LEMMA OriginStep ==
  ASSUME IInv, OriginInv, NEW c \in Callers, PathsKept, OnlyJob(c), Writes(c), ChoiceInv(c)', OwnInv(c)'
  PROVE  OriginInv'
<1> USE NothingAssumption
<1>1. PicturesInv'
  <2> SUFFICES ASSUME NEW t \in Moments, png'[t] \in Callers PROVE job'[png'[t]].png = t
    BY DEF PicturesInv
  <2>1. CASE png'[t] = png[t]
    <3>1. job[png[t]].png = t /\ t # Nothing
      BY <2>1 DEF OriginInv, PicturesInv
    <3> QED BY <2>1, <3>1 DEF PathsKept
  <2>2. CASE t = job'[c].png /\ png'[t] \in {Blank, c}
    BY <2>2
  <2> QED BY <2>1, <2>2 DEF Writes
<1>2. \A d \in Callers : ImageInv(d)'
  <2> SUFFICES ASSUME NEW d \in Callers, job'[d].img \in Callers
               PROVE  Same(job'[d].png, job'[job'[d].img].png)
    BY DEF ImageInv
  <2>1. CASE job'[d].img = job[d].img
    <3>1. Same(job[d].png, job[job[d].img].png)
      BY <2>1 DEF OriginInv, ImageInv
    <3> QED BY <2>1, <3>1 DEF PathsKept, Same
  <2>2. CASE d = c /\ job[c].png \in Moments /\ job'[c].img = png[job[c].png]
    <3>1. job[job'[c].img].png = job[c].png /\ job[c].png # Nothing
      BY <2>2 DEF OriginInv, PicturesInv
    <3> QED BY <2>2, <3>1 DEF PathsKept, Same
  <2> QED BY <2>1, <2>2 DEF Writes, OnlyJob
<1>3. ASSUME NEW p \in Paths, NEW d \in Callers, NEW e \in Callers,
             job[d].doc = p, e \in MayHold(d)
      PROVE  job'[d].doc = p /\ e \in MayHold(d)'
  <2>1. p # Nothing
    BY DEF Paths
  <2> QED BY <1>3, <2>1, MeetingsKept DEF PathsKept
<1>4. \A d \in Callers : d \in MayHold(d)'
  BY DEF MayHold
<1>5. ASSUME NEW p \in Paths, doc'[p] \in Callers
      PROVE  \E d \in Callers : job'[d].doc = p /\ doc'[p] \in MayHold(d)'
  <2>1. CASE doc'[p] = doc[p]
    <3>1. PICK d \in Callers : job[d].doc = p /\ doc[p] \in MayHold(d)
      BY <1>5, <2>1 DEF OriginInv, ContentExplained
    <3> QED BY <1>3, <1>5, <2>1, <3>1
  <2>2. CASE p = job'[c].doc /\ doc'[p] = c
    BY <1>4, <2>2
  <2>3. CASE p = job'[c].doc /\ doc'[p] = job[c].img
    <3>1. Same(job[c].png, job[job[c].img].png) /\ job[c].img \in Callers
      BY <1>5, <2>3 DEF OriginInv, ImageInv
    <3>2. job[c].img \in MayHold(c)
      BY <3>1 DEF MayHold
    <3> QED BY <2>3, <3>2, MeetingsKept
  <2> QED BY <1>5, <2>1, <2>2, <2>3 DEF Writes
<1>6. ASSUME NEW p \in Paths, pdf'[p] \in Callers
      PROVE  \E d \in Callers : job'[d].pdf = p /\ pdf'[p] \in MayHold(d)'
  <2>1. CASE pdf'[p] = pdf[p]
    <3>1. PICK d \in Callers : job[d].pdf = p /\ pdf[p] \in MayHold(d)
      BY <1>6, <2>1 DEF OriginInv, ContentExplained
    <3>2. p # Nothing
      BY DEF Paths
    <3> QED BY <2>1, <3>1, <3>2, MeetingsKept DEF PathsKept
  <2>2. CASE p = job'[c].pdf /\ pdf'[p] = c
    BY <1>4, <2>2
  <2>3. CASE p = job'[c].pdf /\ job[c].doc \in Paths /\ pdf'[p] = doc[job[c].doc]
    <3> DEFINE e == pdf'[p]
    <3>1. PICK d \in Callers : job[d].doc = job[c].doc /\ e \in MayHold(d)
      BY <1>6, <2>3 DEF OriginInv, ContentExplained
    <3>2. PICK f \in Callers : (f = d \/ Same(job[d].doc, job[f].doc)) /\ (e = f \/ Same(job[f].png, job[e].png))
      BY <3>1 DEF MayHold
    <3>3. Same(job[c].doc, job[f].doc)
      <4>1. job[c].doc # Nothing
        BY <2>3 DEF Paths
      <4> QED BY <3>1, <3>2, <4>1 DEF Same
    <3>4. e \in MayHold(c)
      BY <1>6, <3>2, <3>3 DEF MayHold
    <3> QED BY <2>3, <3>4, MeetingsKept
  <2> QED BY <1>6, <2>1, <2>2, <2>3 DEF Writes
<1>7. ContentExplained'
  BY <1>5, <1>6 DEF ContentExplained
<1>8. ASSUME NEW d \in Callers \ {c} PROVE ChoiceInv(d)' /\ OwnInv(d)'
  <2>1. ChoiceInv(d) /\ OwnInv(d) /\ job'[d] = job[d] /\ FilesInv(d) /\ job[d] \in Jobs
    BY <1>8 DEF OriginInv, OnlyJob, IInv, TypeOK, CallInv, Jobs
  <2>2. ChoiceInv(d)'
    BY <2>1 DEF ChoiceInv, At
  <2>3. ASSUME Alone(d)', job[d].faults = {}
        PROVE  /\ \A t \in Moments : t = job[d].png => png'[t] = png[t]
               /\ \A p \in Paths : p = job[d].doc => doc'[p] = doc[p]
               /\ \A p \in Paths : p = job[d].pdf => pdf'[p] = pdf[p]
    <3>1. \A t \in Moments : t = job'[d].png => t # job'[c].png
      BY <1>8, <2>3 DEF Alone, Meet, Same
    <3>2. \A p \in Paths : (p = job'[d].doc => p # job'[c].doc) /\ (p = job'[d].pdf => p # job'[c].pdf)
      <4>1. \A p \in Paths : p # Nothing
        BY DEF Paths
      <4> QED BY <1>8, <2>3, <4>1 DEF Alone, Meet, Same
    <3> QED BY <2>1, <3>1, <3>2 DEF Writes
  <2>4. OwnInv(d)'
    <3> SUFFICES ASSUME Alone(d)', job[d].faults = {} PROVE OwnInv(d)'
      BY <2>1 DEF OwnInv
    <3>1. Alone(d)
      BY MeetingsKept, <1>8
    <3>2. job[d].at \in {"doc", "image"} => png'[job[d].png] = png[job[d].png]
      BY <2>1, <2>3 DEF FilesInv
    <3>3. job[d].at \in {"exec", "connect", "convert"} => doc'[job[d].doc] = doc[job[d].doc]
      BY <2>1, <2>3 DEF FilesInv
    <3>4. ~At(d, "idle") /\ job[d].kind \in {"shotPdf", "htmlPdf"} => pdf'[job[d].pdf] = pdf[job[d].pdf]
      BY <2>1, <2>3 DEF ChoiceInv
    <3>5. At(d, "returned") /\ job[d].kind \in {"shotWord", "htmlWord"} => doc'[job[d].doc] = doc[job[d].doc]
      BY <2>1, <2>3 DEF ChoiceInv, At
    <3> QED BY <2>1, <3>1, <3>2, <3>3, <3>4, <3>5 DEF OwnInv, At, ChoiceInv, Jobs, Kinds
  <2> QED BY <2>2, <2>4
<1> QED BY <1>1, <1>2, <1>7, <1>8 DEF OriginInv

LEMMA ScreenshotOrigin ==
  ASSUME IInv, OriginInv, NEW c \in Callers, Screenshot(c)
  PROVE  OriginInv'
<1> USE NothingAssumption DEF At, Goto, Fault, files, office
<1>1. /\ TypeOK /\ FilesInv(c) /\ ChoiceInv(c) /\ OwnInv(c) /\ AfterWord(c) \in {"exec", "returned"}
      /\ ShotPath(c) \in Paths /\ HtmlPath(c) \in Paths
      /\ PathsKept => (Alone(c)' => Alone(c))
  BY PathsChosen, MeetingsKept DEF IInv, CallInv, OriginInv, AfterWord
<1>2. CASE GenerateWord(c)
  <2>1. PathsKept /\ OnlyJob(c)
    BY <1>1, <1>2 DEF GenerateWord, PathsKept, OnlyJob, ChoiceInv, TypeOK
  <2>2. Writes(c)
    BY <1>1, <1>2 DEF GenerateWord, Writes, TypeOK
  <2>3. ChoiceInv(c)'
    BY <1>1, <1>2 DEF GenerateWord, ChoiceInv, TypeOK
  <2>4. OwnInv(c)'
    BY <1>1, <1>2, <2>1 DEF GenerateWord, OwnInv, ChoiceInv, TypeOK
  <2> QED BY <2>1, <2>2, <2>3, <2>4, OriginStep
<1>3. CASE PngCreate(c)
  <2>1. PathsKept /\ OnlyJob(c)
    BY <1>1, <1>3 DEF PngCreate, PathsKept, OnlyJob, ChoiceInv, TypeOK, PictureName
  <2>2. Writes(c)
    BY <1>1, <1>3 DEF PngCreate, Writes, TypeOK, PictureName
  <2>3. ChoiceInv(c)'
    BY <1>1, <1>3 DEF PngCreate, ChoiceInv, TypeOK, PictureName
  <2>4. OwnInv(c)'
    BY <1>1, <1>3, <2>1 DEF PngCreate, OwnInv, ChoiceInv, TypeOK, PictureName
  <2> QED BY <2>1, <2>2, <2>3, <2>4, OriginStep
<1>4. CASE PngWrite(c)
  <2>1. PathsKept /\ OnlyJob(c)
    BY <1>1, <1>4 DEF PngWrite, PathsKept, OnlyJob, ChoiceInv, TypeOK, Picture
  <2>2. Writes(c)
    BY <1>1, <1>4 DEF PngWrite, Writes, TypeOK, Picture
  <2>3. ChoiceInv(c)'
    BY <1>1, <1>4 DEF PngWrite, ChoiceInv, TypeOK, Picture
  <2>4. OwnInv(c)'
    BY <1>1, <1>4, <2>1 DEF PngWrite, OwnInv, ChoiceInv, FilesInv, TypeOK, Picture
  <2> QED BY <2>1, <2>2, <2>3, <2>4, OriginStep
<1>5. CASE DocCreate(c)
  <2>1. PathsKept /\ OnlyJob(c)
    BY <1>1, <1>5 DEF DocCreate, PathsKept, OnlyJob, ChoiceInv, TypeOK
  <2>2. Writes(c)
    BY <1>1, <1>5 DEF DocCreate, Writes, TypeOK
  <2>3. ChoiceInv(c)'
    BY <1>1, <1>5 DEF DocCreate, ChoiceInv, TypeOK
  <2>4. OwnInv(c)'
    BY <1>1, <1>5, <2>1 DEF DocCreate, OwnInv, ChoiceInv, TypeOK
  <2> QED BY <2>1, <2>2, <2>3, <2>4, OriginStep
<1>6. CASE ReadImage(c)
  <2>1. PathsKept /\ OnlyJob(c)
    BY <1>1, <1>6 DEF ReadImage, PathsKept, OnlyJob, ChoiceInv, TypeOK, Picture
  <2>2. Writes(c)
    BY <1>1, <1>6 DEF ReadImage, Writes, TypeOK, Picture
  <2>3. ChoiceInv(c)'
    BY <1>1, <1>6 DEF ReadImage, ChoiceInv, TypeOK, Picture
  <2>4. OwnInv(c)'
    BY <1>1, <1>6, <2>1 DEF ReadImage, OwnInv, ChoiceInv, TypeOK, Picture
  <2> QED BY <2>1, <2>2, <2>3, <2>4, OriginStep
<1>7. CASE DocClose(c)
  <2>1. PathsKept /\ OnlyJob(c)
    BY <1>1, <1>7 DEF DocClose, PathsKept, OnlyJob, ChoiceInv, TypeOK
  <2>2. Writes(c)
    BY <1>1, <1>7 DEF DocClose, Writes, TypeOK
  <2>3. ChoiceInv(c)'
    BY <1>1, <1>7 DEF DocClose, ChoiceInv, TypeOK, AfterWord
  <2>4. OwnInv(c)'
    BY <1>1, <1>7, <2>1 DEF DocClose, OwnInv, ChoiceInv, TypeOK, AfterWord, Kinds
  <2> QED BY <2>1, <2>2, <2>3, <2>4, OriginStep
<1>8. CASE WordFails(c)
  <2>1. PathsKept /\ OnlyJob(c)
    BY <1>1, <1>8 DEF WordFails, PathsKept, OnlyJob, ChoiceInv, TypeOK
  <2>2. Writes(c)
    BY <1>1, <1>8 DEF WordFails, Writes, TypeOK
  <2>3. ChoiceInv(c)'
    BY <1>1, <1>8 DEF WordFails, ChoiceInv, TypeOK, AfterWord
  <2>4. OwnInv(c)'
    BY <1>1, <1>8, <2>1 DEF WordFails, OwnInv, ChoiceInv, TypeOK, AfterWord, Kinds
  <2> QED BY <2>1, <2>2, <2>3, <2>4, OriginStep
<1> QED BY <1>2, <1>3, <1>4, <1>5, <1>6, <1>7, <1>8 DEF Screenshot

LEMMA WordPdfOrigin ==
  ASSUME IInv, OriginInv, NEW c \in Callers, WordPdf(c)
  PROVE  OriginInv'
<1> USE NothingAssumption DEF At, Goto, Fault, files, office
<1>1. /\ TypeOK /\ FilesInv(c) /\ ChoiceInv(c) /\ OwnInv(c) /\ AfterWord(c) \in {"exec", "returned"}
      /\ ShotPath(c) \in Paths /\ HtmlPath(c) \in Paths
      /\ PathsKept => (Alone(c)' => Alone(c))
  BY PathsChosen, MeetingsKept DEF IInv, CallInv, OriginInv, AfterWord
<1>2. CASE HtmlCreate(c)
  <2>1. PathsKept /\ OnlyJob(c)
    BY <1>1, <1>2 DEF HtmlCreate, PathsKept, OnlyJob, ChoiceInv, TypeOK, HtmlPut
  <2>2. Writes(c)
    BY <1>1, <1>2 DEF HtmlCreate, Writes, TypeOK, HtmlPut
  <2>3. ChoiceInv(c)'
    BY <1>1, <1>2 DEF HtmlCreate, ChoiceInv, TypeOK, HtmlPut
  <2>4. OwnInv(c)'
    BY <1>1, <1>2, <2>1 DEF HtmlCreate, OwnInv, ChoiceInv, TypeOK, HtmlPut
  <2> QED BY <2>1, <2>2, <2>3, <2>4, OriginStep
<1>3. CASE HtmlWrite(c)
  <2>1. PathsKept /\ OnlyJob(c)
    BY <1>1, <1>3 DEF HtmlWrite, PathsKept, OnlyJob, ChoiceInv, TypeOK, HtmlPut
  <2>2. Writes(c)
    BY <1>1, <1>3 DEF HtmlWrite, Writes, TypeOK, HtmlPut
  <2>3. ChoiceInv(c)'
    BY <1>1, <1>3 DEF HtmlWrite, ChoiceInv, TypeOK, HtmlPut
  <2>4. OwnInv(c)'
    BY <1>1, <1>3, <2>1 DEF HtmlWrite, OwnInv, ChoiceInv, TypeOK, HtmlPut
  <2> QED BY <2>1, <2>2, <2>3, <2>4, OriginStep
<1>4. CASE HtmlThrows(c)
  <2>1. PathsKept /\ OnlyJob(c)
    BY <1>1, <1>4 DEF HtmlThrows, PathsKept, OnlyJob, ChoiceInv, TypeOK
  <2>2. Writes(c)
    BY <1>1, <1>4 DEF HtmlThrows, Writes, TypeOK
  <2>3. ChoiceInv(c)'
    BY <1>1, <1>4 DEF HtmlThrows, ChoiceInv, TypeOK
  <2>4. OwnInv(c)'
    BY <1>1, <1>4, <2>1 DEF HtmlThrows, OwnInv, ChoiceInv, TypeOK
  <2> QED BY <2>1, <2>2, <2>3, <2>4, OriginStep
<1>5. CASE HtmlFails(c)
  <2>1. PathsKept /\ OnlyJob(c)
    BY <1>1, <1>5 DEF HtmlFails, PathsKept, OnlyJob, ChoiceInv, TypeOK, HtmlPut
  <2>2. Writes(c)
    BY <1>1, <1>5 DEF HtmlFails, Writes, TypeOK, HtmlPut
  <2>3. ChoiceInv(c)'
    BY <1>1, <1>5 DEF HtmlFails, ChoiceInv, TypeOK, HtmlPut
  <2>4. OwnInv(c)'
    BY <1>1, <1>5, <2>1 DEF HtmlFails, OwnInv, ChoiceInv, TypeOK, HtmlPut
  <2> QED BY <2>1, <2>2, <2>3, <2>4, OriginStep
<1> QED BY <1>2, <1>3, <1>4, <1>5 DEF WordPdf

LEMMA ConverterOrigin ==
  ASSUME IInv, OriginInv, NEW c \in Callers, Converter(c)
  PROVE  OriginInv'
<1> USE NothingAssumption DEF At, Goto, Fault, files, office
<1>1. /\ TypeOK /\ FilesInv(c) /\ ChoiceInv(c) /\ OwnInv(c) /\ AfterWord(c) \in {"exec", "returned"}
      /\ ShotPath(c) \in Paths /\ HtmlPath(c) \in Paths
      /\ PathsKept => (Alone(c)' => Alone(c))
  BY PathsChosen, MeetingsKept DEF IInv, CallInv, OriginInv, AfterWord
<1>2. CASE Exec(c)
  <2>1. PathsKept /\ OnlyJob(c)
    BY <1>1, <1>2 DEF Exec, PathsKept, OnlyJob, ChoiceInv, TypeOK
  <2>2. Writes(c)
    BY <1>1, <1>2 DEF Exec, Writes, TypeOK
  <2>3. ChoiceInv(c)'
    BY <1>1, <1>2 DEF Exec, ChoiceInv, TypeOK
  <2>4. OwnInv(c)'
    BY <1>1, <1>2, <2>1 DEF Exec, OwnInv, ChoiceInv, TypeOK
  <2> QED BY <2>1, <2>2, <2>3, <2>4, OriginStep
<1>3. CASE ExecFails(c)
  <2>1. PathsKept /\ OnlyJob(c)
    BY <1>1, <1>3 DEF ExecFails, PathsKept, OnlyJob, ChoiceInv, TypeOK
  <2>2. Writes(c)
    BY <1>1, <1>3 DEF ExecFails, Writes, TypeOK
  <2>3. ChoiceInv(c)'
    BY <1>1, <1>3 DEF ExecFails, ChoiceInv, TypeOK
  <2>4. OwnInv(c)'
    BY <1>1, <1>3, <2>1 DEF ExecFails, OwnInv, ChoiceInv, TypeOK
  <2> QED BY <2>1, <2>2, <2>3, <2>4, OriginStep
<1>4. CASE Listen(c)
  <2>1. PathsKept /\ OnlyJob(c)
    BY <1>1, <1>4 DEF Listen, PathsKept, OnlyJob, ChoiceInv, TypeOK
  <2>2. Writes(c)
    BY <1>1, <1>4 DEF Listen, Writes, TypeOK
  <2>3. ChoiceInv(c)'
    BY <1>1, <1>4 DEF Listen, ChoiceInv, TypeOK
  <2>4. OwnInv(c)'
    BY <1>1, <1>4, <2>1 DEF Listen, OwnInv, ChoiceInv, TypeOK
  <2> QED BY <2>1, <2>2, <2>3, <2>4, OriginStep
<1>5. CASE Connect(c)
  <2>1. PathsKept /\ OnlyJob(c)
    BY <1>1, <1>5 DEF Connect, PathsKept, OnlyJob, ChoiceInv, TypeOK
  <2>2. Writes(c)
    BY <1>1, <1>5 DEF Connect, Writes, TypeOK
  <2>3. ChoiceInv(c)'
    BY <1>1, <1>5 DEF Connect, ChoiceInv, TypeOK
  <2>4. OwnInv(c)'
    <3>1. CASE port = Nothing
      <4>1. job'[c].faults = job[c].faults \cup {"connect"}
        BY <1>1, <1>5, <3>1 DEF Connect, TypeOK
      <4>2. job'[c].faults # {}
        BY <4>1
      <4> QED BY <4>2 DEF OwnInv
    <3>2. CASE port # Nothing
      <4>1. job'[c].at = "convert" /\ job'[c].doc = job[c].doc /\ job'[c].faults = job[c].faults
        BY <1>1, <1>5, <3>2 DEF Connect, TypeOK
      <4> QED BY <1>1, <1>5, <2>1, <4>1 DEF Connect, OwnInv
    <3> QED BY <3>1, <3>2
  <2> QED BY <2>1, <2>2, <2>3, <2>4, OriginStep
<1>6. CASE Convert(c)
  <2>1. PathsKept /\ OnlyJob(c)
    BY <1>1, <1>6 DEF Convert, PathsKept, OnlyJob, ChoiceInv, TypeOK
  <2>2. Writes(c)
    BY <1>1, <1>6 DEF Convert, Writes, TypeOK, FilesInv
  <2>3. ChoiceInv(c)'
    BY <1>1, <1>6 DEF Convert, ChoiceInv, TypeOK
  <2>4. OwnInv(c)'
    BY <1>1, <1>6, <2>1 DEF Convert, OwnInv, ChoiceInv, TypeOK
  <2> QED BY <2>1, <2>2, <2>3, <2>4, OriginStep
<1>7. CASE ConvertLost(c)
  <2>1. PathsKept /\ OnlyJob(c)
    BY <1>1, <1>7 DEF ConvertLost, PathsKept, OnlyJob, ChoiceInv, TypeOK
  <2>2. Writes(c)
    BY <1>1, <1>7 DEF ConvertLost, Writes, TypeOK
  <2>3. ChoiceInv(c)'
    BY <1>1, <1>7 DEF ConvertLost, ChoiceInv, TypeOK
  <2>4. OwnInv(c)'
    BY <1>1, <1>7, <2>1 DEF ConvertLost, OwnInv, ChoiceInv, TypeOK
  <2> QED BY <2>1, <2>2, <2>3, <2>4, OriginStep
<1>8. CASE ConvertFails(c)
  <2>1. PathsKept /\ OnlyJob(c)
    BY <1>1, <1>8 DEF ConvertFails, PathsKept, OnlyJob, ChoiceInv, TypeOK
  <2>2. Writes(c)
    BY <1>1, <1>8 DEF ConvertFails, Writes, TypeOK
  <2>3. ChoiceInv(c)'
    BY <1>1, <1>8 DEF ConvertFails, ChoiceInv, TypeOK
  <2>4. OwnInv(c)'
    BY <1>1, <1>8, <2>1 DEF ConvertFails, OwnInv, ChoiceInv, TypeOK
  <2> QED BY <2>1, <2>2, <2>3, <2>4, OriginStep
<1>9. CASE Crash(c)
  <2>1. PathsKept /\ OnlyJob(c)
    BY <1>1, <1>9 DEF Crash, PathsKept, OnlyJob, ChoiceInv, TypeOK
  <2>2. Writes(c)
    BY <1>1, <1>9 DEF Crash, Writes, TypeOK
  <2>3. ChoiceInv(c)'
    BY <1>1, <1>9 DEF Crash, ChoiceInv, TypeOK
  <2>4. OwnInv(c)'
    BY <1>1, <1>9, <2>1 DEF Crash, OwnInv, ChoiceInv, TypeOK
  <2> QED BY <2>1, <2>2, <2>3, <2>4, OriginStep
<1>10. CASE Destroy(c)
  <2>1. PathsKept /\ OnlyJob(c)
    BY <1>1, <1>10 DEF Destroy, PathsKept, OnlyJob, ChoiceInv, TypeOK
  <2>2. Writes(c)
    BY <1>1, <1>10 DEF Destroy, Writes, TypeOK
  <2>3. ChoiceInv(c)'
    BY <1>1, <1>10 DEF Destroy, ChoiceInv, TypeOK
  <2>4. OwnInv(c)'
    BY <1>1, <1>10, <2>1 DEF Destroy, OwnInv, ChoiceInv, TypeOK
  <2> QED BY <2>1, <2>2, <2>3, <2>4, OriginStep
<1> QED BY <1>2, <1>3, <1>4, <1>5, <1>6, <1>7, <1>8, <1>9, <1>10 DEF Converter

LEMMA BeginOrigin ==
  ASSUME IInv, OriginInv, NEW c \in Callers, Begin(c)
  PROVE  OriginInv'
<1> USE NothingAssumption DEF At, files, office
<1>1. /\ TypeOK /\ FilesInv(c) /\ ChoiceInv(c) /\ OwnInv(c)
      /\ ShotPath(c) \in Paths /\ HtmlPath(c) \in Paths
  BY PathsChosen DEF IInv, CallInv, OriginInv
<1>2. PathsKept /\ OnlyJob(c)
  BY <1>1 DEF Begin, PathsKept, OnlyJob, ChoiceInv, TypeOK
<1>3. Writes(c)
  BY <1>1 DEF Begin, Writes, TypeOK
<1>4. ChoiceInv(c)'
  BY <1>1 DEF Begin, ChoiceInv, TypeOK, Kinds
<1>5. OwnInv(c)'
  BY <1>1 DEF Begin, OwnInv, TypeOK
<1> QED BY <1>2, <1>3, <1>4, <1>5, OriginStep

LEMMA NextOrigin == IInv /\ OriginInv /\ [Next]_vars => OriginInv'
<1> SUFFICES ASSUME IInv, OriginInv, [Next]_vars PROVE OriginInv'
  OBVIOUS
<1>1. ASSUME UNCHANGED <<files, job>> PROVE OriginInv'
  BY <1>1 DEF OriginInv, PicturesInv, ContentExplained, MayHold, ChoiceInv, OwnInv, Alone, Meet,
              ImageInv, At, files
<1>2. CASE Tick \/ UNCHANGED vars
  BY <1>1, <1>2 DEF Tick, vars, files
<1>3. ASSUME NEW c \in Callers, Begin(c) \/ Screenshot(c) \/ Converter(c) \/ WordPdf(c) PROVE OriginInv'
  BY <1>3, BeginOrigin, ScreenshotOrigin, ConverterOrigin, WordPdfOrigin
<1> QED BY <1>2, <1>3 DEF Next

LEMMA OriginInvariance == Spec => []OriginInv
BY InitOriginInv, NextOrigin, Invariance, PTL DEF Spec

\* What is found under the path of a call comes from that call or from one it has met,
\* directly or on the way to the PDF.
THEOREM ContentsExplained == Spec => []ContentExplained
<1>1. OriginInv => ContentExplained
  BY DEF OriginInv
<1> QED BY <1>1, OriginInvariance, PTL

\* A call that meets no other one in a file, and of which nothing has failed, returns the
\* path of what it was asked for.
THEOREM OwnDocuments == Spec => []OwnDocument
<1>1. OriginInv => OwnDocument
  BY DEF OriginInv, OwnInv, Alone, OwnDocument
<1> QED BY <1>1, OriginInvariance, PTL
=============================================================================
