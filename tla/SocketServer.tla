----------------------------- MODULE SocketServer -----------------------------
(***************************************************************************)
(* SocketServer.createServer: the accepting loop hands each connection to  *)
(* a fixed pool of workers; a worker reads to the end of the stream,       *)
(* answers, and closes.  Clients are createClient's, which leave without   *)
(* reading the answer, and others that wait for it.  Of the bytes of a     *)
(* text only how many have been sent and read is kept.                     *)
(***************************************************************************)
EXTENDS Naturals, Sequences, FiniteSets, FiniteSetsExt

CONSTANTS
  Clients,
  MaxPool,    \* threads of the pool
  Available,  \* the argument of that name: the size of a buffer, or NoSize for null
  NoSize,
  Size        \* the bytes of the text a client sends

ASSUME PoolAssumption == MaxPool \in Nat \ {0}
ASSUME AvailableAssumption == NoSize \notin Nat /\ Available \in (Nat \ {0}) \cup {NoSize}
ASSUME TextAssumption == Size \in Nat \ {0}

VARIABLES
  client,   \* "away", sending in "connected", output shut in "waiting", or left
  arrived,  \* bytes that have reached the server's socket
  worker,   \* the work on a connection: its place in the pool or its next step
  backlog,  \* connections submitted to the pool and not begun
  size,     \* the buffer of a connection
  read,     \* bytes read
  open      \* sockets the server has accepted and not closed

serverVars == <<client, arrived, worker, backlog, size, read, open>>
conns == <<client, arrived>>
work == <<worker, backlog, size, read, open>>

\* Mutant of Busy: work that fails keeps its thread.
BusyFailed == {"buffer", "reading", "replying", "closing", "failed"}

\* Work that occupies a thread of the pool.
Busy == {"buffer", "reading", "replying", "closing"}

ServerTypeOK ==
  /\ client \in [Clients -> {"away", "connected", "waiting", "left", "reset"}]
  /\ arrived \in [Clients -> 0..Size] /\ read \in [Clients -> 0..Size]
  /\ worker \in [Clients -> {"none", "submitted", "done", "failed"} \cup Busy]
  /\ backlog \in Seq(Clients)
  /\ size \in [Clients -> 0..(IF Available = NoSize THEN Size ELSE Available)]
  /\ open \subseteq Clients

ServerInit ==
  /\ client = [c \in Clients |-> "away"]
  /\ arrived = [c \in Clients |-> 0] /\ read = [c \in Clients |-> 0]
  /\ worker = [c \in Clients |-> "none"]
  /\ backlog = <<>>
  /\ size = [c \in Clients |-> 0]
  /\ open = {}

-----------------------------------------------------------------------------
(* Clients and the network. *)

Turn(c, from, to) == client[c] \in from /\ client' = [client EXCEPT ![c] = to]

Connect(c) == Turn(c, {"away"}, "connected") /\ UNCHANGED <<arrived, work>>

\* Some more of the text reaches the server.
Arrive(c) ==
  /\ client[c] = "connected"
  /\ \E n \in arrived[c] + 1..Size : arrived' = [arrived EXCEPT ![c] = n]
  /\ UNCHANGED <<client, work>>

\* The client has sent its text: it shuts its output and waits, or closes at once.
ShutOutput(c) ==
  /\ arrived[c] = Size
  /\ \E way \in {"waiting", "left"} : Turn(c, {"connected"}, way)
  /\ UNCHANGED <<arrived, work>>

\* The connection breaks.
Reset(c) == Turn(c, {"connected", "waiting"}, "reset") /\ UNCHANGED <<arrived, work>>

-----------------------------------------------------------------------------
(* The server. *)

Go(c, from, to) == worker[c] = from /\ worker' = [worker EXCEPT ![c] = to]

\* The loop accepts a connection and submits its work, however many are waiting.
Accept(c) ==
  /\ client[c] # "away"
  /\ Go(c, "none", "submitted")
  /\ backlog' = Append(backlog, c)
  /\ open' = open \cup {c}
  /\ UNCHANGED <<conns, size, read>>

\* A thread of the pool is free for the oldest work.
Begin(c) ==
  /\ backlog # <<>> /\ Head(backlog) = c
  /\ Cardinality({x \in Clients : worker[x] \in Busy}) < MaxPool
  /\ Go(c, "submitted", "buffer")
  /\ backlog' = Tail(backlog)
  /\ UNCHANGED <<conns, size, read, open>>

\* new byte[available], or as many bytes as happen to have arrived.
Buffer(c) ==
  /\ Go(c, "buffer", "reading")
  /\ size' = [size EXCEPT ![c] = IF Available = NoSize THEN arrived[c] ELSE Available]
  /\ UNCHANGED <<conns, backlog, read, open>>

\* Mutant of ReadTo: the buffer taken for full.
ReadToFull(c) == read[c] + size[c]

ReadTo(c) == Min({arrived[c], read[c] + size[c]})

\* A read returns what has arrived, up to the buffer.  (With an empty buffer it returns 0
\* for ever: the loop turns without a step of the model.)
Read(c) ==
  /\ worker[c] = "reading" /\ client[c] # "reset"
  /\ size[c] > 0 /\ read[c] < arrived[c]
  /\ read' = [read EXCEPT ![c] = ReadTo(c)]
  /\ UNCHANGED <<conns, worker, backlog, size, open>>

\* Mutant of AtEnd: a read shorter than the buffer taken for the last.
AtShortRead(c) == read[c] = arrived[c] /\ read[c] > 0

\* The read that returns -1: all has been read, and the client has shut its output.
AtEnd(c) == read[c] = arrived[c] /\ client[c] \in {"waiting", "left"}

ReadEnd(c) ==
  /\ AtEnd(c) /\ size[c] > 0
  /\ Go(c, "reading", "replying")
  /\ UNCHANGED <<conns, backlog, size, read, open>>

Reply(c) ==
  /\ client[c] # "reset"
  /\ Go(c, "replying", "closing")
  /\ UNCHANGED <<conns, backlog, size, read, open>>

\* Mutant of Closed: the socket stays open.
ClosedNothing(c) == open

Closed(c) == open \ {c}

\* inputStream.close and socket.close.
Close(c) ==
  /\ Go(c, "closing", "done")
  /\ open' = Closed(c)
  /\ UNCHANGED <<conns, backlog, size, read>>

\* A broken connection fails the reads and the write; a write may also find a client gone.
Failing(c) ==
  \/ client[c] = "reset" /\ (worker[c] = "reading" => size[c] > 0)
  \/ client[c] = "left" /\ worker[c] = "replying"

\* An exception is printed and ends the work: the socket is not closed.
Fail(c) ==
  /\ worker[c] \in {"buffer", "reading", "replying"} /\ Failing(c)
  /\ worker' = [worker EXCEPT ![c] = "failed"]
  /\ UNCHANGED <<conns, backlog, size, read, open>>

-----------------------------------------------------------------------------
Client(c) == Connect(c) \/ Arrive(c) \/ ShutOutput(c) \/ Reset(c)

Server(c) == \/ Accept(c) \/ Begin(c) \/ Buffer(c) \/ Read(c) \/ ReadEnd(c)
             \/ Reply(c) \/ Close(c) \/ Fail(c)

ServerNext == \E c \in Clients : Client(c) \/ Server(c)

\* The server's threads run; a client that has connected sends its text and finishes
\* or breaks, since the server sets no timeout for one that does not.
ServerFairness ==
  \A c \in Clients : WF_serverVars(Server(c)) /\ WF_serverVars(Arrive(c)) /\ WF_serverVars(ShutOutput(c))

ServerSpec == ServerInit /\ [][ServerNext]_serverVars

FairServer == ServerSpec /\ ServerFairness
-----------------------------------------------------------------------------
\* The answer follows the whole text: no client that has finished is answered, and no
\* socket closed, while bytes it sent are unread.
ReplyAfterWholeText ==
  \A c \in Clients : worker[c] \in {"replying", "closing", "done"} => read[c] = Size

\* A socket stays open after its work only if the client left or broke the connection,
\* which is when an exception skips the closing.
LeakOnlyWhenLeft ==
  \A c \in open : worker[c] \in {"done", "failed"} => client[c] \in {"left", "reset"}

\* Every connection is dealt with in the end, however many there are for the pool.
EveryClientServed ==
  \A c \in Clients : client[c] = "connected" ~> worker[c] \in {"done", "failed"}
=============================================================================
