------------------------------ MODULE Messaging ------------------------------
(***************************************************************************)
(* Producter and Comsumer over an ActiveMQ broker.  The threads of one     *)
(* Producter share its transacted session and each keep the first          *)
(* MessageProducer they created; every receiver is a Comsumer read by one  *)
(* thread over a session that acknowledges as it receives.  The broker and *)
(* the transaction of a session are external: a queue is a sequence whose  *)
(* texts are dispatched to the open consumers ahead of their receive calls *)
(* (the prefetch) and come back when the consumer is closed, a topic       *)
(* copies a message to the subscribers of the moment, a commit publishes   *)
(* all that was sent on the session since the last one.                    *)
(***************************************************************************)
EXTENDS Naturals, Sequences, SequencesExt

CONSTANTS
  Senders,    \* threads that call one Producter
  Receivers,  \* Comsumer objects, each with its thread
  Names,      \* the argument disname
  Null,
  MaxSend,    \* bound: texts per sender
  Prefetch,   \* how many texts of a queue the broker dispatches ahead to a consumer
  Faults      \* what may go wrong: a JMSException of "send", "commit" or "read" (getText),
              \* the "close" of a session

ASSUME FaultsAssumption == Faults \subseteq {"send", "commit", "read", "close"}
ASSUME MaxSendAssumption == MaxSend \in Nat
ASSUME PrefetchAssumption == Prefetch \in Nat \ {0}

Dests == {"queue", "topic"} \X Names
ASSUME NullAssumption == Null \notin Dests

\* The text a call sends: the id-th of its sender, meant for one destination.
Texts == [from : Senders, id : 1..MaxSend, asked : Dests]
NoText == [from |-> Null, id |-> 0, asked |-> Null]

NothingSent == [dest \in Dests |-> <<>>]

VARIABLES
  session,    \* of the Producter
  cached,     \* threadLocal of the Producter: the destination of each thread's producer
  send,       \* the call of each sender: next step, text, how the last one ended
  sent,       \* calls begun by each sender
  tx,         \* sent and not committed: the texts for each destination, in the order they were sent
  queues,     \* the broker's queues: what is not dispatched
  reader,     \* threadLocal of each Comsumer: the destination its consumer reads
  recv,       \* each receiver: next step, the destination of its call, the text it holds
  inbox,      \* texts dispatched to each receiver's consumer and not yet received
  published,  \* history: the texts the broker has committed
  returned,   \* history: the texts a closed consumer has given back to their queue
  received    \* history: the texts each receiver has been given

vars == <<session, cached, send, sent, tx, queues, reader, recv, inbox, published, returned, received>>
producer == <<session, cached, send, sent, tx, published>>
broker == <<queues, inbox, published, returned>>

TypeOK ==
  /\ session \in {"none", "open", "closed"}
  /\ cached \in [Senders -> Dests \cup {Null}]
  /\ send \in [Senders -> [at : {"idle", "send", "commit"}, text : Texts \cup {NoText},
                           end : {"none", "ok", "failed"}]]
  /\ sent \in [Senders -> 0..MaxSend]
  /\ tx \in [Dests -> Seq(Texts)]
  /\ queues \in [Names -> Seq(Texts)]
  /\ reader \in [Receivers -> Dests \cup {Null}]
  /\ recv \in [Receivers -> [at : {"new", "open", "receive", "handle", "closed"},
                             asked : Dests \cup {Null}, got : Texts \cup {NoText}]]
  /\ published \subseteq Texts /\ returned \subseteq Texts
  /\ inbox \in [Receivers -> Seq(Texts)] /\ received \in [Receivers -> Seq(Texts)]

Init ==
  /\ session = "none"
  /\ cached = [s \in Senders |-> Null]
  /\ send = [s \in Senders |-> [at |-> "idle", text |-> NoText, end |-> "none"]]
  /\ sent = [s \in Senders |-> 0]
  /\ tx = NothingSent
  /\ queues = [n \in Names |-> <<>>]
  /\ reader = [r \in Receivers |-> Null]
  /\ recv = [r \in Receivers |-> [at |-> "new", asked |-> Null, got |-> NoText]]
  /\ published = {} /\ returned = {}
  /\ inbox = [r \in Receivers |-> <<>>] /\ received = [r \in Receivers |-> <<>>]

-----------------------------------------------------------------------------
(* The Producter. *)

\* init connects and opens the session; when it fails the field stays null.
ProducterInit ==
  /\ session = "none" /\ session' = "open"
  /\ UNCHANGED <<cached, send, sent, tx, broker, reader, recv, received>>

\* The owner closes the session: what was not committed is rolled back.
ProducterClose ==
  /\ "close" \in Faults /\ session = "open" /\ session' = "closed"
  /\ tx' = NothingSent
  /\ UNCHANGED <<cached, send, sent, broker, reader, recv, received>>

Finish(s, end) == send' = [send EXCEPT ![s].at = "idle", ![s].end = end]

\* Mutant of ProducerFor: the name cached without its kind.
ProducerForName(s, dest) == dest[2]

\* The producer a thread sends with: the one it created first, whatever destination it is for.
ProducerFor(s, dest) == IF cached[s] = Null THEN dest ELSE cached[s]

\* sendMessage ("queue") or sendTopicMessage ("topic") up to the cached producer.  On a closed
\* session the call only prints the exception, as it does whatever fails; with none it throws.
SendMessage(s, dest) ==
  /\ send[s].at = "idle" /\ sent[s] < MaxSend
  /\ sent' = [sent EXCEPT ![s] = @ + 1]
  /\ LET text == [from |-> s, id |-> sent'[s], asked |-> dest]
     IN  IF session = "open"
         THEN /\ send' = [send EXCEPT ![s] = [at |-> "send", text |-> text, end |-> "none"]]
              /\ cached' = [cached EXCEPT ![s] = ProducerFor(s, dest)]
         ELSE /\ send' = [send EXCEPT ![s] = [at |-> "idle", text |-> text, end |-> "failed"]]
              /\ UNCHANGED cached
  /\ UNCHANGED <<session, tx, broker, reader, recv, received>>

\* messageProducer.send on the shared session.
Send(s) ==
  /\ send[s].at = "send" /\ session = "open"
  /\ tx' = [tx EXCEPT ![cached[s]] = Append(@, send[s].text)]
  /\ send' = [send EXCEPT ![s].at = "commit"]
  /\ UNCHANGED <<session, cached, sent, broker, reader, recv, received>>

\* Mutant of SendFails: the commit is tried all the same.
SendFailsGoesOn(s) ==
  /\ send[s].at = "send" /\ (session = "closed" \/ "send" \in Faults)
  /\ send' = [send EXCEPT ![s].at = "commit"]
  /\ UNCHANGED <<session, cached, sent, tx, broker, reader, recv, received>>

\* send throws: the call is over without a commit.
SendFails(s) ==
  /\ send[s].at = "send" /\ (session = "closed" \/ "send" \in Faults)
  /\ Finish(s, "failed")
  /\ UNCHANGED <<session, cached, sent, tx, broker, reader, recv, received>>

\* A topic's texts go to every consumer created for it whose session is open, a queue's
\* to any one of them.
Subscribed(r, dest) == reader[r] = dest /\ recv[r].at # "closed"

Enqueued(texts, more) == texts \o more

\* The broker commits all that was sent on the session, by whichever thread.
Publish ==
  /\ queues' = [n \in Names |-> Enqueued(queues[n], tx[<<"queue", n>>])]
  /\ inbox' = [r \in Receivers |->
                 IF \E n \in Names : Subscribed(r, <<"topic", n>>)
                 THEN Enqueued(inbox[r], tx[reader[r]]) ELSE inbox[r]]
  /\ published' = published \cup UNION {Range(tx[dest]) : dest \in Dests}
  /\ UNCHANGED returned

\* Mutant of Rest: only the first text for a destination is committed.
RestAfterFirst == [dest \in Dests |-> IF tx[dest] = <<>> THEN <<>> ELSE Tail(tx[dest])]

\* What a commit leaves uncommitted.
Rest == NothingSent

Commit(s) ==
  /\ send[s].at = "commit" /\ session = "open"
  /\ Publish
  /\ tx' = Rest
  /\ Finish(s, "ok")
  /\ UNCHANGED <<session, cached, sent, reader, recv, received>>

\* commit throws: the broker has rolled the transaction back, or has committed it and the
\* answer was lost.
CommitFails(s) ==
  /\ send[s].at = "commit" /\ (session = "closed" \/ "commit" \in Faults)
  /\ Publish \/ UNCHANGED broker
  /\ tx' = NothingSent
  /\ Finish(s, "failed")
  /\ UNCHANGED <<session, cached, sent, reader, recv, received>>

-----------------------------------------------------------------------------
(* The Comsumers. *)

ComsumerInit(r) ==
  /\ recv[r].at = "new"
  /\ recv' = [recv EXCEPT ![r].at = "open"]
  /\ UNCHANGED <<producer, queues, reader, inbox, returned, received>>

\* The consumer a receiver reads: the one its thread created first.
ReaderFor(r, dest) == IF reader[r] = Null THEN dest ELSE reader[r]

\* getMessage ("queue") or getTopicMessage ("topic") up to its loop.
GetMessage(r, dest) ==
  /\ recv[r].at = "open"
  /\ reader' = [reader EXCEPT ![r] = ReaderFor(r, dest)]
  /\ recv' = [recv EXCEPT ![r].at = "receive", ![r].asked = dest]
  /\ UNCHANGED <<producer, queues, inbox, returned, received>>

\* The broker dispatches the next text of a queue to one of the queue's open consumers,
\* whether its receiver is in its loop or not.
Dispatch(r) ==
  \E n \in Names :
    /\ Subscribed(r, <<"queue", n>>) /\ queues[n] # <<>> /\ Len(inbox[r]) < Prefetch
    /\ inbox' = [inbox EXCEPT ![r] = Append(@, Head(queues[n]))]
    /\ queues' = [queues EXCEPT ![n] = Tail(@)]
    /\ UNCHANGED <<producer, reader, recv, returned, received>>

Take(r, text) ==
  /\ recv' = [recv EXCEPT ![r].at = "handle", ![r].got = text]
  /\ received' = [received EXCEPT ![r] = Append(@, text)]

\* Mutant of Ready: a consumer that waits for two texts.
ReadyInPairs(texts) == Len(texts) > 1

Ready(texts) == texts # <<>>

\* receive blocks while nothing has been dispatched; the broker forgets what it returns.
Receive(r) ==
  /\ recv[r].at = "receive" /\ Ready(inbox[r])
  /\ Take(r, Head(inbox[r]))
  /\ inbox' = [inbox EXCEPT ![r] = Tail(@)]
  /\ UNCHANGED <<producer, queues, reader, returned>>

\* acknowledge, which has nothing left to do, and the printing and counting of the text.
Handle(r) ==
  /\ recv[r].at = "handle"
  /\ recv' = [recv EXCEPT ![r].at = "receive", ![r].got = NoText]
  /\ UNCHANGED <<producer, queues, reader, inbox, returned, received>>

\* Mutants of HandleFails: a transacted session that is rolled back, so that the text is
\* delivered again, at once or after a delay.
HandleFailsUndone(r) ==
  /\ recv[r].at = "handle" /\ "read" \in Faults
  /\ recv' = [recv EXCEPT ![r].at = "open", ![r].got = NoText]
  /\ inbox' = [inbox EXCEPT ![r] = <<recv[r].got>> \o @]
  /\ UNCHANGED <<producer, queues, reader, returned, received>>

HandleFailsDelayed(r) ==
  /\ recv[r].at = "handle" /\ "read" \in Faults
  /\ recv' = [recv EXCEPT ![r].at = "open", ![r].got = NoText]
  /\ inbox' = [inbox EXCEPT ![r] = Append(@, recv[r].got)]
  /\ received' = [received EXCEPT ![r] = Front(@)]
  /\ UNCHANGED <<producer, queues, reader, returned>>

\* getText throws: the call returns, the session and its consumer stay open, with the texts
\* dispatched to it.
HandleFails(r) ==
  /\ recv[r].at = "handle" /\ "read" \in Faults
  /\ recv' = [recv EXCEPT ![r].at = "open", ![r].got = NoText]
  /\ UNCHANGED <<producer, queues, reader, inbox, returned, received>>

\* The session is closed: receive answers null, acknowledge throws, and either ends the
\* loop.  The queue gets back what was dispatched and not received, ahead of the rest; a
\* topic's copies are gone.
ComsumerClose(r) ==
  /\ "close" \in Faults /\ recv[r].at \notin {"new", "closed"}
  /\ recv' = [recv EXCEPT ![r].at = "closed", ![r].got = NoText]
  /\ inbox' = [inbox EXCEPT ![r] = <<>>]
  /\ IF reader[r] # Null /\ reader[r][1] = "queue"
     THEN /\ queues' = [queues EXCEPT ![reader[r][2]] = inbox[r] \o @]
          /\ returned' = returned \cup Range(inbox[r])
     ELSE UNCHANGED <<queues, returned>>
  /\ UNCHANGED <<producer, reader, received>>

-----------------------------------------------------------------------------
Sender(s) ==
  \/ \E dest \in Dests : SendMessage(s, dest)
  \/ Send(s) \/ SendFails(s) \/ Commit(s) \/ CommitFails(s)

Receiver(r) ==
  \/ ComsumerInit(r) \/ (\E dest \in Dests : GetMessage(r, dest))
  \/ Dispatch(r) \/ Receive(r) \/ Handle(r) \/ HandleFails(r) \/ ComsumerClose(r)

Next ==
  \/ ProducterInit \/ ProducterClose
  \/ (\E s \in Senders : Sender(s))
  \/ (\E r \in Receivers : Receiver(r))

\* A call that has begun goes on, a receiver in its loop takes what there is for it, and the
\* broker dispatches what an open consumer has room for.
Fairness ==
  /\ \A s \in Senders : WF_vars(Send(s) \/ SendFails(s)) /\ WF_vars(Commit(s) \/ CommitFails(s))
  /\ \A r \in Receivers : WF_vars(Dispatch(r)) /\ WF_vars(Receive(r)) /\ WF_vars(Handle(r) \/ HandleFails(r))

Spec == Init /\ [][Next]_vars

FairSpec == Spec /\ Fairness

-----------------------------------------------------------------------------
\* What a receiver has been given and what waits for it, oldest first.
Stream(r) == received[r] \o inbox[r]

\* A call that has returned leaves nothing of its own in the transaction for another
\* thread's commit to publish, or for a crash to lose, however its steps failed.
NothingLeftBehind ==
  \A s \in Senders : send[s].at = "idle" => \A dest \in Dests : \A text \in Range(tx[dest]) : text.from # s

\* A call whose commit returned has had its text published.  (It holds of one thread
\* whatever fails, and of several as long as no commit fails: the commit that fails in
\* one thread rolls back what another has sent, and the other's commit then succeeds.)
OkMeansPublished ==
  \A s \in Senders : send[s].end = "ok" => send[s].text \in published

\* No text is given twice to a receiver, and none that left a queue to two receivers.
AtMostOnce ==
  /\ \A r \in Receivers : IsInjective(Stream(r))
  /\ \A r, q \in Receivers :
       r # q /\ Range(Stream(r)) \cap Range(Stream(q)) # {} => reader[r][1] = "topic"
  /\ \A r \in Receivers, n \in Names : Range(Stream(r)) \cap Range(queues[n]) = {}

\* The queue a receiver reads.
Ahead(r) == IF reader[r] # Null /\ reader[r][1] = "queue" THEN queues[reader[r][2]] ELSE <<>>

\* A receiver sees the texts of one sender in the order they were sent, those still in its
\* queue included, but for a text that was dispatched to a consumer that closed before it
\* received it: that one may come behind texts sent after it.
InOrder ==
  \A r \in Receivers :
    LET seen == Stream(r) \o Ahead(r)
    IN  \A i, j \in DOMAIN seen :
          i < j /\ seen[i].from = seen[j].from => seen[i].id < seen[j].id \/ seen[j] \in returned

\* Two open subscribers of a topic see the same texts in the same order, but for those
\* published before the later one subscribed: a text whose handling failed, or that came
\* while its receiver was out of its loop, leaves no gap.
TopicStreamsAgree ==
  \A r, q \in Receivers :
    reader[r] = reader[q] /\ reader[r] # Null /\ reader[r][1] = "topic"
    /\ recv[r].at # "closed" /\ recv[q].at # "closed" =>
      IsSuffix(Stream(r), Stream(q)) \/ IsSuffix(Stream(q), Stream(r))

\* The texts of a queue that no receiver has been given, dispatched or not.
Waiting(n) ==
  Range(queues[n]) \cup UNION {Range(inbox[r]) : r \in {q \in Receivers : Subscribed(q, <<"queue", n>>)}}

\* The loop of a receiver of a queue has ended with an exception, and nobody has called it again.
Stopped(r, n) == Subscribed(r, <<"queue", n>>) /\ recv[r].at = "open"

\* No text waits for ever in a queue that keeps an open consumer, however loops end and
\* consumers close, as long as a receiver whose loop has ended is called again: while it is
\* not, its consumer keeps what was dispatched to it from the others.
QueueDrained ==
  \A n \in Names, text \in Texts :
    (/\ <>[](\E r \in Receivers : Subscribed(r, <<"queue", n>>))
     /\ \A r \in Receivers : []<>(~Stopped(r, n))) =>
      (text \in Waiting(n) ~> text \in UNION {Range(received[r]) : r \in Receivers})

\* What sendMessage and sendTopicMessage are given: a text goes to the destination it was
\* sent for.
SentWhereAsked == \A dest \in Dests : \A text \in Range(tx[dest]) : text.asked = dest

\* What the comment on getTopicMessage says: it receives broadcast texts.
TopicCallsReadTopics ==
  \A r \in Receivers :
    recv[r].at = "handle" /\ recv[r].asked[1] = "topic" => reader[r][1] = "topic"
=============================================================================
