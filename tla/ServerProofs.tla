---------------------------- MODULE ServerProofs ----------------------------
(***************************************************************************)
(* What the parts of the package server may rely on: the threads of one    *)
(* Producter that share its transacted session, and the receivers, for any *)
(* threads, receivers, names and faults; and, at the end, the clients and  *)
(* the workers of the socket server.                                       *)
(***************************************************************************)
EXTENDS Messaging, SocketServer, SequenceTheorems, TLAPS

\* The types of what the senders touch.
SenderTypes ==
  /\ session \in {"none", "open", "closed"}
  /\ cached \in [Senders -> Dests \cup {Null}]
  /\ send \in [Senders -> [at : {"idle", "send", "commit"}, text : Texts \cup {NoText},
                           end : {"none", "ok", "failed"}]]
  /\ sent \in [Senders -> 0..MaxSend]
  /\ tx \in [Dests -> Seq(Texts)]

\* A call past its beginning has a session, a text of its own thread, the last one that thread
\* has begun to send, and a destination.
OwnText ==
  \A s \in Senders : send[s].at # "idle" =>
    /\ session # "none" /\ cached[s] \in Dests
    /\ send[s].text \in Texts /\ send[s].text.from = s /\ send[s].text.id = sent[s]

\* Whatever is uncommitted was sent by a call that is about to commit, to the destination its
\* thread has cached.
Pending ==
  \A dest \in Dests : \A text \in Range(tx[dest]) :
    /\ send[text.from].at = "commit" /\ send[text.from].text = text
    /\ cached[text.from] = dest

\* A call that is to commit on the open session has its text in the transaction, unless
\* another thread's commit has published it already.
Sending ==
  \A s \in Senders : send[s].at = "commit" /\ session = "open" =>
    send[s].text \in published \/ \E dest \in Dests : send[s].text \in Range(tx[dest])

\* No thread's failed commit can take away what another has sent: commits do not fail while
\* the session is open, or there is one thread only.
CommitsHold == "commit" \notin Faults \/ \A s, q \in Senders : s = q

IInv == SenderTypes /\ OwnText /\ Pending

LEMMA NoTextIsNone == NoText \notin Texts
BY DEF NoText, Texts

\* A text has a sender and an ordinal.
LEMMA TextFields ==
  ASSUME NEW text \in Texts
  PROVE  text.from \in Senders /\ text.id \in Nat
BY MaxSendAssumption DEF Texts

LEMMA NothingSentIsEmpty ==
  NothingSent \in [Dests -> Seq(Texts)] /\ \A dest \in Dests : NothingSent[dest] = <<>> /\ Range(NothingSent[dest]) = {}
BY DEF NothingSent, Range

\* Uncommitted texts are texts.
LEMMA TxElements ==
  ASSUME SenderTypes, NEW dest \in Dests
  PROVE  tx[dest] \in Seq(Texts) /\ \A text \in Range(tx[dest]) : text \in Texts /\ text.from \in Senders
<1>1. tx[dest] \in Seq(Texts)
  BY DEF SenderTypes
<1>2. Range(tx[dest]) \subseteq Texts
  BY <1>1, RangeOfSeq
<1> QED
  BY <1>1, <1>2, TextFields

LEMMA RangeAppend ==
  ASSUME NEW S, NEW seq \in Seq(S), NEW e \in S
  PROVE  Append(seq, e) \in Seq(S) /\ Range(Append(seq, e)) = Range(seq) \cup {e}
<1>1. Append(seq, e) = seq \o <<e>> /\ <<e>> \in Seq(S) /\ Range(<<e>>) = {e}
  BY AppendIsConcat DEF Range
<1>2. Append(seq, e) \in Seq(S)
  OBVIOUS
<1>3. ASSUME NEW one \in Seq(S) PROVE Range(seq \o one) = Range(seq) \cup Range(one)
  BY RangeConcatenation
<1>4. Range(seq \o <<e>>) = Range(seq) \cup Range(<<e>>)
  BY <1>1, <1>3
<1> QED
  BY <1>1, <1>2, <1>4, Zenon

LEMMA InitIInv == Init => IInv /\ Sending /\ OkMeansPublished
<1> SUFFICES ASSUME Init PROVE IInv /\ Sending /\ OkMeansPublished
  OBVIOUS
<1>1. SenderTypes
  BY NothingSentIsEmpty, MaxSendAssumption DEF Init, SenderTypes
<1>2. OwnText /\ Sending /\ OkMeansPublished
  BY DEF Init, OwnText, Sending, OkMeansPublished
<1>3. Pending
  BY NothingSentIsEmpty DEF Init, Pending
<1> QED
  BY <1>1, <1>2, <1>3 DEF IInv

-----------------------------------------------------------------------------
LEMMA SendMessageInv ==
  ASSUME IInv, NEW s \in Senders, NEW dest \in Dests, SendMessage(s, dest)
  PROVE  IInv' /\ (Sending => Sending') /\ (OkMeansPublished => OkMeansPublished')
<1> DEFINE text == [from |-> s, id |-> sent'[s], asked |-> dest]
<1>1. /\ send[s].at = "idle" /\ sent[s] < MaxSend
      /\ sent' = [sent EXCEPT ![s] = @ + 1]
      /\ UNCHANGED <<session, tx, published>>
  BY DEF SendMessage, broker
<1>2. sent'[s] \in 1..MaxSend /\ sent' \in [Senders -> 0..MaxSend]
  BY <1>1, MaxSendAssumption DEF IInv, SenderTypes
<1>3. text \in Texts /\ text.from = s /\ text.id = sent'[s]
  BY <1>2 DEF Texts
<1>4. CASE session = "open"
  <2>1. /\ send' = [send EXCEPT ![s] = [at |-> "send", text |-> text, end |-> "none"]]
        /\ cached' = [cached EXCEPT ![s] = ProducerFor(s, dest)]
    BY <1>4 DEF SendMessage
  <2> HIDE DEF text
  <2>2. ProducerFor(s, dest) \in Dests
    BY DEF ProducerFor, IInv, SenderTypes
  <2>3. /\ send'[s] = [at |-> "send", text |-> text, end |-> "none"]
        /\ cached'[s] \in Dests
        /\ \A q \in Senders \ {s} : send'[q] = send[q] /\ cached'[q] = cached[q]
    BY <2>1, <2>2 DEF IInv, SenderTypes
  <2>4. SenderTypes'
    BY <1>1, <1>2, <1>3, <2>1, <2>2 DEF IInv, SenderTypes
  <2>5. OwnText'
    <3>1. \A q \in Senders \ {s} : sent'[q] = sent[q]
      BY <1>1 DEF IInv, SenderTypes
    <3> QED
      BY <1>1, <1>3, <1>4, <2>3, <3>1 DEF IInv, OwnText
  <2>6. Pending'
    <3> SUFFICES ASSUME NEW d \in Dests, NEW u \in Range(tx[d])
                 PROVE  send'[u.from].at = "commit" /\ send'[u.from].text = u /\ cached'[u.from] = d
      BY <1>1 DEF Pending
    <3>1. u.from \in Senders
      BY TxElements DEF IInv
    <3> QED
      BY <1>1, <2>3, <3>1 DEF IInv, Pending
  <2>7. Sending => Sending'
    BY <1>1, <2>3 DEF Sending
  <2>8. OkMeansPublished => OkMeansPublished'
    BY <1>1, <2>3 DEF OkMeansPublished
  <2> QED
    BY <2>4, <2>5, <2>6, <2>7, <2>8 DEF IInv
<1>5. CASE session # "open"
  <2>1. /\ send' = [send EXCEPT ![s] = [at |-> "idle", text |-> text, end |-> "failed"]]
        /\ UNCHANGED cached
    BY <1>5 DEF SendMessage
  <2> HIDE DEF text
  <2>2. /\ send'[s] = [at |-> "idle", text |-> text, end |-> "failed"]
        /\ \A q \in Senders \ {s} : send'[q] = send[q]
    BY <2>1 DEF IInv, SenderTypes
  <2>3. SenderTypes'
    BY <1>1, <1>2, <1>3, <2>1 DEF IInv, SenderTypes
  <2>4. OwnText'
    BY <1>1, <2>1, <2>2 DEF IInv, OwnText
  <2>5. Pending'
    <3> SUFFICES ASSUME NEW d \in Dests, NEW u \in Range(tx[d])
                 PROVE  send'[u.from].at = "commit" /\ send'[u.from].text = u /\ cached'[u.from] = d
      BY <1>1 DEF Pending
    <3>1. u.from \in Senders
      BY TxElements DEF IInv
    <3> QED
      BY <1>1, <2>1, <2>2, <3>1 DEF IInv, Pending
  <2>6. Sending => Sending'
    BY <1>1, <2>2 DEF Sending
  <2>7. OkMeansPublished => OkMeansPublished'
    BY <1>1, <2>2 DEF OkMeansPublished
  <2> QED
    BY <2>3, <2>4, <2>5, <2>6, <2>7 DEF IInv
<1> QED
  BY <1>4, <1>5

LEMMA SendInv ==
  ASSUME IInv, NEW s \in Senders, Send(s)
  PROVE  IInv' /\ (Sending => Sending') /\ (OkMeansPublished => OkMeansPublished')
<1> DEFINE text == send[s].text
<1>1. /\ send[s].at = "send" /\ session = "open"
      /\ tx' = [tx EXCEPT ![cached[s]] = Append(@, text)]
      /\ send' = [send EXCEPT ![s].at = "commit"]
      /\ UNCHANGED <<session, cached, sent, published>>
  BY DEF Send, broker
<1>2. text \in Texts /\ text.from = s /\ cached[s] \in Dests
  BY <1>1 DEF IInv, OwnText
<1>3. /\ send'[s].at = "commit" /\ send'[s].text = text /\ send'[s].end = send[s].end
      /\ \A q \in Senders \ {s} : send'[q] = send[q]
      /\ send' \in [Senders -> [at : {"idle", "send", "commit"}, text : Texts \cup {NoText},
                                end : {"none", "ok", "failed"}]]
  BY <1>1 DEF IInv, SenderTypes
<1> HIDE DEF text
<1>4. /\ tx' \in [Dests -> Seq(Texts)]
      /\ \A dest \in Dests \ {cached[s]} : tx'[dest] = tx[dest]
      /\ Range(tx'[cached[s]]) = Range(tx[cached[s]]) \cup {text}
  <2>1. /\ Append(tx[cached[s]], text) \in Seq(Texts)
        /\ Range(Append(tx[cached[s]], text)) = Range(tx[cached[s]]) \cup {text}
    BY <1>2, TxElements, RangeAppend DEF IInv
  <2> QED
    BY <1>1, <1>2, <2>1 DEF IInv, SenderTypes
<1>5. SenderTypes'
  BY <1>1, <1>3, <1>4 DEF IInv, SenderTypes
<1>6. OwnText'
  BY <1>1, <1>2, <1>3 DEF IInv, OwnText, text
<1>7. Pending'
  <2> SUFFICES ASSUME NEW dest \in Dests, NEW u \in Range(tx'[dest])
               PROVE  send'[u.from].at = "commit" /\ send'[u.from].text = u /\ cached[u.from] = dest
    BY <1>1 DEF Pending
  <2>1. CASE dest = cached[s] /\ u = text
    BY <1>2, <1>3, <2>1
  <2>2. CASE u \in Range(tx[dest])
    <3>1. u.from \in Senders /\ send[u.from].at = "commit" /\ send[u.from].text = u /\ cached[u.from] = dest
      BY <2>2, TxElements DEF IInv, Pending
    <3> QED
      BY <1>1, <1>3, <3>1
  <2> QED
    BY <1>4, <2>1, <2>2
<1>8. Sending => Sending'
  <2> SUFFICES ASSUME Sending, NEW q \in Senders, send'[q].at = "commit"
               PROVE  send'[q].text \in published \/ \E dest \in Dests : send'[q].text \in Range(tx'[dest])
    BY <1>1 DEF Sending
  <2>1. CASE q = s
    BY <1>2, <1>3, <1>4, <2>1
  <2>2. CASE q # s
    BY <1>1, <1>3, <1>4, <2>2 DEF Sending
  <2> QED
    BY <2>1, <2>2
<1>9. OkMeansPublished => OkMeansPublished'
  BY <1>1, <1>3 DEF OkMeansPublished, text
<1> QED
  BY <1>5, <1>6, <1>7, <1>8, <1>9 DEF IInv

\* A step that ends a call, with what it leaves of the transaction.
LEMMA FinishInv ==
  ASSUME IInv, NEW s \in Senders, NEW end \in {"ok", "failed"}, Finish(s, end),
         send[s].at # "idle", UNCHANGED <<session, cached, sent>>,
         published \subseteq published',
         tx' = NothingSent \/ (UNCHANGED tx /\ send[s].at # "commit")
  PROVE  /\ IInv'
         /\ (end = "failed" \/ send[s].text \in published') => (OkMeansPublished => OkMeansPublished')
         /\ (UNCHANGED tx) => (Sending => Sending')
         /\ (\A dest \in Dests : Range(tx[dest]) \subseteq published') => (Sending => Sending')
<1>1. /\ send'[s].at = "idle" /\ send'[s].text = send[s].text /\ send'[s].end = end
      /\ \A q \in Senders \ {s} : send'[q] = send[q]
      /\ send' \in [Senders -> [at : {"idle", "send", "commit"}, text : Texts \cup {NoText},
                                end : {"none", "ok", "failed"}]]
  BY DEF Finish, IInv, SenderTypes
<1>2. SenderTypes'
  BY <1>1, NothingSentIsEmpty DEF IInv, SenderTypes
<1>3. OwnText'
  BY <1>1 DEF IInv, OwnText
<1>4. Pending'
  <2>1. CASE tx' = NothingSent
    BY <2>1, NothingSentIsEmpty DEF Pending
  <2>2. CASE UNCHANGED tx /\ send[s].at # "commit"
    <3> SUFFICES ASSUME NEW dest \in Dests, NEW u \in Range(tx[dest])
                 PROVE  send'[u.from].at = "commit" /\ send'[u.from].text = u /\ cached[u.from] = dest
      BY <2>2 DEF Pending
    <3>1. u.from \in Senders /\ send[u.from].at = "commit" /\ send[u.from].text = u /\ cached[u.from] = dest
      BY TxElements DEF IInv, Pending
    <3> QED
      BY <1>1, <2>2, <3>1
  <2> QED
    BY <2>1, <2>2
<1>5. (end = "failed" \/ send[s].text \in published') => (OkMeansPublished => OkMeansPublished')
  BY <1>1 DEF OkMeansPublished
<1>6. (UNCHANGED tx) => (Sending => Sending')
  BY <1>1 DEF Sending
<1>7. (\A dest \in Dests : Range(tx[dest]) \subseteq published') => (Sending => Sending')
  BY <1>1 DEF Sending
<1> QED
  BY <1>2, <1>3, <1>4, <1>5, <1>6, <1>7 DEF IInv

LEMMA CommitInv ==
  ASSUME IInv, NEW s \in Senders, Commit(s)
  PROVE  /\ IInv'
         /\ Sending => Sending' /\ (OkMeansPublished => OkMeansPublished')
<1>1. /\ send[s].at = "commit" /\ session = "open" /\ Finish(s, "ok")
      /\ published' = published \cup UNION {Range(tx[dest]) : dest \in Dests}
      /\ tx' = NothingSent /\ UNCHANGED <<session, cached, sent>>
  BY DEF Commit, Publish, Rest
<1>2. published \subseteq published' /\ \A dest \in Dests : Range(tx[dest]) \subseteq published'
  BY <1>1
<1>3. Sending => send[s].text \in published'
  BY <1>1, <1>2 DEF Sending
<1> QED
  BY <1>1, <1>2, <1>3, FinishInv

\* A commit fails when the session is closed, or else its thread is the only one.
LEMMA CommitFailsInv ==
  ASSUME IInv, NEW s \in Senders, CommitFails(s)
  PROVE  /\ IInv'
         /\ CommitsHold /\ Sending => Sending'
         /\ OkMeansPublished => OkMeansPublished'
<1>1. /\ send[s].at = "commit" /\ Finish(s, "failed")
      /\ session = "closed" \/ "commit" \in Faults
      /\ tx' = NothingSent /\ UNCHANGED <<session, cached, sent>>
  BY DEF CommitFails
<1>2. published \subseteq published'
  BY DEF CommitFails, Publish, broker
<1>3. CommitsHold => Sending'
  <2>1. CASE session = "closed"
    BY <1>1, <2>1 DEF Sending
  <2>2. CASE "commit" \in Faults
    <3>1. send'[s].at = "idle"
      BY <1>1 DEF Finish, IInv, SenderTypes
    <3> QED
      BY <2>2, <3>1 DEF CommitsHold, Sending
  <2> QED
    BY <1>1, <2>1, <2>2
<1> QED
  BY <1>1, <1>2, <1>3, FinishInv

LEMMA NextInv ==
  ASSUME IInv, [Next]_vars
  PROVE  /\ IInv'
         /\ CommitsHold /\ Sending => Sending'
         /\ Sending /\ OkMeansPublished => OkMeansPublished'
<1> DEFINE Goal == /\ IInv'
                   /\ CommitsHold /\ Sending => Sending'
                   /\ Sending /\ OkMeansPublished => OkMeansPublished'
<1>1. ASSUME UNCHANGED <<session, cached, send, sent, tx, published>> PROVE Goal
  BY <1>1 DEF IInv, SenderTypes, OwnText, Pending, Sending, OkMeansPublished
<1>2. CASE ProducterInit
  <2>1. session = "none" /\ session' = "open" /\ UNCHANGED <<cached, send, sent, tx, published>>
    BY <1>2 DEF ProducterInit, broker
  <2>2. IInv' /\ (OkMeansPublished => OkMeansPublished')
    BY <2>1 DEF IInv, SenderTypes, OwnText, Pending, OkMeansPublished
  <2>3. Sending'
    BY <2>1 DEF IInv, SenderTypes, OwnText, Sending
  <2> QED
    BY <2>2, <2>3
<1>3. CASE ProducterClose
  <2>1. session' = "closed" /\ tx' = NothingSent /\ UNCHANGED <<cached, send, sent, published>>
    BY <1>3 DEF ProducterClose, broker
  <2>3. IInv' /\ Sending' /\ (OkMeansPublished => OkMeansPublished')
    BY <2>1, NothingSentIsEmpty DEF IInv, SenderTypes, OwnText, Pending, Sending, OkMeansPublished
  <2> QED
    BY <2>3
<1>4. ASSUME NEW s \in Senders, Sender(s) PROVE Goal
  <2>1. CASE \E dest \in Dests : SendMessage(s, dest)
    BY <2>1, SendMessageInv
  <2>2. CASE Send(s)
    BY <2>2, SendInv
  <2>3. CASE SendFails(s)
    <3>1. /\ send[s].at = "send" /\ Finish(s, "failed")
          /\ UNCHANGED <<session, cached, sent, tx, published>>
      BY <2>3 DEF SendFails, broker
    <3> QED
      BY <3>1, FinishInv
  <2>4. CASE Commit(s)
    BY <2>4, CommitInv
  <2>5. CASE CommitFails(s)
    BY <2>5, CommitFailsInv
  <2> QED
    BY <1>4, <2>1, <2>2, <2>3, <2>4, <2>5 DEF Sender
<1>5. ASSUME NEW r \in Receivers, Receiver(r) PROVE Goal
  <2>1. UNCHANGED <<session, cached, send, sent, tx, published>>
    BY <1>5 DEF Receiver, ComsumerInit, GetMessage, Dispatch, Receive, Handle, HandleFails, ComsumerClose, producer
  <2> QED
    BY <1>1, <2>1
<1>6. CASE UNCHANGED vars
  BY <1>1, <1>6 DEF vars
<1> QED
  BY <1>2, <1>3, <1>4, <1>5, <1>6 DEF Next

\* The strengthened invariant of the senders.
THEOREM Invariance == Spec => []IInv
<1>1. Init => IInv
  BY InitIInv
<1>2. IInv /\ [Next]_vars => IInv'
  BY NextInv
<1> QED
  BY <1>1, <1>2, PTL DEF Spec

\* A call that is over has left nothing uncommitted, whatever failed and whoever shares the
\* session.
THEOREM NothingLeft == Spec => []NothingLeftBehind
<1>1. IInv => NothingLeftBehind
  BY TxElements DEF IInv, Pending, NothingLeftBehind
<1> QED
  BY <1>1, Invariance, PTL

\* A call that ended well has had its text published, if no commit of another thread can fail.
THEOREM OkPublished == CommitsHold /\ Spec => []OkMeansPublished
<1> DEFINE Inv == CommitsHold /\ IInv /\ Sending /\ OkMeansPublished
<1>1. CommitsHold /\ Init => Inv
  BY InitIInv
<1>2. Inv /\ [Next]_vars => Inv'
  BY NextInv DEF CommitsHold
<1>3. Inv => OkMeansPublished
  OBVIOUS
<1> QED
  BY <1>1, <1>2, <1>3, PTL DEF Spec

-----------------------------------------------------------------------------
(* Sequences of texts in which the texts of one sender are in the order of its calls, but for
   those of a set that come late: the texts that a closed consumer has given back. *)

Follows(u, v, late) == u # v /\ (u.from = v.from => u.id < v.id \/ v \in late)

Ascending(seq, late) == \A i, j \in DOMAIN seq : i < j => Follows(seq[i], seq[j], late)

Earlier(A, B, late) == \A u \in A, v \in B : Follows(u, v, late)

LEMMA MoreLate ==
  ASSUME NEW few, NEW many, few \subseteq many
  PROVE  /\ \A seq : Ascending(seq, few) => Ascending(seq, many)
         /\ \A A, B : Earlier(A, B, few) => Earlier(A, B, many)
BY DEF Ascending, Earlier, Follows

LEMMA InRange ==
  ASSUME NEW S, NEW seq \in Seq(S)
  PROVE  /\ Range(seq) \subseteq S
         /\ \A i \in 1 .. Len(seq) : seq[i] \in Range(seq)
         /\ \A x \in Range(seq) : \E i \in 1 .. Len(seq) : x = seq[i]
         /\ DOMAIN seq = 1 .. Len(seq) /\ Len(seq) \in Nat
<1>1. Range(seq) = {seq[i] : i \in 1 .. Len(seq)}
  BY RangeEquality
<1>2. \A i \in 1 .. Len(seq) : seq[i] \in S
  BY ElementOfSeq
<1> QED
  BY <1>1, <1>2

LEMMA AscendingConcat ==
  ASSUME NEW a \in Seq(Texts), NEW b \in Seq(Texts), NEW late,
         Ascending(a, late), Ascending(b, late), Earlier(Range(a), Range(b), late)
  PROVE  a \o b \in Seq(Texts) /\ Ascending(a \o b, late) /\ Range(a \o b) = Range(a) \cup Range(b)
<1>1. /\ a \o b \in Seq(Texts) /\ Len(a \o b) = Len(a) + Len(b) /\ Len(a) \in Nat /\ Len(b) \in Nat
      /\ \A i \in 1 .. Len(a) : (a \o b)[i] = a[i]
      /\ \A i \in Len(a) + 1 .. Len(a) + Len(b) : (a \o b)[i] = b[i - Len(a)]
      /\ DOMAIN (a \o b) = 1 .. Len(a) + Len(b)
  BY InRange, ConcatProperties
<1>2. DOMAIN a = 1 .. Len(a) /\ DOMAIN b = 1 .. Len(b)
  OBVIOUS
<1>3. ASSUME NEW i \in 1 .. Len(a) + Len(b), NEW j \in 1 .. Len(a) + Len(b), i < j
      PROVE  Follows((a \o b)[i], (a \o b)[j], late)
  <2>1. CASE j <= Len(a)
    BY <1>1, <1>2, <1>3, <2>1 DEF Ascending
  <2>2. CASE i > Len(a)
    <3>1. i - Len(a) \in 1 .. Len(b) /\ j - Len(a) \in 1 .. Len(b) /\ i - Len(a) < j - Len(a)
      BY <1>1, <1>3, <2>2
    <3>2. (a \o b)[i] = b[i - Len(a)] /\ (a \o b)[j] = b[j - Len(a)]
      BY <1>1, <1>3, <2>2
    <3> QED
      BY <1>2, <1>3, <3>1, <3>2 DEF Ascending
  <2>3. CASE i <= Len(a) /\ j > Len(a)
    <3>1. i \in 1 .. Len(a) /\ j - Len(a) \in 1 .. Len(b)
      BY <1>1, <2>3
    <3>2. a[i] \in Range(a) /\ b[j - Len(a)] \in Range(b)
      BY <3>1, InRange
    <3>3. (a \o b)[i] = a[i] /\ (a \o b)[j] = b[j - Len(a)]
      BY <1>1, <2>3, <3>1
    <3> QED
      BY <1>3, <3>2, <3>3 DEF Earlier
  <2> QED
    BY <1>1, <2>1, <2>2, <2>3
<1>4. Range(a \o b) = Range(a) \cup Range(b)
  BY RangeConcatenation
<1> QED
  BY <1>1, <1>3, <1>4 DEF Ascending

LEMMA AscendingAppend ==
  ASSUME NEW seq \in Seq(Texts), NEW text \in Texts, NEW late,
         Ascending(seq, late), Earlier(Range(seq), {text}, late)
  PROVE  /\ Append(seq, text) \in Seq(Texts) /\ Ascending(Append(seq, text), late)
         /\ Range(Append(seq, text)) = Range(seq) \cup {text}
<1> DEFINE one == <<text>>
<1>1. one \in Seq(Texts) /\ Append(seq, text) = seq \o one
  BY AppendIsConcat
<1>2. Range(one) = {text} /\ Ascending(one, late)
  BY DEF Range, Ascending
<1> HIDE DEF one
<1>3. seq \o one \in Seq(Texts) /\ Ascending(seq \o one, late) /\ Range(seq \o one) = Range(seq) \cup Range(one)
  BY <1>1, <1>2, AscendingConcat
<1> QED
  BY <1>1, <1>2, <1>3, Zenon

LEMMA AscendingTail ==
  ASSUME NEW seq \in Seq(Texts), seq # <<>>, NEW late, Ascending(seq, late)
  PROVE  /\ Head(seq) \in Range(seq) /\ Head(seq) \in Texts /\ Tail(seq) \in Seq(Texts)
         /\ Range(seq) = Range(Tail(seq)) \cup {Head(seq)} /\ Ascending(Tail(seq), late)
         /\ Earlier({Head(seq)}, Range(Tail(seq)), late)
<1>1. /\ Len(seq) \in Nat \ {0} /\ Head(seq) = seq[1] /\ Tail(seq) \in Seq(Texts)
      /\ Len(Tail(seq)) = Len(seq) - 1
      /\ \A i \in 1 .. Len(seq) - 1 : Tail(seq)[i] = seq[i + 1]
  BY EmptySeq, HeadTailProperties
<1>2. DOMAIN seq = 1 .. Len(seq) /\ DOMAIN Tail(seq) = 1 .. Len(seq) - 1
  BY <1>1
<1>3. seq[1] \in Range(seq) /\ Range(seq) \subseteq Texts
  BY <1>1, InRange
<1>4. ASSUME NEW u \in Range(Tail(seq))
      PROVE  \E i \in 2 .. Len(seq) : u = seq[i]
  <2>1. PICK k \in 1 .. Len(seq) - 1 : u = Tail(seq)[k]
    <3>1. Tail(seq) \in Seq(Texts) /\ 1 .. Len(Tail(seq)) = 1 .. Len(seq) - 1
      BY <1>1
    <3> QED
      BY <3>1, InRange
  <2>2. k + 1 \in 2 .. Len(seq)
    BY <1>1
  <2> QED
    BY <1>1, <2>1, <2>2
<1>5. Range(seq) = Range(Tail(seq)) \cup {Head(seq)}
  <2>1. Range(Tail(seq)) \subseteq Range(seq)
    BY <1>1, <1>4, InRange
  <2>2. ASSUME NEW u \in Range(seq), u # Head(seq) PROVE u \in Range(Tail(seq))
    <3>1. PICK i \in 1 .. Len(seq) : u = seq[i]
      BY InRange
    <3>2. i - 1 \in 1 .. Len(seq) - 1 /\ (i - 1) + 1 = i
      BY <1>1, <2>2, <3>1
    <3>3. Tail(seq)[i - 1] = u /\ i - 1 \in 1 .. Len(Tail(seq))
      BY <1>1, <3>1, <3>2
    <3> QED
      BY <1>1, <3>3, InRange
  <2> QED
    BY <1>1, <1>3, <2>1, <2>2
<1>6. Ascending(Tail(seq), late)
  <2> SUFFICES ASSUME NEW i \in 1 .. Len(seq) - 1, NEW j \in 1 .. Len(seq) - 1, i < j
               PROVE  Follows(seq[i + 1], seq[j + 1], late)
    BY <1>1, <1>2 DEF Ascending
  <2> QED
    BY <1>1, <1>2 DEF Ascending
<1>7. Earlier({Head(seq)}, Range(Tail(seq)), late)
  BY <1>1, <1>2, <1>4 DEF Ascending, Earlier
<1> QED
  BY <1>1, <1>3, <1>5, <1>6, <1>7

-----------------------------------------------------------------------------
(* The types of what the receivers touch. *)

ReceiverTypes ==
  /\ queues \in [Names -> Seq(Texts)]
  /\ reader \in [Receivers -> Dests \cup {Null}]
  /\ recv \in [Receivers -> [at : {"new", "open", "receive", "handle", "closed"},
                             asked : Dests \cup {Null}, got : Texts \cup {NoText}]]
  /\ published \subseteq Texts /\ returned \subseteq Texts
  /\ inbox \in [Receivers -> Seq(Texts)] /\ received \in [Receivers -> Seq(Texts)]

LEMMA DestFields ==
  /\ \A d \in Dests : d[1] \in {"queue", "topic"} /\ d[2] \in Names /\ d = <<d[1], d[2]>>
  /\ \A n \in Names : <<"queue", n>> \in Dests /\ <<"topic", n>> \in Dests
BY DEF Dests

LEMMA InitReceiverTypes == Init => ReceiverTypes
BY EmptySeq DEF Init, ReceiverTypes

\* What the threads of the Producter do to the broker and the receivers: they publish.
LEMMA ProducerSteps ==
  ASSUME ProducterInit \/ ProducterClose \/ \E s \in Senders : Sender(s)
  PROVE  UNCHANGED <<reader, recv, received>> /\ (Publish \/ UNCHANGED broker)
BY DEF ProducterInit, ProducterClose, Sender, SendMessage, Send, SendFails, Commit, CommitFails, broker

\* What the receivers do to the Producter: nothing.
LEMMA ReceiverSteps ==
  ASSUME NEW r \in Receivers, Receiver(r)
  PROVE  UNCHANGED <<session, cached, send, sent, tx, published>>
BY DEF Receiver, ComsumerInit, GetMessage, Dispatch, Receive, Handle, HandleFails, ComsumerClose, producer

\* A commit appends to the queues, and to the inboxes of those who read its topics.
LEMMA PublishFacts ==
  ASSUME SenderTypes, ReceiverTypes, Publish
  PROVE  /\ queues' \in [Names -> Seq(Texts)] /\ inbox' \in [Receivers -> Seq(Texts)]
         /\ published' \subseteq Texts /\ published \subseteq published' /\ returned' = returned
         /\ \A dest \in Dests : Range(tx[dest]) \subseteq published'
         /\ \A u \in published' : u \in published \/ \E dest \in Dests : u \in Range(tx[dest])
         /\ \A n \in Names : queues'[n] = queues[n] \o tx[<<"queue", n>>]
         /\ \A r \in Receivers :
               inbox'[r] = IF reader[r] \in Dests /\ reader[r][1] = "topic" /\ recv[r].at # "closed"
                           THEN inbox[r] \o tx[reader[r]] ELSE inbox[r]
<1>1. \A dest \in Dests : tx[dest] \in Seq(Texts) /\ Range(tx[dest]) \subseteq Texts
  BY TxElements
<1>2. \A n \in Names : /\ queues'[n] = queues[n] \o tx[<<"queue", n>>]
                       /\ queues[n] \o tx[<<"queue", n>>] \in Seq(Texts)
  BY <1>1, DestFields, ConcatProperties DEF Publish, Enqueued, ReceiverTypes
<1>3. \A r \in Receivers :
        (\E n \in Names : Subscribed(r, <<"topic", n>>)) <=>
          reader[r] \in Dests /\ reader[r][1] = "topic" /\ recv[r].at # "closed"
  BY DestFields DEF Subscribed
<1>4. \A r \in Receivers : inbox'[r] = IF reader[r] \in Dests /\ reader[r][1] = "topic" /\ recv[r].at # "closed"
                                       THEN inbox[r] \o tx[reader[r]] ELSE inbox[r]
  BY <1>3 DEF Publish, Enqueued
<1>5. \A r \in Receivers : inbox'[r] \in Seq(Texts)
  <2> SUFFICES ASSUME NEW r \in Receivers PROVE inbox'[r] \in Seq(Texts)
    OBVIOUS
  <2>1. inbox[r] \in Seq(Texts)
    BY DEF ReceiverTypes
  <2>2. reader[r] \in Dests => inbox[r] \o tx[reader[r]] \in Seq(Texts)
    BY <1>1, <2>1, ConcatProperties
  <2> QED
    BY <1>4, <2>1, <2>2
<1>6. queues' \in [Names -> Seq(Texts)] /\ inbox' \in [Receivers -> Seq(Texts)]
  <2>1. queues' = [n \in Names |-> queues'[n]] /\ inbox' = [r \in Receivers |-> inbox'[r]]
    BY DEF Publish
  <2> QED
    BY <1>2, <1>5, <2>1
<1>7. published' = published \cup UNION {Range(tx[dest]) : dest \in Dests} /\ returned' = returned
  BY DEF Publish
<1>8. /\ published' \subseteq Texts /\ published \subseteq published'
      /\ \A dest \in Dests : Range(tx[dest]) \subseteq published'
      /\ \A u \in published' : u \in published \/ \E dest \in Dests : u \in Range(tx[dest])
  BY <1>1, <1>7 DEF ReceiverTypes
<1> QED
  BY <1>2, <1>4, <1>6, <1>7, <1>8

\* A receiver's consumer is given the head of its queue.
LEMMA DispatchFacts ==
  ASSUME ReceiverTypes, NEW r \in Receivers, Dispatch(r)
  PROVE  /\ UNCHANGED <<cached, published, returned, reader, recv, received>>
         /\ \E n \in Names :
              /\ reader[r] = <<"queue", n>> /\ queues[n] # <<>> /\ Head(queues[n]) \in Texts
              /\ queues[n] \in Seq(Texts) /\ Tail(queues[n]) \in Seq(Texts)
              /\ inbox' = [inbox EXCEPT ![r] = Append(@, Head(queues[n]))]
              /\ queues' = [queues EXCEPT ![n] = Tail(@)]
<1>1. PICK n \in Names :
        /\ Subscribed(r, <<"queue", n>>) /\ queues[n] # <<>>
        /\ inbox' = [inbox EXCEPT ![r] = Append(@, Head(queues[n]))]
        /\ queues' = [queues EXCEPT ![n] = Tail(@)]
        /\ UNCHANGED <<producer, reader, recv, returned, received>>
  BY DEF Dispatch
<1>2. queues[n] \in Seq(Texts)
  BY DEF ReceiverTypes
<1>3. Head(queues[n]) \in Texts /\ Tail(queues[n]) \in Seq(Texts)
  BY <1>1, <1>2, HeadTailProperties
<1> QED
  BY <1>1, <1>2, <1>3 DEF Subscribed, producer

\* A receiver takes the head of what has been dispatched to it.
LEMMA ReceiveFacts ==
  ASSUME ReceiverTypes, NEW r \in Receivers, Receive(r)
  PROVE  /\ UNCHANGED <<cached, published, returned, queues, reader>>
         /\ inbox[r] # <<>> /\ Head(inbox[r]) \in Texts /\ inbox[r] \in Seq(Texts) /\ Tail(inbox[r]) \in Seq(Texts)
         /\ recv[r].at = "receive"
         /\ received' = [received EXCEPT ![r] = Append(@, Head(inbox[r]))]
         /\ inbox' = [inbox EXCEPT ![r] = Tail(inbox[r])]
         /\ recv' = [recv EXCEPT ![r].at = "handle", ![r].got = Head(inbox[r])]
<1>1. inbox[r] \in Seq(Texts) /\ inbox[r] # <<>>
  BY DEF ReceiverTypes, Receive, Ready
<1>2. Head(inbox[r]) \in Texts /\ Tail(inbox[r]) \in Seq(Texts)
  BY <1>1, HeadTailProperties
<1> QED
  BY <1>1, <1>2 DEF Receive, Take, producer

\* A consumer that is closed gives back to its queue what it has not received.
LEMMA CloseFacts ==
  ASSUME ReceiverTypes, NEW r \in Receivers, ComsumerClose(r)
  PROVE  /\ UNCHANGED <<cached, published, reader, received>>
         /\ inbox' = [inbox EXCEPT ![r] = <<>>]
         /\ recv' = [recv EXCEPT ![r].at = "closed", ![r].got = NoText]
         /\ returned \subseteq returned' /\ returned' \subseteq Texts
         /\ \/ /\ UNCHANGED <<queues, returned>> /\ \A n \in Names : reader[r] # <<"queue", n>>
            \/ /\ returned' = returned \cup Range(inbox[r])
               /\ \E n \in Names :
                    /\ reader[r] = <<"queue", n>>
                    /\ queues' = [queues EXCEPT ![n] = inbox[r] \o @]
                    /\ inbox[r] \o queues[n] \in Seq(Texts)
<1>1. /\ UNCHANGED <<cached, published, reader, received>>
      /\ inbox' = [inbox EXCEPT ![r] = <<>>]
      /\ recv' = [recv EXCEPT ![r].at = "closed", ![r].got = NoText]
  BY DEF ComsumerClose, producer
<1>2. inbox[r] \in Seq(Texts) /\ Range(inbox[r]) \subseteq Texts /\ returned \subseteq Texts
  BY InRange DEF ReceiverTypes
<1>3. CASE reader[r] # Null /\ reader[r][1] = "queue"
  <2> DEFINE n == reader[r][2]
  <2>1. n \in Names /\ reader[r] = <<"queue", n>>
    BY <1>3, DestFields DEF ReceiverTypes
  <2>2. queues' = [queues EXCEPT ![n] = inbox[r] \o @] /\ returned' = returned \cup Range(inbox[r])
    BY <1>3 DEF ComsumerClose
  <2>3. inbox[r] \o queues[n] \in Seq(Texts)
    BY <1>2, <2>1, ConcatProperties DEF ReceiverTypes
  <2> QED
    BY <1>1, <1>2, <2>1, <2>2, <2>3
<1>4. CASE ~(reader[r] # Null /\ reader[r][1] = "queue")
  <2>1. UNCHANGED <<queues, returned>>
    BY <1>4 DEF ComsumerClose
  <2>2. ASSUME NEW n \in Names, reader[r] = <<"queue", n>> PROVE FALSE
    <3>1. reader[r] \in Dests /\ reader[r][1] = "queue"
      BY <2>2, DestFields
    <3> QED
      BY <1>4, <3>1, NullAssumption
  <2> QED
    BY <1>1, <1>2, <2>1, <2>2
<1> QED
  BY <1>3, <1>4

LEMMA NextReceiverTypes == IInv /\ ReceiverTypes /\ [Next]_vars => ReceiverTypes'
<1> SUFFICES ASSUME IInv, ReceiverTypes, [Next]_vars PROVE ReceiverTypes'
  OBVIOUS
<1>1. ASSUME UNCHANGED <<broker, reader, recv, received>> PROVE ReceiverTypes'
  BY <1>1 DEF ReceiverTypes, broker
<1>2. CASE ProducterInit \/ ProducterClose \/ \E s \in Senders : Sender(s)
  <2>1. CASE Publish
    BY <1>2, <2>1, ProducerSteps, PublishFacts DEF IInv, ReceiverTypes
  <2> QED
    BY <1>1, <1>2, <2>1, ProducerSteps
<1>3. ASSUME NEW r \in Receivers, ComsumerInit(r) PROVE ReceiverTypes'
  BY <1>3 DEF ComsumerInit, ReceiverTypes, producer
<1>4. ASSUME NEW r \in Receivers, NEW dest \in Dests, GetMessage(r, dest) PROVE ReceiverTypes'
  <2>1. ReaderFor(r, dest) \in Dests
    BY DEF ReaderFor, ReceiverTypes
  <2> QED
    BY <1>4, <2>1 DEF GetMessage, ReceiverTypes, producer
<1>5. ASSUME NEW r \in Receivers, Receive(r) PROVE ReceiverTypes'
  <2> DEFINE head == Head(inbox[r])
             tail == Tail(inbox[r])
  <2>1. /\ UNCHANGED <<published, returned, queues, reader>> /\ head \in Texts /\ tail \in Seq(Texts)
        /\ received' = [received EXCEPT ![r] = Append(@, head)] /\ inbox' = [inbox EXCEPT ![r] = tail]
        /\ recv' = [recv EXCEPT ![r].at = "handle", ![r].got = head]
    BY <1>5, ReceiveFacts
  <2>2. Append(received[r], head) \in Seq(Texts)
    BY <2>1, RangeAppend DEF ReceiverTypes
  <2> HIDE DEF head, tail
  <2>3. received' \in [Receivers -> Seq(Texts)] /\ inbox' \in [Receivers -> Seq(Texts)]
    BY <2>1, <2>2 DEF ReceiverTypes
  <2>4. recv' \in [Receivers -> [at : {"new", "open", "receive", "handle", "closed"},
                                asked : Dests \cup {Null}, got : Texts \cup {NoText}]]
    BY <2>1 DEF ReceiverTypes
  <2> QED
    BY <2>1, <2>3, <2>4 DEF ReceiverTypes
<1>6. ASSUME NEW r \in Receivers, Handle(r) \/ HandleFails(r) PROVE ReceiverTypes'
  <2>1. UNCHANGED <<queues, reader, inbox, published, returned, received>>
    BY <1>6 DEF Handle, HandleFails, producer
  <2>2. PICK at \in {"receive", "open"} : recv' = [recv EXCEPT ![r].at = at, ![r].got = NoText]
    BY <1>6 DEF Handle, HandleFails
  <2> QED
    BY <2>1, <2>2 DEF ReceiverTypes
<1>7. ASSUME NEW r \in Receivers, ComsumerClose(r) PROVE ReceiverTypes'
  <2>1. /\ UNCHANGED <<published, reader, received>> /\ inbox' = [inbox EXCEPT ![r] = <<>>]
        /\ recv' = [recv EXCEPT ![r].at = "closed", ![r].got = NoText] /\ returned' \subseteq Texts
    BY <1>7, CloseFacts
  <2>2. queues' \in [Names -> Seq(Texts)]
    BY <1>7, CloseFacts DEF ReceiverTypes
  <2> QED
    BY <2>1, <2>2, EmptySeq DEF ReceiverTypes
<1>9. ASSUME NEW r \in Receivers, Dispatch(r) PROVE ReceiverTypes'
  <2>1. PICK n \in Names :
          /\ Head(queues[n]) \in Texts /\ Tail(queues[n]) \in Seq(Texts)
          /\ inbox' = [inbox EXCEPT ![r] = Append(@, Head(queues[n]))]
          /\ queues' = [queues EXCEPT ![n] = Tail(@)]
    BY <1>9, DispatchFacts
  <2>2. Append(inbox[r], Head(queues[n])) \in Seq(Texts)
    BY <2>1, RangeAppend DEF ReceiverTypes
  <2>3. UNCHANGED <<published, returned, reader, recv, received>>
    BY <1>9, DispatchFacts
  <2> QED
    BY <2>1, <2>2, <2>3 DEF ReceiverTypes
<1>8. CASE UNCHANGED vars
  BY <1>1, <1>8 DEF vars, broker
<1> QED
  BY <1>2, <1>3, <1>4, <1>5, <1>6, <1>7, <1>8, <1>9 DEF Next, Receiver

\* Session, calls, queues and inboxes keep their types, whatever the broker does to a commit.
THEOREM TypeCorrect == Spec => []TypeOK
<1>1. Spec => []ReceiverTypes
  BY InitReceiverTypes, NextReceiverTypes, Invariance, PTL DEF Spec
<1>2. IInv /\ ReceiverTypes => TypeOK
  BY DEF IInv, SenderTypes, ReceiverTypes, TypeOK
<1> QED
  BY <1>1, <1>2, Invariance, PTL

-----------------------------------------------------------------------------
(* The order in which texts are delivered, and to whom.  A thread keeps its producer, so that
   all its texts go to one destination; a text that is still uncommitted is later than all
   that its sender has published. *)

\* What a call has yet to send is later than all its thread has published.
Fresh ==
  \A u \in published : u.id <= sent[u.from] /\ (send[u.from].at = "send" => u.id < sent[u.from])

\* What is uncommitted is in order and later than all that is published.
Later == \A dest \in Dests : Ascending(tx[dest], {}) /\ Earlier(published, Range(tx[dest]), {})

\* A queue holds published texts, in order, of senders who send to it.
QueueInv(n) ==
  /\ Ascending(queues[n], returned)
  /\ \A u \in Range(queues[n]) : u \in published /\ cached[u.from] = <<"queue", n>>

\* The texts that have left the broker's queues and topics for a receiver.
Gone(r) == Range(received[r]) \cup Range(inbox[r])

\* A receiver has got, and has waiting for it, published texts, in order, of senders who send
\* to what it reads; what has gone to it from a queue is earlier than what is left there.
StreamInv(r) ==
  /\ \A u \in Gone(r) : u \in published /\ cached[u.from] = reader[r]
  /\ reader[r] = Null => received[r] = <<>> /\ inbox[r] = <<>>
  /\ Ascending(received[r], returned) /\ Ascending(inbox[r], returned)
  /\ Earlier(Range(received[r]), Range(inbox[r]), returned)
  /\ \A n \in Names : reader[r] = <<"queue", n>> => Earlier(Gone(r), Range(queues[n]), returned)

\* What has left a queue is with one receiver.
Apart(r, q) ==
  (\E n \in Names : reader[r] = <<"queue", n>> /\ reader[q] = <<"queue", n>>) => Gone(r) \cap Gone(q) = {}

StreamsInv ==
  /\ \A n \in Names : QueueInv(n)
  /\ \A r \in Receivers : StreamInv(r)
  /\ \A r, q \in Receivers : r # q => Apart(r, q)

DeliveryInv == Fresh /\ Later /\ StreamsInv

AllTypes == IInv /\ ReceiverTypes

LEMMA EmptyRange == Range(<<>>) = {} /\ \A late : Ascending(<<>>, late)
BY DEF Range, Ascending

LEMMA InitDeliveryInv == Init => DeliveryInv
<1> SUFFICES ASSUME Init PROVE DeliveryInv
  OBVIOUS
<1>1. Fresh /\ Later
  BY NothingSentIsEmpty, EmptyRange DEF Init, Fresh, Later, Earlier
<1>2. \A n \in Names : QueueInv(n)
  BY EmptyRange DEF Init, QueueInv
<1>5. \A r \in Receivers : Gone(r) = {}
  BY EmptyRange DEF Init, Gone
<1>3. \A r \in Receivers : StreamInv(r)
  <2> SUFFICES ASSUME NEW r \in Receivers PROVE StreamInv(r)
    OBVIOUS
  <2>1. received[r] = <<>> /\ inbox[r] = <<>> /\ reader[r] = Null
    BY DEF Init
  <2> QED
    BY <1>5, <2>1, EmptyRange DEF StreamInv, Earlier
<1>4. \A r, q \in Receivers : Apart(r, q)
  BY <1>5 DEF Apart
<1> QED
  BY <1>1, <1>2, <1>3, <1>4 DEF DeliveryInv, StreamsInv

\* A thread that has a producer keeps it.
LEMMA ProducerKept ==
  ASSUME IInv, [Next]_vars, NEW s \in Senders, cached[s] # Null
  PROVE  cached'[s] = cached[s]
<1>1. ASSUME NEW q \in Senders, NEW dest \in Dests, SendMessage(q, dest) PROVE cached'[s] = cached[s]
  BY <1>1 DEF SendMessage, ProducerFor, IInv, SenderTypes
<1>2. CASE ProducterInit \/ ProducterClose \/ UNCHANGED vars
  BY <1>2 DEF ProducterInit, ProducterClose, vars
<1>3. ASSUME NEW q \in Senders, Send(q) \/ SendFails(q) \/ Commit(q) \/ CommitFails(q)
      PROVE  cached'[s] = cached[s]
  BY <1>3 DEF Send, SendFails, Commit, CommitFails
<1>4. ASSUME NEW r \in Receivers, Receiver(r) PROVE cached'[s] = cached[s]
  BY <1>4, ReceiverSteps
<1> QED
  BY <1>1, <1>2, <1>3, <1>4 DEF Next, Sender

\* The part of the invariant that is about what is published and what is not.
LEMMA LaterStep ==
  ASSUME AllTypes, DeliveryInv, [Next]_vars
  PROVE  Fresh' /\ Later'
<1>1. SenderTypes /\ OwnText /\ Pending /\ Fresh /\ Later /\ ReceiverTypes
  BY DEF AllTypes, IInv, DeliveryInv
<1>2. \A u \in published : u \in Texts /\ u.from \in Senders /\ u.id \in Nat
  BY <1>1, TextFields DEF ReceiverTypes
<1>3. ASSUME UNCHANGED <<send, sent, tx, published>> PROVE Fresh' /\ Later'
  BY <1>1, <1>3 DEF Fresh, Later
<1>4. CASE ProducterInit \/ UNCHANGED vars
  BY <1>3, <1>4 DEF ProducterInit, vars, broker
<1>5. CASE ProducterClose
  <2>1. Fresh'
    BY <1>1, <1>5 DEF ProducterClose, Fresh, broker
  <2>2. Later'
    BY <1>5, NothingSentIsEmpty, EmptyRange DEF ProducterClose, Later, Earlier
  <2> QED
    BY <2>1, <2>2
<1>6. ASSUME NEW s \in Senders, NEW dest \in Dests, SendMessage(s, dest) PROVE Fresh' /\ Later'
  <2>1. /\ UNCHANGED <<tx, published>> /\ sent' = [sent EXCEPT ![s] = @ + 1]
        /\ \A q \in Senders \ {s} : send'[q] = send[q]
    BY <1>1, <1>6 DEF SendMessage, broker, SenderTypes
  <2>2. \A q \in Senders : sent[q] \in Nat /\ sent'[q] = IF q = s THEN sent[q] + 1 ELSE sent[q]
    BY <1>1, <2>1, MaxSendAssumption DEF SenderTypes
  <2>3. Fresh'
    BY <1>1, <1>2, <2>1, <2>2 DEF Fresh
  <2>4. Later'
    BY <1>1, <2>1 DEF Later
  <2> QED
    BY <2>3, <2>4
<1>7. ASSUME NEW s \in Senders, Send(s) PROVE Fresh' /\ Later'
  <2> DEFINE text == send[s].text
  <2>1. /\ UNCHANGED <<sent, published>> /\ tx' = [tx EXCEPT ![cached[s]] = Append(@, text)]
        /\ send'[s].at = "commit" /\ \A q \in Senders \ {s} : send'[q] = send[q]
    BY <1>1, <1>7 DEF Send, broker, SenderTypes
  <2>2. text \in Texts /\ text.from = s /\ text.id = sent[s] /\ cached[s] \in Dests /\ send[s].at = "send"
    BY <1>1, <1>7 DEF Send, OwnText
  <2> HIDE DEF text
  <2>3. Fresh'
    BY <1>1, <1>2, <2>1 DEF Fresh
  <2>4. Earlier(published, {text}, {})
    BY <1>1, <2>2, TextFields DEF Fresh, Earlier, Follows
  <2>5. tx[cached[s]] \in Seq(Texts) /\ Earlier(Range(tx[cached[s]]), {text}, {})
    <3>1. \A u \in Range(tx[cached[s]]) : u.from # s
      BY <1>1, <2>2 DEF Pending
    <3> QED
      BY <1>1, <2>2, <3>1, TxElements DEF Earlier, Follows
  <2>6. /\ Ascending(Append(tx[cached[s]], text), {})
        /\ Range(Append(tx[cached[s]], text)) = Range(tx[cached[s]]) \cup {text}
    BY <1>1, <2>2, <2>5, AscendingAppend DEF Later
  <2>7. ASSUME NEW dest \in Dests
        PROVE  Ascending(tx'[dest], {}) /\ Earlier(published, Range(tx'[dest]), {})
    <3>1. CASE dest = cached[s]
      <4>1. tx'[dest] = Append(tx[cached[s]], text)
        BY <1>1, <2>1, <3>1 DEF SenderTypes
      <4>2. Earlier(published, Range(tx[cached[s]]), {})
        BY <1>1, <2>2 DEF Later
      <4> QED
        BY <2>4, <2>6, <4>1, <4>2 DEF Earlier
    <3>2. CASE dest # cached[s]
      <4>1. tx'[dest] = tx[dest]
        BY <1>1, <2>1, <3>2 DEF SenderTypes
      <4> QED
        BY <1>1, <4>1 DEF Later
    <3> QED
      BY <3>1, <3>2
  <2> QED
    BY <2>1, <2>3, <2>7 DEF Later
<1>8. ASSUME NEW s \in Senders, SendFails(s) PROVE Fresh' /\ Later'
  <2>1. /\ UNCHANGED <<sent, tx, published>> /\ send'[s].at = "idle"
        /\ \A q \in Senders \ {s} : send'[q] = send[q]
    BY <1>1, <1>8 DEF SendFails, Finish, broker, SenderTypes
  <2> QED
    BY <1>1, <1>2, <2>1 DEF Fresh, Later
<1>9. ASSUME NEW s \in Senders, Commit(s) \/ CommitFails(s) PROVE Fresh' /\ Later'
  <2>1. /\ UNCHANGED sent /\ tx' = NothingSent /\ send'[s].at = "idle"
        /\ \A q \in Senders \ {s} : send'[q] = send[q]
        /\ Publish \/ UNCHANGED published
    BY <1>1, <1>9 DEF Commit, CommitFails, Finish, Rest, broker, SenderTypes
  <2>2. \A u \in published' : u \in published \/ \E dest \in Dests : u \in Range(tx[dest])
    BY <1>1, <2>1, PublishFacts
  <2>3. \A dest \in Dests : \A u \in Range(tx[dest]) :
          u.from \in Senders /\ send[u.from].at = "commit" /\ u.id = sent[u.from] /\ u.id \in Nat
    BY <1>1, TxElements, TextFields DEF Pending, OwnText
  <2>4. Fresh'
    BY <1>1, <1>2, <2>1, <2>2, <2>3 DEF Fresh
  <2>5. Later'
    BY <2>1, NothingSentIsEmpty, EmptyRange DEF Later, Earlier
  <2> QED
    BY <2>4, <2>5
<1>10. ASSUME NEW r \in Receivers, Receiver(r) PROVE Fresh' /\ Later'
  BY <1>3, <1>10, ReceiverSteps
<1> QED
  BY <1>4, <1>5, <1>6, <1>7, <1>8, <1>9, <1>10 DEF Next, Sender

\* What has been delivered stays explained when the broker and the receivers do nothing.
LEMMA QuietStreams ==
  ASSUME AllTypes, DeliveryInv, [Next]_vars, UNCHANGED <<broker, reader, received>>
  PROVE  StreamsInv'
<1>1. IInv /\ ReceiverTypes /\ published \subseteq Texts /\ StreamsInv
  BY DEF AllTypes, ReceiverTypes, DeliveryInv
<1>2. \A u \in published : cached[u.from] # Null => cached'[u.from] = cached[u.from]
  BY <1>1, TextFields, ProducerKept
<1>6. UNCHANGED <<queues, inbox, published, returned>> /\ \A r \in Receivers : Gone(r)' = Gone(r)
  BY DEF broker, Gone
<1>3. ASSUME NEW n \in Names PROVE QueueInv(n)'
  <2>1. QueueInv(n) /\ <<"queue", n>> # Null
    BY <1>1, DestFields, NullAssumption DEF StreamsInv
  <2> QED
    BY <1>2, <1>6, <2>1 DEF QueueInv
<1>4. ASSUME NEW r \in Receivers PROVE StreamInv(r)'
  <2>1. StreamInv(r)
    BY <1>1 DEF StreamsInv
  <2>2. \A u \in Gone(r) : reader[r] # Null
    BY <2>1, EmptyRange DEF StreamInv, Gone
  <2> QED
    BY <1>2, <1>6, <2>1, <2>2 DEF StreamInv
<1>5. \A r, q \in Receivers : r # q => Apart(r, q)'
  BY <1>1, <1>6 DEF StreamsInv, Apart
<1> QED
  BY <1>3, <1>4, <1>5 DEF StreamsInv

\* A commit puts later texts behind what is there.
LEMMA PublishStreams ==
  ASSUME AllTypes, DeliveryInv, Publish, UNCHANGED <<cached, reader, received>>
  PROVE  StreamsInv'
<1>1. SenderTypes /\ ReceiverTypes /\ Pending /\ Later /\ StreamsInv
  BY DEF AllTypes, IInv, DeliveryInv
<1>2. \A dest \in Dests : /\ tx[dest] \in Seq(Texts) /\ Ascending(tx[dest], returned)
                         /\ Earlier(published, Range(tx[dest]), returned)
                         /\ \A u \in Range(tx[dest]) : u \in published' /\ cached[u.from] = dest
  <2>1. {} \subseteq returned
    OBVIOUS
  <2> QED
    BY <1>1, <2>1, MoreLate, TxElements, PublishFacts DEF Later, Pending
<1>3. published \subseteq published' /\ returned' = returned
  BY <1>1, PublishFacts
<1>4. ASSUME NEW n \in Names
      PROVE  QueueInv(n)' /\ Range(queues'[n]) = Range(queues[n]) \cup Range(tx[<<"queue", n>>])
  <2> DEFINE dest == <<"queue", n>>
  <2>1. dest \in Dests /\ queues'[n] = queues[n] \o tx[dest] /\ queues[n] \in Seq(Texts)
    BY <1>1, DestFields, PublishFacts DEF ReceiverTypes
  <2>2. QueueInv(n)
    BY <1>1 DEF StreamsInv
  <2> HIDE DEF dest
  <2>3. Earlier(Range(queues[n]), Range(tx[dest]), returned)
    BY <1>2, <2>1, <2>2 DEF QueueInv, Earlier
  <2>4. Ascending(queues'[n], returned) /\ Range(queues'[n]) = Range(queues[n]) \cup Range(tx[dest])
    BY <1>2, <2>1, <2>2, <2>3, AscendingConcat DEF QueueInv
  <2>5. \A u \in Range(queues'[n]) : u \in published' /\ cached[u.from] = dest
    BY <1>2, <1>3, <2>1, <2>2, <2>4 DEF QueueInv, dest
  <2> QED
    BY <1>3, <2>4, <2>5 DEF QueueInv, dest
<1>5. ASSUME NEW r \in Receivers
      PROVE  StreamInv(r)' /\ (\A n \in Names : reader[r] = <<"queue", n>> => Gone(r)' = Gone(r))
  <2>1. StreamInv(r) /\ inbox[r] \in Seq(Texts)
    BY <1>1 DEF StreamsInv, ReceiverTypes
  <2>3. CASE inbox'[r] = inbox[r]
    <3>1. Gone(r)' = Gone(r)
      BY <2>3 DEF Gone
    <3>2. ASSUME NEW n \in Names, reader[r] = <<"queue", n>>
          PROVE  Earlier(Gone(r), Range(queues'[n]), returned)
      <4>1. Earlier(Gone(r), Range(tx[<<"queue", n>>]), returned)
        BY <1>2, <2>1, DestFields DEF StreamInv, Earlier
      <4> QED
        BY <1>4, <2>1, <3>2, <4>1 DEF StreamInv, Earlier
    <3> QED
      BY <1>3, <2>1, <2>3, <3>1, <3>2 DEF StreamInv
  <2>4. CASE reader[r] \in Dests /\ reader[r][1] = "topic" /\ inbox'[r] = inbox[r] \o tx[reader[r]]
    <3>1. /\ Earlier(Range(received[r]), Range(tx[reader[r]]), returned)
          /\ Earlier(Range(inbox[r]), Range(tx[reader[r]]), returned)
      BY <1>2, <2>1, <2>4 DEF StreamInv, Earlier, Gone
    <3>2. Ascending(inbox'[r], returned) /\ Range(inbox'[r]) = Range(inbox[r]) \cup Range(tx[reader[r]])
      BY <1>2, <2>1, <2>4, <3>1, AscendingConcat DEF StreamInv
    <3>3. Earlier(Range(received[r]), Range(inbox'[r]), returned)
      BY <2>1, <3>1, <3>2 DEF StreamInv, Earlier
    <3>4. \A u \in Gone(r)' : u \in published' /\ cached[u.from] = reader[r]
      BY <1>2, <1>3, <2>1, <2>4, <3>2 DEF StreamInv, Gone
    <3>5. reader[r] # Null /\ \A n \in Names : reader[r] # <<"queue", n>>
      BY <2>4, NullAssumption
    <3> QED
      BY <1>3, <2>1, <3>2, <3>3, <3>4, <3>5 DEF StreamInv
  <2> QED
    BY <1>1, <2>3, <2>4, PublishFacts
<1>6. \A r, q \in Receivers : r # q => Apart(r, q)'
  BY <1>1, <1>5 DEF StreamsInv, Apart
<1> QED
  BY <1>4, <1>5, <1>6 DEF StreamsInv

\* What is dispatched to a receiver is later than all that has gone to those who read its
\* queue, earlier than all that is left there, and gone for the others.
LEMMA DispatchStreams ==
  ASSUME AllTypes, DeliveryInv, NEW r \in Receivers, Dispatch(r)
  PROVE  StreamsInv'
<1>0. ReceiverTypes /\ StreamsInv
  BY DEF AllTypes, DeliveryInv
<1>1. PICK n \in Names :
        /\ reader[r] = <<"queue", n>> /\ queues[n] # <<>> /\ Head(queues[n]) \in Texts
        /\ queues[n] \in Seq(Texts) /\ Tail(queues[n]) \in Seq(Texts)
        /\ inbox' = [inbox EXCEPT ![r] = Append(@, Head(queues[n]))]
        /\ queues' = [queues EXCEPT ![n] = Tail(@)]
  BY <1>0, DispatchFacts
<1> DEFINE head == Head(queues[n])
           tail == Tail(queues[n])
<1>2. UNCHANGED <<cached, published, returned, reader, received>>
  BY <1>0, DispatchFacts
<1>3. /\ head \in Texts /\ tail \in Seq(Texts) /\ Range(queues[n]) = Range(tail) \cup {head}
      /\ Ascending(tail, returned) /\ Earlier({head}, Range(tail), returned)
  BY <1>0, <1>1, AscendingTail DEF QueueInv, StreamsInv
<1>4. head \in published /\ cached[head.from] = <<"queue", n>>
  BY <1>0, <1>3 DEF QueueInv, StreamsInv
<1>5. /\ queues'[n] = tail /\ \A m \in Names \ {n} : queues'[m] = queues[m]
      /\ inbox'[r] = Append(inbox[r], head) /\ \A q \in Receivers \ {r} : inbox'[q] = inbox[q]
      /\ inbox[r] \in Seq(Texts)
  BY <1>0, <1>1 DEF ReceiverTypes
<1> HIDE DEF head, tail
<1>6. ASSUME NEW q \in Receivers, reader[q] = <<"queue", n>>
      PROVE  Earlier(Gone(q), {head}, returned) /\ Earlier(Gone(q), Range(tail), returned) /\ head \notin Gone(q)
  BY <1>0, <1>3, <1>6 DEF StreamsInv, StreamInv, Earlier, Follows
<1>7. Ascending(inbox'[r], returned) /\ Range(inbox'[r]) = Range(inbox[r]) \cup {head}
  <2>1. Ascending(inbox[r], returned) /\ Earlier(Range(inbox[r]), {head}, returned)
    BY <1>0, <1>1, <1>6 DEF StreamsInv, StreamInv, Gone, Earlier
  <2> QED
    BY <1>3, <1>5, <2>1, AscendingAppend
<1>8. Gone(r)' = Gone(r) \cup {head} /\ \A q \in Receivers \ {r} : Gone(q)' = Gone(q)
  BY <1>2, <1>5, <1>7 DEF Gone
<1>9. \A m \in Names : QueueInv(m)'
  BY <1>0, <1>2, <1>3, <1>5 DEF QueueInv, StreamsInv
<1>10. ASSUME NEW q \in Receivers, NEW m \in Names, reader[q] = <<"queue", m>>
       PROVE  Earlier(Gone(q)', Range(queues'[m]), returned)
  <2>1. CASE m = n
    BY <1>3, <1>5, <1>6, <1>8, <1>10, <2>1 DEF Earlier
  <2>2. CASE m # n
    <3>1. q # r
      BY <1>1, <1>10, <2>2
    <3> QED
      BY <1>0, <1>5, <1>8, <1>10, <2>2, <3>1 DEF StreamsInv, StreamInv
  <2> QED
    BY <2>1, <2>2
<1>11. StreamInv(r)'
  <2>1. StreamInv(r) /\ reader[r] # Null
    <3>1. reader[r] \in Dests
      BY <1>1, DestFields
    <3> QED
      BY <1>0, <3>1, NullAssumption DEF StreamsInv
  <2>2. \A u \in Gone(r)' : u \in published /\ cached[u.from] = reader[r]
    BY <1>1, <1>4, <1>8, <2>1 DEF StreamInv
  <2>3. Earlier(Range(received[r]), Range(inbox'[r]), returned)
    BY <1>1, <1>6, <1>7, <2>1 DEF StreamInv, Gone, Earlier
  <2> QED
    BY <1>2, <1>7, <1>10, <2>1, <2>2, <2>3 DEF StreamInv
<1>12. ASSUME NEW q \in Receivers \ {r} PROVE StreamInv(q)'
  BY <1>0, <1>2, <1>5, <1>8, <1>10 DEF StreamsInv, StreamInv
<1>13. ASSUME NEW p \in Receivers, NEW q \in Receivers, p # q PROVE Apart(p, q)'
  BY <1>0, <1>1, <1>2, <1>6, <1>8, <1>13 DEF StreamsInv, Apart
<1> QED
  BY <1>9, <1>11, <1>12, <1>13 DEF StreamsInv

\* What a receiver takes from its inbox is later than all it has taken.
LEMMA ReceiveStreams ==
  ASSUME AllTypes, DeliveryInv, NEW r \in Receivers, Receive(r)
  PROVE  StreamsInv'
<1> DEFINE head == Head(inbox[r])
           tail == Tail(inbox[r])
<1>0. ReceiverTypes /\ StreamsInv /\ StreamInv(r)
  BY DEF AllTypes, DeliveryInv, StreamsInv
<1>1. /\ inbox[r] # <<>> /\ inbox[r] \in Seq(Texts) /\ head \in Texts
      /\ inbox' = [inbox EXCEPT ![r] = tail] /\ received' = [received EXCEPT ![r] = Append(@, head)]
      /\ UNCHANGED <<reader, published, returned, cached, queues>>
  BY <1>0, ReceiveFacts
<1>3. /\ tail \in Seq(Texts) /\ Range(inbox[r]) = Range(tail) \cup {head}
      /\ Ascending(tail, returned) /\ Earlier({head}, Range(tail), returned)
  BY <1>0, <1>1, AscendingTail DEF StreamInv
<1> HIDE DEF head, tail
<1>4. /\ inbox'[r] = tail /\ \A q \in Receivers \ {r} : inbox'[q] = inbox[q]
      /\ received'[r] = Append(received[r], head) /\ \A q \in Receivers \ {r} : received'[q] = received[q]
      /\ received[r] \in Seq(Texts)
  BY <1>0, <1>1 DEF ReceiverTypes
<1>5. Earlier(Range(received[r]), {head}, returned) /\ Earlier(Range(received[r]), Range(tail), returned)
  BY <1>0, <1>3 DEF StreamInv, Earlier
<1>6. /\ Ascending(received'[r], returned) /\ Range(received'[r]) = Range(received[r]) \cup {head}
  <2>1. Ascending(received[r], returned)
    BY <1>0 DEF StreamInv
  <2>2. /\ Ascending(Append(received[r], head), returned)
        /\ Range(Append(received[r], head)) = Range(received[r]) \cup {head}
    BY <1>1, <1>4, <1>5, <2>1, AscendingAppend
  <2> QED
    BY <1>4, <2>2
<1>7. \A q \in Receivers : Gone(q)' = Gone(q)
  BY <1>3, <1>4, <1>6 DEF Gone
<1>8. StreamInv(r)'
  <2>1. Earlier(Range(received'[r]), Range(tail), returned)
    BY <1>3, <1>5, <1>6 DEF Earlier
  <2>2. reader[r] # Null
    BY <1>0, <1>1 DEF StreamInv
  <2> QED
    BY <1>0, <1>1, <1>3, <1>4, <1>6, <1>7, <2>1, <2>2 DEF StreamInv
<1>9. ASSUME NEW q \in Receivers \ {r} PROVE StreamInv(q)'
  BY <1>0, <1>1, <1>4, <1>7 DEF StreamsInv, StreamInv
<1>10. \A m \in Names : QueueInv(m)'
  BY <1>0, <1>1 DEF QueueInv, StreamsInv
<1>11. \A p, q \in Receivers : p # q => Apart(p, q)'
  BY <1>0, <1>1, <1>7 DEF Apart, StreamsInv
<1> QED
  BY <1>8, <1>9, <1>10, <1>11 DEF StreamsInv

\* What a closed consumer gives back comes late for those who have taken later texts, and is
\* with none of them.
LEMMA CloseStreams ==
  ASSUME AllTypes, DeliveryInv, NEW r \in Receivers, ComsumerClose(r)
  PROVE  StreamsInv'
<1>0. ReceiverTypes /\ StreamsInv
  BY DEF AllTypes, DeliveryInv
<1>1. /\ UNCHANGED <<cached, published, reader, received>> /\ returned \subseteq returned'
      /\ inbox'[r] = <<>> /\ \A q \in Receivers \ {r} : inbox'[q] = inbox[q]
  <2>1. /\ UNCHANGED <<cached, published, reader, received>> /\ returned \subseteq returned'
        /\ inbox' = [inbox EXCEPT ![r] = <<>>]
    BY <1>0, CloseFacts
  <2> QED
    BY <1>0, <2>1 DEF ReceiverTypes
<1>2. Gone(r)' = Range(received[r]) /\ \A q \in Receivers \ {r} : Gone(q)' = Gone(q)
  BY <1>1, EmptyRange DEF Gone
<1>3. \A q \in Receivers : Gone(q)' \subseteq Gone(q)
  BY <1>2 DEF Gone
<1>4. ASSUME NEW q \in Receivers,
             \A n \in Names : reader[q] = <<"queue", n>> => Earlier(Gone(q)', Range(queues'[n]), returned')
      PROVE  StreamInv(q)'
  <2>1. StreamInv(q)
    BY <1>0 DEF StreamsInv
  <2>2. Ascending(received[q], returned') /\ Ascending(inbox[q], returned')
        /\ Earlier(Range(received[q]), Range(inbox[q]), returned')
    BY <1>1, <2>1, MoreLate DEF StreamInv
  <2>3. \A u \in Gone(q)' : u \in published' /\ cached'[u.from] = reader'[q]
    BY <1>1, <1>3, <2>1 DEF StreamInv
  <2>4. inbox'[q] = inbox[q] \/ inbox'[q] = <<>>
    BY <1>1
  <2>5. Ascending(inbox'[q], returned') /\ Earlier(Range(received[q]), Range(inbox'[q]), returned')
    BY <2>2, <2>4, EmptyRange DEF Earlier
  <2> QED
    BY <1>1, <1>4, <2>1, <2>2, <2>3, <2>4, <2>5 DEF StreamInv
<1>5. \A p, q \in Receivers : p # q => Apart(p, q)'
  BY <1>0, <1>1, <1>3 DEF Apart, StreamsInv
<1>6. CASE UNCHANGED <<queues, returned>>
  <2>1. \A n \in Names : QueueInv(n)'
    BY <1>0, <1>1, <1>6 DEF QueueInv, StreamsInv
  <2>2. ASSUME NEW q \in Receivers, NEW n \in Names, reader[q] = <<"queue", n>>
        PROVE  Earlier(Gone(q)', Range(queues'[n]), returned')
    BY <1>0, <1>3, <1>6, <2>2 DEF StreamsInv, StreamInv, Earlier
  <2> QED
    BY <1>4, <1>5, <2>1, <2>2 DEF StreamsInv
<1>7. CASE /\ returned' = returned \cup Range(inbox[r])
           /\ \E n \in Names : /\ reader[r] = <<"queue", n>>
                               /\ queues' = [queues EXCEPT ![n] = inbox[r] \o @]
  <2>1. PICK n \in Names : reader[r] = <<"queue", n>> /\ queues' = [queues EXCEPT ![n] = inbox[r] \o @]
    BY <1>7
  <2>2. StreamInv(r) /\ QueueInv(n) /\ inbox[r] \in Seq(Texts) /\ queues[n] \in Seq(Texts)
    BY <1>0 DEF StreamsInv, ReceiverTypes
  <2>3. /\ Ascending(inbox[r], returned') /\ Ascending(queues[n], returned')
        /\ Earlier(Gone(r), Range(queues[n]), returned')
    BY <1>1, <2>1, <2>2, MoreLate DEF StreamInv, QueueInv
  <2>4. queues'[n] = inbox[r] \o queues[n] /\ \A m \in Names \ {n} : queues'[m] = queues[m]
    BY <1>0, <2>1 DEF ReceiverTypes
  <2>5. Ascending(queues'[n], returned') /\ Range(queues'[n]) = Range(inbox[r]) \cup Range(queues[n])
    <3>1. Earlier(Range(inbox[r]), Range(queues[n]), returned')
      BY <2>3 DEF Earlier, Gone
    <3> QED
      BY <2>2, <2>3, <2>4, <3>1, AscendingConcat
  <2>6. ASSUME NEW m \in Names PROVE QueueInv(m)'
    <3>1. CASE m = n
      BY <1>1, <2>1, <2>2, <2>5, <3>1 DEF QueueInv, StreamInv, Gone
    <3>2. CASE m # n
      <4>1. QueueInv(m) /\ queues'[m] = queues[m]
        BY <1>0, <2>4, <3>2 DEF StreamsInv
      <4> QED
        BY <1>1, <4>1, MoreLate DEF QueueInv
    <3> QED
      BY <3>1, <3>2
  <2>7. ASSUME NEW q \in Receivers, NEW m \in Names, reader[q] = <<"queue", m>>
        PROVE  Earlier(Gone(q)', Range(queues'[m]), returned')
    <3>1. Earlier(Gone(q)', Range(queues[m]), returned')
      <4>1. Earlier(Gone(q), Range(queues[m]), returned)
        BY <1>0, <2>7 DEF StreamsInv, StreamInv
      <4>2. Earlier(Gone(q), Range(queues[m]), returned')
        BY <1>1, <4>1, MoreLate
      <4> QED
        BY <1>3, <4>2 DEF Earlier
    <3>2. CASE m # n
      BY <2>4, <3>1, <3>2
    <3>3. CASE m = n /\ q # r
      <4>1. Gone(q)' \cap Range(inbox[r]) = {}
        BY <1>0, <1>3, <2>1, <2>7, <3>3 DEF StreamsInv, Apart, Gone
      <4>2. Earlier(Gone(q)', Range(inbox[r]), returned')
        BY <1>7, <4>1 DEF Earlier, Follows
      <4> QED
        BY <2>5, <3>1, <3>3, <4>2 DEF Earlier
    <3>4. CASE m = n /\ q = r
      <4>1. Earlier(Range(received[r]), Range(inbox[r]), returned')
        BY <1>1, <2>2, MoreLate DEF StreamInv
      <4> QED
        BY <1>2, <2>5, <3>1, <3>4, <4>1 DEF Earlier
    <3> QED
      BY <3>2, <3>3, <3>4
  <2> QED
    BY <1>4, <1>5, <2>6, <2>7 DEF StreamsInv
<1> QED
  BY <1>0, <1>6, <1>7, CloseFacts

LEMMA NextDeliveryInv == AllTypes /\ DeliveryInv /\ [Next]_vars => DeliveryInv'
<1> SUFFICES ASSUME AllTypes, DeliveryInv, [Next]_vars PROVE DeliveryInv'
  OBVIOUS
<1>1. ReceiverTypes /\ StreamsInv
  BY DEF AllTypes, DeliveryInv
<1>2. CASE ProducterInit \/ ProducterClose \/ (\E s \in Senders : Sender(s))
  <2>1. ASSUME UNCHANGED broker PROVE StreamsInv'
    BY <1>2, <2>1, ProducerSteps, QuietStreams
  <2>2. ASSUME ~UNCHANGED broker PROVE StreamsInv'
    <3>1. Publish /\ UNCHANGED <<reader, received>>
      BY <1>2, <2>2, ProducerSteps
    <3>2. UNCHANGED cached
      BY <1>2, <2>2 DEF ProducterInit, ProducterClose, Sender, SendMessage, Send, SendFails, Commit, CommitFails
    <3> QED
      BY <3>1, <3>2, PublishStreams
  <2> QED
    BY <2>1, <2>2, LaterStep DEF DeliveryInv
<1>3. ASSUME NEW r \in Receivers, ComsumerInit(r) \/ Handle(r) \/ HandleFails(r) PROVE StreamsInv'
  BY <1>3, QuietStreams DEF ComsumerInit, Handle, HandleFails, producer, broker
<1>4. ASSUME NEW r \in Receivers, NEW dest \in Dests, GetMessage(r, dest) PROVE StreamsInv'
  <2>1. /\ UNCHANGED <<cached, published, returned, queues, inbox, received>>
        /\ reader' = [reader EXCEPT ![r] = ReaderFor(r, dest)]
    BY <1>4 DEF GetMessage, producer
  <2>2. CASE reader[r] # Null
    <3>1. UNCHANGED reader
      BY <1>1, <2>1, <2>2 DEF ReaderFor, ReceiverTypes
    <3> QED
      BY <2>1, <3>1, QuietStreams DEF broker
  <2>3. CASE reader[r] = Null
    <3>1. received[r] = <<>> /\ inbox[r] = <<>> /\ Gone(r) = {}
      BY <1>1, <2>3, EmptyRange DEF StreamsInv, StreamInv, Gone
    <3>2. reader'[r] = dest /\ dest # Null /\ \A q \in Receivers \ {r} : reader'[q] = reader[q]
      BY <1>1, <2>1, <2>3, NullAssumption DEF ReaderFor, ReceiverTypes
    <3>7. \A q \in Receivers : Gone(q)' = Gone(q)
      BY <2>1 DEF Gone
    <3>3. StreamInv(r)'
      BY <2>1, <3>1, <3>2, <3>7, EmptyRange DEF StreamInv, Earlier
    <3>4. \A q \in Receivers \ {r} : StreamInv(q)'
      BY <1>1, <2>1, <3>2, <3>7 DEF StreamInv, StreamsInv
    <3>5. \A p, q \in Receivers : p # q => Apart(p, q)'
      <4> SUFFICES ASSUME NEW p \in Receivers, NEW q \in Receivers, p # q PROVE Apart(p, q)'
        OBVIOUS
      <4>1. CASE p = r \/ q = r
        BY <3>1, <3>7, <4>1 DEF Apart
      <4>2. CASE p # r /\ q # r
        BY <1>1, <3>2, <3>7, <4>2 DEF Apart, StreamsInv
      <4> QED
        BY <4>1, <4>2
    <3>6. \A n \in Names : QueueInv(n)'
      BY <1>1, <2>1 DEF QueueInv, StreamsInv
    <3> QED
      BY <3>3, <3>4, <3>5, <3>6 DEF StreamsInv
  <2> QED
    BY <2>2, <2>3
<1>7. CASE UNCHANGED vars
  BY <1>7, LaterStep, QuietStreams DEF vars, broker, DeliveryInv
<1>8. ASSUME NEW r \in Receivers, Receiver(r) PROVE StreamsInv'
  BY <1>3, <1>4, <1>8, DispatchStreams, ReceiveStreams, CloseStreams DEF Receiver
<1> QED
  BY <1>2, <1>7, <1>8, LaterStep DEF Next, DeliveryInv

LEMMA DeliveryInvariance == Spec => [](ReceiverTypes /\ DeliveryInv)
<1>1. Spec => []ReceiverTypes
  BY InitReceiverTypes, NextReceiverTypes, Invariance, PTL DEF Spec
<1>2. IInv /\ ReceiverTypes => AllTypes
  BY DEF AllTypes
<1> QED
  BY <1>1, <1>2, InitDeliveryInv, NextDeliveryInv, Invariance, PTL DEF Spec

\* What a receiver has been given and what waits for it is in order.
LEMMA StreamAscending ==
  ASSUME ReceiverTypes, DeliveryInv, NEW r \in Receivers
  PROVE  Stream(r) \in Seq(Texts) /\ Ascending(Stream(r), returned) /\ Range(Stream(r)) = Gone(r)
<1>1. received[r] \in Seq(Texts) /\ inbox[r] \in Seq(Texts) /\ StreamInv(r)
  BY DEF ReceiverTypes, DeliveryInv, StreamsInv
<1> QED
  BY <1>1, AscendingConcat DEF StreamInv, Stream, Gone

\* A receiver sees the texts of one sender in the order they were sent, those still in its
\* queue included, but for what a closed consumer gave back, whatever fails and however the
\* threads share their session and the consumers their queue.
THEOREM OrderKept == Spec => []InOrder
<1>1. ASSUME ReceiverTypes, DeliveryInv PROVE InOrder
  <2> SUFFICES ASSUME NEW r \in Receivers PROVE Ascending(Stream(r) \o Ahead(r), returned)
    BY DEF InOrder, Ascending, Follows
  <2>1. StreamInv(r) /\ Stream(r) \in Seq(Texts) /\ Ascending(Stream(r), returned) /\ Range(Stream(r)) = Gone(r)
    BY <1>1, StreamAscending DEF DeliveryInv, StreamsInv
  <2>2. CASE reader[r] # Null /\ reader[r][1] = "queue"
    <3> DEFINE n == reader[r][2]
    <3>1. n \in Names /\ reader[r] = <<"queue", n>>
      BY <1>1, <2>2, DestFields DEF ReceiverTypes
    <3>2. /\ queues[n] \in Seq(Texts) /\ Ascending(queues[n], returned)
          /\ Earlier(Gone(r), Range(queues[n]), returned)
      BY <1>1, <2>1, <3>1 DEF ReceiverTypes, DeliveryInv, StreamsInv, QueueInv, StreamInv
    <3>4. Ascending(Stream(r) \o queues[n], returned)
      BY <2>1, <3>2, AscendingConcat
    <3> QED
      BY <2>2, <3>4 DEF Ahead
  <2>3. CASE ~(reader[r] # Null /\ reader[r][1] = "queue")
    <3>1. Stream(r) \o <<>> = Stream(r)
      BY <2>1, ConcatEmptySeq
    <3> QED
      BY <2>1, <2>3, <3>1 DEF Ahead
  <2> QED
    BY <2>2, <2>3
<1>2. ReceiverTypes /\ DeliveryInv => InOrder
  BY <1>1
<1> QED
  BY <1>2, DeliveryInvariance, PTL

\* No text is given twice to a receiver, and none that left a queue to two receivers, although
\* a commit that fails may have been carried out and a closed consumer gives texts back.
THEOREM DeliveredOnce == Spec => []AtMostOnce
<1>1. ASSUME ReceiverTypes, DeliveryInv PROVE AtMostOnce
  <2>1. \A r \in Receivers : IsInjective(Stream(r))
    <3> SUFFICES ASSUME NEW r \in Receivers, NEW i \in DOMAIN Stream(r), NEW j \in DOMAIN Stream(r),
                        Stream(r)[i] = Stream(r)[j], i < j
                 PROVE  FALSE
      <4>1. \A r \in Receivers : \A i \in DOMAIN Stream(r) : i \in Nat
        BY <1>1, StreamAscending, InRange
      <4> QED
        BY <4>1 DEF IsInjective
    <3> QED
      BY <1>1, StreamAscending DEF Ascending, Follows
  <2>2. ASSUME NEW r \in Receivers, NEW q \in Receivers, r # q,
               NEW u \in Range(Stream(r)) \cap Range(Stream(q))
        PROVE  reader[r][1] = "topic"
    <3>0. u \in Gone(r) /\ u \in Gone(q)
      BY <1>1, <2>2, StreamAscending
    <3>1. reader[r] # Null /\ reader[r] = reader[q]
      BY <1>1, <3>0, EmptyRange DEF DeliveryInv, StreamsInv, StreamInv, Gone
    <3>2. CASE reader[r][1] = "queue"
      <4>1. \E n \in Names : reader[r] = <<"queue", n>>
        BY <1>1, <3>1, <3>2, DestFields DEF ReceiverTypes
      <4> QED
        BY <1>1, <2>2, <3>0, <3>1, <4>1 DEF DeliveryInv, StreamsInv, Apart
    <3> QED
      BY <1>1, <3>1, <3>2, DestFields DEF ReceiverTypes
  <2>3. ASSUME NEW r \in Receivers, NEW n \in Names, NEW u \in Range(Stream(r)) \cap Range(queues[n])
        PROVE  FALSE
    <3>1. QueueInv(n) /\ StreamInv(r) /\ u \in Gone(r) /\ u \in Range(queues[n])
      BY <1>1, <2>3, StreamAscending DEF DeliveryInv, StreamsInv
    <3>2. reader[r] = <<"queue", n>>
      BY <3>1 DEF StreamInv, QueueInv
    <3> QED
      BY <3>1, <3>2 DEF StreamInv, Earlier, Follows
  <2> QED
    BY <2>1, <2>2, <2>3 DEF AtMostOnce
<1>2. ReceiverTypes /\ DeliveryInv => AtMostOnce
  BY <1>1
<1> QED
  BY <1>2, DeliveryInvariance, PTL

-----------------------------------------------------------------------------
(* Subscribers of one topic. *)

Ends(s, t) == Len(s) <= Len(t) /\ \A i \in 1 .. Len(s) : s[i] = t[Len(t) - Len(s) + i]

LEMMA SuffixEnds ==
  ASSUME NEW s \in Seq(Texts), NEW t \in Seq(Texts)
  PROVE  IsSuffix(s, t) <=> Ends(s, t)
<1> DEFINE rs == Reverse(s)
           rt == Reverse(t)
<1>1. Len(s) \in Nat /\ Len(t) \in Nat
  OBVIOUS
<1>2. /\ rs \in Seq(Texts) /\ Len(rs) = Len(s) /\ \A i \in 1 .. Len(s) : rs[i] = s[Len(s) - i + 1]
      /\ rt \in Seq(Texts) /\ Len(rt) = Len(t) /\ \A i \in 1 .. Len(t) : rt[i] = t[Len(t) - i + 1]
  BY DEF Reverse
<1> HIDE DEF rs, rt
<1>3. IsSuffix(s, t) <=> Len(s) <= Len(t) /\ SubSeq(rs, 1, Len(s)) = SubSeq(rt, 1, Len(s))
  BY <1>2 DEF IsSuffix, IsPrefix, rs, rt
<1>4. ASSUME Len(s) <= Len(t)
      PROVE  SubSeq(rs, 1, Len(s)) = SubSeq(rt, 1, Len(s)) <=> \A i \in 1 .. Len(s) : rs[i] = rt[i]
  <2>1. /\ SubSeq(rs, 1, Len(s)) \in Seq(Texts) /\ SubSeq(rt, 1, Len(s)) \in Seq(Texts)
        /\ Len(SubSeq(rs, 1, Len(s))) = Len(s) /\ Len(SubSeq(rt, 1, Len(s))) = Len(s)
        /\ \A i \in 1 .. Len(s) : SubSeq(rs, 1, Len(s))[i] = rs[i] /\ SubSeq(rt, 1, Len(s))[i] = rt[i]
    BY <1>1, <1>2, <1>4
  <2> QED
    BY <2>1, SeqEqual
<1>5. ASSUME Len(s) <= Len(t)
      PROVE  (\A i \in 1 .. Len(s) : rs[i] = rt[i]) <=> \A i \in 1 .. Len(s) : s[i] = t[Len(t) - Len(s) + i]
  <2>1. ASSUME NEW i \in 1 .. Len(s)
        PROVE  LET j == Len(s) - i + 1
               IN  j \in 1 .. Len(s) /\ rs[j] = s[i] /\ rt[j] = t[Len(t) - Len(s) + i]
    <3> DEFINE j == Len(s) - i + 1
    <3>1. /\ j \in 1 .. Len(s) /\ j \in 1 .. Len(t) /\ Len(s) - j + 1 = i
          /\ Len(t) - j + 1 = Len(t) - Len(s) + i
      BY <1>1, <1>5
    <3> HIDE DEF j
    <3>2. rs[j] = s[i] /\ rt[j] = t[Len(t) - Len(s) + i]
      BY <1>2, <3>1
    <3> QED
      BY <3>1, <3>2 DEF j
  <2>2. ASSUME NEW j \in 1 .. Len(s)
        PROVE  LET i == Len(s) - j + 1
               IN  i \in 1 .. Len(s) /\ rs[j] = s[i] /\ rt[j] = t[Len(t) - Len(s) + i]
    <3> DEFINE i == Len(s) - j + 1
    <3>1. i \in 1 .. Len(s) /\ j \in 1 .. Len(t) /\ Len(t) - j + 1 = Len(t) - Len(s) + i
      BY <1>1, <1>5
    <3>2. rs[j] = s[i] /\ rt[j] = t[Len(t) - Len(s) + i]
      BY <1>2, <3>1
    <3> QED
      BY <3>1, <3>2
  <2>3. ASSUME \A i \in 1 .. Len(s) : rs[i] = rt[i], NEW i \in 1 .. Len(s)
        PROVE  s[i] = t[Len(t) - Len(s) + i]
    <3> DEFINE j == Len(s) - i + 1
    <3>1. j \in 1 .. Len(s) /\ rs[j] = s[i] /\ rt[j] = t[Len(t) - Len(s) + i]
      BY <2>1
    <3> HIDE DEF j
    <3> QED
      BY <2>3, <3>1
  <2>4. ASSUME \A i \in 1 .. Len(s) : s[i] = t[Len(t) - Len(s) + i], NEW j \in 1 .. Len(s)
        PROVE  rs[j] = rt[j]
    <3> DEFINE i == Len(s) - j + 1
    <3>1. i \in 1 .. Len(s) /\ rs[j] = s[i] /\ rt[j] = t[Len(t) - Len(s) + i]
      BY <2>2
    <3> HIDE DEF i
    <3> QED
      BY <2>4, <3>1
  <2> QED
    BY <2>3, <2>4
<1> QED
  BY <1>3, <1>4, <1>5 DEF Ends

LEMMA EndsConcat ==
  ASSUME NEW s \in Seq(Texts), NEW t \in Seq(Texts), NEW more \in Seq(Texts), Ends(s, t)
  PROVE  Ends(s \o more, t \o more)
<1>1. /\ Len(s) \in Nat /\ Len(t) \in Nat /\ Len(more) \in Nat /\ Len(s) <= Len(t)
      /\ Len(s \o more) = Len(s) + Len(more) /\ Len(t \o more) = Len(t) + Len(more)
      /\ \A i \in 1 .. Len(s) + Len(more) : (s \o more)[i] = IF i <= Len(s) THEN s[i] ELSE more[i - Len(s)]
      /\ \A i \in 1 .. Len(t) + Len(more) : (t \o more)[i] = IF i <= Len(t) THEN t[i] ELSE more[i - Len(t)]
  BY ConcatProperties DEF Ends
<1>2. ASSUME NEW i \in 1 .. Len(s) + Len(more)
      PROVE  (s \o more)[i] = (t \o more)[Len(t) - Len(s) + i]
  <2>1. Len(t) - Len(s) + i \in 1 .. Len(t) + Len(more)
    BY <1>1
  <2>2. CASE i <= Len(s)
    BY <1>1, <2>1, <2>2 DEF Ends
  <2>3. CASE i > Len(s)
    <3>1. Len(t) - Len(s) + i > Len(t) /\ (Len(t) - Len(s) + i) - Len(t) = i - Len(s)
      BY <1>1, <2>3
    <3> QED
      BY <1>1, <2>1, <2>3, <3>1
  <2> QED
    BY <1>1, <2>2, <2>3
<1> QED
  BY <1>1, <1>2 DEF Ends

Subscriber(r) == reader[r] # Null /\ reader[r][1] = "topic" /\ recv[r].at # "closed"

Agree(r, q) ==
  Subscriber(r) /\ Subscriber(q) /\ reader[r] = reader[q] =>
    Ends(Stream(r), Stream(q)) \/ Ends(Stream(q), Stream(r))

\* A step that appends the same to the streams of two subscribers lets them agree.
LEMMA AgreeStep ==
  ASSUME ReceiverTypes, NEW r \in Receivers, NEW q \in Receivers, Agree(r, q),
         Subscriber(r)' => Subscriber(r), Subscriber(q)' => Subscriber(q),
         UNCHANGED <<reader[r], reader[q]>>,
         NEW more \in Seq(Texts), Stream(r)' = Stream(r) \o more, Stream(q)' = Stream(q) \o more
  PROVE  Agree(r, q)'
<1>1. Stream(r) \in Seq(Texts) /\ Stream(q) \in Seq(Texts)
  BY ConcatProperties DEF ReceiverTypes, Stream
<1> HIDE DEF Stream
<1>2. Ends(Stream(r), Stream(q)) => Ends(Stream(r)', Stream(q)')
  BY <1>1, EndsConcat
<1>3. Ends(Stream(q), Stream(r)) => Ends(Stream(q)', Stream(r)')
  BY <1>1, EndsConcat
<1> QED
  BY <1>2, <1>3 DEF Agree

LEMMA ConcatOfTexts ==
  ASSUME NEW s \in Seq(Texts), NEW t \in Seq(Texts)
  PROVE  /\ s \o t \in Seq(Texts) /\ Len(s \o t) = Len(s) + Len(t)
         /\ \A i \in 1 .. Len(s) + Len(t) : (s \o t)[i] = IF i <= Len(s) THEN s[i] ELSE t[i - Len(s)]
BY ConcatProperties

LEMMA OneAndRest ==
  ASSUME NEW s \in Seq(Texts), NEW one \in Seq(Texts), NEW tail \in Seq(Texts),
         Len(one) = 1, Len(tail) = Len(s) - 1, one[1] = s[1],
         \A i \in 1 .. Len(s) - 1 : tail[i] = s[i + 1]
  PROVE  one \o tail = s
<1>1. /\ one \o tail \in Seq(Texts) /\ Len(one \o tail) = Len(one) + Len(tail)
      /\ \A i \in 1 .. Len(one) + Len(tail) :
           (one \o tail)[i] = IF i <= Len(one) THEN one[i] ELSE tail[i - Len(one)]
  BY ConcatOfTexts
<1> DEFINE both == one \o tail
<1>2. both \in Seq(Texts) /\ Len(both) = Len(s)
  BY <1>1
<1>3. ASSUME NEW i \in 1 .. Len(s) PROVE both[i] = s[i]
  <2>1. CASE i = 1
    BY <1>1, <2>1
  <2>2. CASE i # 1
    <3>1. Len(s) \in Nat /\ i - 1 \in 1 .. Len(s) - 1 /\ ~(i <= 1) /\ (i - 1) + 1 = i
      BY <2>2
    <3> QED
      BY <1>1, <3>1
  <2> QED
    BY <2>1, <2>2
<1> HIDE DEF both
<1>4. both = s
  BY <1>2, <1>3, SeqEqual
<1> QED
  BY <1>4 DEF both

LEMMA ConcatAgain ==
  ASSUME NEW s \in Seq(Texts), NEW t \in Seq(Texts), NEW u \in Seq(Texts)
  PROVE  s \o (t \o u) = (s \o t) \o u
BY ConcatAssociative

\* What a receiver takes from its inbox stays in its stream.
LEMMA TakingKeepsStream ==
  ASSUME NEW given \in Seq(Texts), NEW waiting \in Seq(Texts), waiting # <<>>
  PROVE  Append(given, Head(waiting)) \o Tail(waiting) = given \o waiting
<1> DEFINE one == <<Head(waiting)>>
<1>1. /\ Len(waiting) \in Nat \ {0} /\ Head(waiting) = waiting[1] /\ Head(waiting) \in Texts
      /\ Tail(waiting) \in Seq(Texts) /\ Len(Tail(waiting)) = Len(waiting) - 1
      /\ \A i \in 1 .. Len(waiting) - 1 : Tail(waiting)[i] = waiting[i + 1]
  BY EmptySeq, HeadTailProperties
<1>2. one \in Seq(Texts) /\ Len(one) = 1 /\ one[1] = waiting[1]
  BY <1>1
<1>3. Append(given, Head(waiting)) = given \o one
  BY <1>1, AppendIsConcat
<1> HIDE DEF one
<1>4. one \o Tail(waiting) = waiting
  BY <1>1, <1>2, OneAndRest
<1>5. (given \o one) \o Tail(waiting) = given \o (one \o Tail(waiting))
  BY <1>1, <1>2, ConcatAssociative
<1> QED
  BY <1>3, <1>4, <1>5

\* The receivers of a topic agree after a step that leaves receivers and streams alone.
LEMMA QuietAgree ==
  ASSUME ReceiverTypes, NEW r \in Receivers, NEW q \in Receivers, Agree(r, q),
         Subscriber(r)' => Subscriber(r), Subscriber(q)' => Subscriber(q),
         reader'[r] = reader[r], reader'[q] = reader[q],
         Subscriber(r)' => Stream(r)' = Stream(r), Subscriber(q)' => Stream(q)' = Stream(q)
  PROVE  Agree(r, q)'
BY DEF Agree

LEMMA NextAgree ==
  ASSUME AllTypes, DeliveryInv, [Next]_vars, \A r, q \in Receivers : Agree(r, q)
  PROVE  \A r, q \in Receivers : Agree(r, q)'
<1> SUFFICES ASSUME NEW r \in Receivers, NEW q \in Receivers PROVE Agree(r, q)'
  OBVIOUS
<1>1. ReceiverTypes /\ SenderTypes /\ Agree(r, q)
  BY DEF AllTypes, IInv
<1>2. ASSUME UNCHANGED <<reader, received, inbox>>, \A x \in Receivers : recv'[x].at # "closed" => recv[x].at # "closed"
      PROVE  Agree(r, q)'
  BY <1>1, <1>2, QuietAgree DEF Subscriber, Stream
<1>3. CASE ProducterInit \/ ProducterClose \/ (\E s \in Senders : Sender(s))
  <2>1. CASE Publish
    <3>1. /\ UNCHANGED <<reader, recv, received>>
          /\ \A x \in Receivers : inbox'[x] = IF reader[x] \in Dests /\ reader[x][1] = "topic" /\ recv[x].at # "closed"
                                               THEN inbox[x] \o tx[reader[x]] ELSE inbox[x]
      BY <1>1, <1>3, <2>1, ProducerSteps, PublishFacts
    <3>2. ASSUME Subscriber(r), Subscriber(q), reader[r] = reader[q] PROVE Agree(r, q)'
      <4> DEFINE more == tx[reader[r]]
      <4>1. reader[r] \in Dests
        BY <1>1, <3>2 DEF Subscriber, ReceiverTypes
      <4>2. more \in Seq(Texts)
        BY <1>1, <4>1, TxElements
      <4>3. inbox'[r] = inbox[r] \o more /\ inbox'[q] = inbox[q] \o more
        BY <3>1, <3>2, <4>1 DEF Subscriber
      <4> HIDE DEF more
      <4>4. Stream(r)' = Stream(r) \o more /\ Stream(q)' = Stream(q) \o more
        <5>1. ASSUME NEW y \in Receivers, inbox'[y] = inbox[y] \o more PROVE Stream(y)' = Stream(y) \o more
          <6>1. received[y] \in Seq(Texts) /\ inbox[y] \in Seq(Texts) /\ received'[y] = received[y]
            BY <1>1, <3>1 DEF ReceiverTypes
          <6>2. received[y] \o (inbox[y] \o more) = (received[y] \o inbox[y]) \o more
            BY <6>1, <4>2, ConcatAgain
          <6> QED
            BY <5>1, <6>1, <6>2 DEF Stream
        <5> QED
          BY <4>3, <5>1
      <4> QED
        BY <1>1, <3>1, <3>2, <4>2, <4>4, AgreeStep
    <3> QED
      BY <3>1, <3>2 DEF Agree, Subscriber
  <2> QED
    BY <1>2, <1>3, <2>1, ProducerSteps DEF broker
<1>4. ASSUME NEW x \in Receivers, ComsumerInit(x) \/ Handle(x) \/ HandleFails(x) PROVE Agree(r, q)'
  <2>1. UNCHANGED <<reader, received, inbox>>
    BY <1>4 DEF ComsumerInit, Handle, HandleFails
  <2>2. \A y \in Receivers : recv'[y].at # "closed" => recv[y].at # "closed"
    BY <1>1, <1>4 DEF ComsumerInit, Handle, HandleFails, ReceiverTypes
  <2> QED
    BY <1>2, <2>1, <2>2
<1>5. ASSUME NEW x \in Receivers, NEW dest \in Dests, GetMessage(x, dest) PROVE Agree(r, q)'
  <2>1. /\ UNCHANGED <<received, inbox>> /\ reader' = [reader EXCEPT ![x] = ReaderFor(x, dest)]
        /\ \A y \in Receivers : recv'[y].at # "closed" => recv[y].at # "closed"
    BY <1>1, <1>5 DEF GetMessage, ReceiverTypes
  <2>2. CASE reader[x] # Null
    BY <1>1, <1>2, <2>1, <2>2 DEF ReaderFor, ReceiverTypes
  <2>3. CASE reader[x] = Null
    <3>1. \A y \in Receivers : Stream(y)' = Stream(y)
      BY <2>1 DEF Stream
    <3>2. ASSUME NEW y \in Receivers, reader[y] = Null, NEW z \in Receivers
          PROVE  Stream(y) = <<>> /\ Ends(Stream(y), Stream(z))
      <4>1. received[y] = <<>> /\ inbox[y] = <<>>
        BY <3>2 DEF DeliveryInv, StreamsInv, StreamInv
      <4>2. Stream(y) = <<>> /\ Len(Stream(y)) = 0
        BY <4>1 DEF Stream
      <4>3. Stream(z) \in Seq(Texts)
        BY <1>1, StreamAscending
      <4> HIDE DEF Stream
      <4> QED
        BY <4>2, <4>3 DEF Ends
    <3>3. CASE r = x \/ q = x
      BY <2>3, <3>1, <3>2, <3>3 DEF Agree
    <3>4. CASE r # x /\ q # x
      BY <1>1, <2>1, <3>1, <3>4, QuietAgree DEF Subscriber
    <3> QED
      BY <3>3, <3>4
  <2> QED
    BY <2>2, <2>3
<1>6. ASSUME NEW x \in Receivers, Receive(x) PROVE Agree(r, q)'
  <2>2. /\ UNCHANGED reader /\ inbox[x] # <<>> /\ recv[x].at = "receive"
        /\ received' = [received EXCEPT ![x] = Append(@, Head(inbox[x]))]
        /\ inbox' = [inbox EXCEPT ![x] = Tail(inbox[x])]
        /\ recv' = [recv EXCEPT ![x].at = "handle", ![x].got = Head(inbox[x])]
    BY <1>1, <1>6, ReceiveFacts
  <2>3. \A y \in Receivers : recv'[y].at # "closed" => recv[y].at # "closed"
    BY <1>1, <2>2 DEF ReceiverTypes
  <2>4. \A y \in Receivers \ {x} : Stream(y)' = Stream(y)
    BY <1>1, <2>2 DEF Stream, ReceiverTypes
  <2>5. Stream(x)' = Stream(x)
    <3>1. inbox'[x] = Tail(inbox[x]) /\ received'[x] = Append(received[x], Head(inbox[x]))
      BY <1>1, <2>2 DEF ReceiverTypes
    <3> QED
      BY <1>1, <2>2, <3>1, TakingKeepsStream DEF Stream, ReceiverTypes
  <2>6. \A y \in Receivers : /\ Subscriber(y)' => Subscriber(y)
                             /\ Subscriber(y)' => Stream(y)' = Stream(y)
    BY <2>2, <2>3, <2>4, <2>5 DEF Subscriber
  <2>7. reader'[r] = reader[r] /\ reader'[q] = reader[q]
    BY <2>2
  <2> HIDE DEF Subscriber, Stream, Agree
  <2> QED
    BY <1>1, <2>6, <2>7, QuietAgree
<1>7. ASSUME NEW x \in Receivers, ComsumerClose(x) PROVE Agree(r, q)'
  <2>1. /\ UNCHANGED <<reader, received>> /\ recv'[x].at = "closed"
        /\ \A y \in Receivers \ {x} : recv'[y] = recv[y] /\ inbox'[y] = inbox[y]
    BY <1>1, <1>7 DEF ComsumerClose, ReceiverTypes
  <2>2. \A y \in Receivers : /\ Subscriber(y)' => Subscriber(y)
                             /\ Subscriber(y)' => Stream(y)' = Stream(y)
    BY <2>1 DEF Subscriber, Stream
  <2>3. reader'[r] = reader[r] /\ reader'[q] = reader[q]
    BY <2>1
  <2> HIDE DEF Subscriber, Stream, Agree
  <2> QED
    BY <1>1, <2>2, <2>3, QuietAgree
<1>9. ASSUME NEW x \in Receivers, Dispatch(x) PROVE Agree(r, q)'
  <2>1. /\ UNCHANGED <<reader, recv, received>> /\ (\E n \in Names : reader[x] = <<"queue", n>>)
        /\ \A y \in Receivers \ {x} : inbox'[y] = inbox[y]
    BY <1>1, <1>9, DispatchFacts DEF ReceiverTypes
  <2>4. ~Subscriber(x)'
    BY <2>1 DEF Subscriber
  <2>5. \A y \in Receivers \ {x} : Stream(y)' = Stream(y)
    BY <2>1 DEF Stream
  <2>6. \A y \in Receivers : Subscriber(y)' => Subscriber(y)
    BY <2>1 DEF Subscriber
  <2>2. \A y \in Receivers : /\ Subscriber(y)' => Subscriber(y)
                             /\ Subscriber(y)' => Stream(y)' = Stream(y)
    BY <2>4, <2>5, <2>6
  <2>3. reader'[r] = reader[r] /\ reader'[q] = reader[q]
    BY <2>1
  <2> HIDE DEF Subscriber, Stream, Agree
  <2> QED
    BY <1>1, <2>2, <2>3, QuietAgree
<1>8. CASE UNCHANGED vars
  BY <1>2, <1>8 DEF vars
<1> QED
  BY <1>3, <1>4, <1>5, <1>6, <1>7, <1>8, <1>9 DEF Next, Receiver

\* Two open subscribers of a topic see the same texts in the same order, but for those
\* published before the later one subscribed.
THEOREM SubscribersAgree == Spec => []TopicStreamsAgree
<1> DEFINE Agreed == \A r, q \in Receivers : Agree(r, q)
<1>1. Init => Agreed
  BY DEF Init, Agree, Subscriber
<1>2. IInv /\ ReceiverTypes /\ DeliveryInv /\ Agreed /\ [Next]_vars => Agreed'
  BY NextAgree DEF AllTypes
<1>3. ASSUME ReceiverTypes, DeliveryInv, Agreed PROVE TopicStreamsAgree
  <2>1. \A r \in Receivers : Stream(r) \in Seq(Texts)
    BY <1>3, StreamAscending
  <2>2. \A r, q \in Receivers : IsSuffix(Stream(r), Stream(q)) <=> Ends(Stream(r), Stream(q))
    BY <2>1, SuffixEnds
  <2> QED
    BY <1>3, <2>2 DEF Agree, Subscriber, TopicStreamsAgree
<1> HIDE DEF Agreed
<1> QED
  BY <1>1, <1>2, <1>3, Invariance, DeliveryInvariance, PTL DEF Spec

-----------------------------------------------------------------------------
(* The socket server, for any number of clients and threads, any buffer and any text. *)

\* A client is done with its output only when the server has been sent the whole text, and
\* nothing is read that has not arrived.
ReadSoFar ==
  \A c \in Clients :
    /\ read[c] <= arrived[c]
    /\ client[c] \in {"waiting", "left"} => arrived[c] = Size

\* A socket is open from its acceptance to the end of the work done on it, or for good if
\* the work failed, which takes a client that is gone.
OpenSockets ==
  \A c \in Clients :
    /\ worker[c] = "done" => c \notin open
    /\ worker[c] = "failed" => client[c] \in {"left", "reset"}

ServerIInv == ServerTypeOK /\ ReadSoFar /\ OpenSockets /\ ReplyAfterWholeText

USE PoolAssumption, AvailableAssumption, TextAssumption DEF Busy

LEMMA ServerInitIInv == ServerInit => ServerIInv
<1> SUFFICES ASSUME ServerInit PROVE ServerIInv
  OBVIOUS
<1>1. ServerTypeOK
  BY DEF ServerInit, ServerTypeOK
<1> QED
  BY <1>1 DEF ServerInit, ServerIInv, ReadSoFar, OpenSockets, ReplyAfterWholeText

\* A step of a client leaves the server's work alone.
LEMMA ClientInv ==
  ASSUME ServerIInv, NEW c \in Clients, Client(c)
  PROVE  ServerIInv'
<1> USE DEF ServerIInv, ServerTypeOK, work
<1>1. CASE Connect(c)
  BY <1>1 DEF Connect, Turn, ReadSoFar, OpenSockets, ReplyAfterWholeText
<1>2. CASE Arrive(c)
  <2>1. PICK n \in arrived[c] + 1..Size : arrived' = [arrived EXCEPT ![c] = n]
    BY <1>2 DEF Arrive
  <2>2. n \in 0..Size /\ n > arrived[c] /\ client[c] = "connected" /\ UNCHANGED <<client, work>>
    BY <1>2 DEF Arrive
  <2>3. ReadSoFar'
    BY <2>1, <2>2 DEF ReadSoFar
  <2> QED
    BY <2>1, <2>2, <2>3 DEF OpenSockets, ReplyAfterWholeText
<1>3. CASE ShutOutput(c)
  BY <1>3 DEF ShutOutput, Turn, ReadSoFar, OpenSockets, ReplyAfterWholeText
<1>4. CASE Reset(c)
  BY <1>4 DEF Reset, Turn, ReadSoFar, OpenSockets, ReplyAfterWholeText
<1> QED
  BY <1>1, <1>2, <1>3, <1>4 DEF Client

\* A read returns no more than has arrived.
LEMMA ReadToBounds ==
  ASSUME ServerIInv, NEW c \in Clients, read[c] < arrived[c]
  PROVE  ReadTo(c) \in read[c]..arrived[c]
<1>1. read[c] \in Nat /\ arrived[c] \in Nat /\ size[c] \in Nat
  BY DEF ServerIInv, ServerTypeOK
<1>2. ASSUME NEW a \in Nat, NEW b \in Nat
      PROVE  Min({a, b}) \in {a, b} /\ Min({a, b}) <= a
  <2>1. \E x \in {a, b} : \A y \in {a, b} : x <= y
    OBVIOUS
  <2> QED
    BY <2>1, Zenon DEF Min
<1>3. arrived[c] \in Nat /\ read[c] + size[c] \in Nat
  BY <1>1
<1>4. ReadTo(c) \in {arrived[c], read[c] + size[c]} /\ ReadTo(c) <= arrived[c]
  BY <1>2, <1>3 DEF ReadTo
<1> QED
  BY <1>1, <1>4

LEMMA WorkInv ==
  ASSUME ServerIInv, NEW c \in Clients, Server(c)
  PROVE  ServerIInv'
<1> USE DEF ServerIInv, ServerTypeOK, Go, conns
<1>1. CASE Accept(c)
  <2>1. Append(backlog, c) \in Seq(Clients)
    BY AppendProperties
  <2> QED
    BY <1>1, <2>1 DEF Accept, ReadSoFar, OpenSockets, ReplyAfterWholeText
<1>2. CASE Begin(c)
  <2>1. Tail(backlog) \in Seq(Clients)
    BY <1>2, HeadTailProperties DEF Begin
  <2> QED
    BY <1>2, <2>1 DEF Begin, ReadSoFar, OpenSockets, ReplyAfterWholeText
<1>3. CASE Buffer(c)
  BY <1>3 DEF Buffer, ReadSoFar, OpenSockets, ReplyAfterWholeText
<1>4. CASE Read(c)
  <2>1. /\ worker[c] = "reading" /\ read[c] < arrived[c]
        /\ read' = [read EXCEPT ![c] = ReadTo(c)]
        /\ UNCHANGED <<client, arrived, worker, backlog, size, open>>
    BY <1>4 DEF Read
  <2>2. ReadTo(c) \in 0..arrived[c] /\ ReadTo(c) \in 0..Size
    BY <2>1, ReadToBounds
  <2> QED
    BY <2>1, <2>2 DEF ReadSoFar, OpenSockets, ReplyAfterWholeText
<1>5. CASE ReadEnd(c)
  BY <1>5 DEF ReadEnd, AtEnd, ReadSoFar, OpenSockets, ReplyAfterWholeText
<1>6. CASE Reply(c)
  BY <1>6 DEF Reply, ReadSoFar, OpenSockets, ReplyAfterWholeText
<1>7. CASE Close(c)
  BY <1>7 DEF Close, Closed, ReadSoFar, OpenSockets, ReplyAfterWholeText
<1>8. CASE Fail(c)
  BY <1>8 DEF Fail, Failing, ReadSoFar, OpenSockets, ReplyAfterWholeText
<1> QED
  BY <1>1, <1>2, <1>3, <1>4, <1>5, <1>6, <1>7, <1>8 DEF Server

LEMMA ServerNextIInv == ServerIInv /\ [ServerNext]_serverVars => ServerIInv'
<1> SUFFICES ASSUME ServerIInv, [ServerNext]_serverVars PROVE ServerIInv'
  OBVIOUS
<1>1. CASE UNCHANGED serverVars
  BY <1>1 DEF serverVars, ServerIInv, ServerTypeOK, ReadSoFar, OpenSockets, ReplyAfterWholeText
<1> QED
  BY <1>1, ClientInv, WorkInv DEF ServerNext

\* The strengthened invariant, for any clients, threads, buffer and text.
THEOREM ServerInvariance == ServerSpec => []ServerIInv
BY ServerInitIInv, ServerNextIInv, PTL DEF ServerSpec

\* The connections and the pool keep their types.
THEOREM ServerTypes == ServerSpec => []ServerTypeOK
<1>1. ServerIInv => ServerTypeOK
  BY DEF ServerIInv
<1> QED
  BY <1>1, ServerInvariance, PTL

\* No client is answered before its whole text has been read.
THEOREM ReplyAfterText == ServerSpec => []ReplyAfterWholeText
<1>1. ServerIInv => ReplyAfterWholeText
  BY DEF ServerIInv
<1> QED
  BY <1>1, ServerInvariance, PTL

\* Only a client that left or broke off makes the server leak its socket.
THEOREM LeakBounded == ServerSpec => []LeakOnlyWhenLeft
<1>1. ServerIInv => LeakOnlyWhenLeft
  BY DEF ServerIInv, ServerTypeOK, OpenSockets, LeakOnlyWhenLeft
<1> QED
  BY <1>1, ServerInvariance, PTL
=============================================================================
