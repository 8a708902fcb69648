---------------------------- MODULE ConnmanProofs ---------------------------
(***************************************************************************)
(* The types of Sv2Connman, the order of what is sent, what a client is    *)
(* sent and when, and the refinement of ClientService, for any number of   *)
(* clients, messages and templates, any size of a message and any faults.  *)
(***************************************************************************)
EXTENDS Sv2Connman, SequenceTheorems, TLAPS

SetupReplies == {"SetupSuccess", "SetupError"}

Buffered == [msg : Replies, left : 1..Parts]

\* Where the sockets thread is, it serves a client of the map, whose handshake is over
\* once a message is handled; nothing is with the transport or in the queue before.
LoopInv ==
  /\ sock = "recv" => id \in Ids
  /\ sock \in {"data", "handle", "size"} => id \in m_sv2_clients
  /\ sock \in {"handle", "size"} => data # <<>> /\ ready[id]

ClientInv ==
  \A c \in Ids :
    /\ ~ready[c] => m_send_buffer[c] = <<>> /\ m_send_messages[c] = <<>>
    /\ m_setup_connection_confirmed[c] => ready[c]
    /\ thread[c] # "none" => m_setup_connection_confirmed[c]

LocalInv == LoopInv /\ ClientInv

Inv == TypeOK /\ LocalInv

-----------------------------------------------------------------------------
(* Sequences of messages. *)

\* Sending k messages and handing the next one to the transport keeps the order.
LEMMA SplitAt ==
  ASSUME NEW b \in Seq(Replies), NEW k \in 0..Len(b)
  PROVE  /\ SubSeq(b, 1, k) \in Seq(Replies)
         /\ Unsent(b, k) \in Seq(Replies)
         /\ k < Len(b) => SubSeq(b, 1, k) \o (<<b[k + 1]>> \o Unsent(b, k)) = b
         /\ k = Len(b) => SubSeq(b, 1, k) = b /\ Unsent(b, k) = <<>>
<1>1. Len(b) \in Nat /\ k \in Nat /\ \A i \in 1..Len(b) : b[i] \in Replies
  BY LenProperties, ElementOfSeq
<1>2. SubSeq(b, 1, k) \in Seq(Replies)
  BY <1>1, SubSeqProperties
<1>3. Unsent(b, k) \in Seq(Replies)
  BY <1>1, SubSeqProperties DEF Unsent
<1>4. ASSUME k < Len(b)
      PROVE  SubSeq(b, 1, k) \o (<<b[k + 1]>> \o Unsent(b, k)) = b
  <2>1. k + 1 \in 1..Len(b) /\ Len(b) \in (k + 1)..Len(b)
    BY <1>1, <1>4
  <2>2. SubSeq(b, k + 1, Len(b)) = <<b[k + 1]>> \o SubSeq(b, k + 1 + 1, Len(b))
    BY <2>1, SubSeqRecursiveFirst, Zenon
  <2>3. k + 1 + 1 = k + 2
    BY <1>1
  <2>4. SubSeq(b, 1, k) \o SubSeq(b, k + 1, Len(b)) = SubSeq(b, 1, Len(b))
    <3>1. 1 \in 1..(Len(b) + 1) /\ k \in (1 - 1)..Len(b) /\ Len(b) \in k..Len(b)
      BY <1>1
    <3> QED
      BY <3>1, ConcatAdjacentSubSeq, Zenon
  <2>5. SubSeq(b, 1, Len(b)) = b
    BY SubSeqFull, Zenon
  <2> QED
    BY <2>2, <2>3, <2>4, <2>5, Zenon DEF Unsent
<1>5. ASSUME k = Len(b)
      PROVE  SubSeq(b, 1, k) = b /\ Unsent(b, k) = <<>>
  <2>1. k + 2 \in Int /\ Len(b) \in Int /\ Len(b) < k + 2
    BY <1>1, <1>5
  <2> QED
    BY <2>1, <1>5, SubSeqFull, SubSeqEmpty, Zenon DEF Unsent
<1> QED
  BY <1>2, <1>3, <1>4, <1>5, Zenon

LEMMA Assoc == \A s, t, u \in Seq(Replies) : (s \o t) \o u = s \o (t \o u)
BY ConcatAssociative, SMTT(30)

\* The messages of a buffer are a sequence of messages.
LEMMA MsgsType ==
  ASSUME NEW buf \in Seq(Buffered)
  PROVE  /\ [i \in DOMAIN buf |-> buf[i].msg] \in Seq(Replies)
         /\ Len([i \in DOMAIN buf |-> buf[i].msg]) = Len(buf)
<1>1. Len(buf) \in Nat /\ DOMAIN buf = 1..Len(buf)
  BY LenProperties, Zenon
<1>2. \A i \in 1..Len(buf) : buf[i].msg \in Replies
  <2>1. \A i \in 1..Len(buf) : buf[i] \in Buffered
    BY ElementOfSeq, Zenon
  <2> QED
    BY <2>1, Zenon DEF Buffered
<1> QED
  BY <1>1, <1>2

\* An empty send buffer holds no messages.
LEMMA NoneBuffered ==
  ASSUME NEW b, b = <<>>
  PROVE  [i \in DOMAIN b |-> b[i].msg] = <<>>
  BY EmptySeq

\* The buffer with one message.
LEMMA OneBuffered ==
  ASSUME NEW m \in Replies, NEW n \in 1..Parts
  PROVE  LET buf == <<[msg |-> m, left |-> n]>> IN
         /\ buf \in Seq(Buffered) /\ Len(buf) = 1
         /\ [i \in DOMAIN buf |-> buf[i].msg] = <<m>>
<1> DEFINE buf == <<[msg |-> m, left |-> n]>>
<1>1. [msg |-> m, left |-> n] \in Buffered
  BY Zenon DEF Buffered
<1>2. buf \in Seq(Buffered) /\ Len(buf) = 1 /\ DOMAIN buf = 1..1 /\ buf[1] = [msg |-> m, left |-> n]
  BY <1>1
<1>3. [i \in 1..1 |-> buf[i].msg] = <<m>>
  BY <1>2
<1> QED
  BY <1>2, <1>3, Zenon

-----------------------------------------------------------------------------
(* SendMessagesAsBytes. *)

\* The backlog of a client is a sequence of messages.
LEMMA BacklogType ==
  ASSUME TypeOK, NEW c \in Ids, NEW queue \in Seq(Replies)
  PROVE  Backlog(c, queue) \in Seq(Replies)
<1>1. m_send_buffer[c] \in Seq(Buffered)
  BY Zenon DEF TypeOK, Buffered
<1> QED
  BY <1>1, MsgsType, ConcatProperties, Zenon DEF Backlog

\* One piece at least is left of a message that is not sent.
LEMMA LeftType ==
  ASSUME TypeOK, NEW c \in Ids, NEW i \in Nat
  PROVE  Left(c, i) \in 1..Parts
<1>1. m_send_buffer[c] \in Seq(Buffered)
  BY Zenon DEF TypeOK, Buffered
<1>2. DOMAIN m_send_buffer[c] = 1..Len(m_send_buffer[c])
  BY <1>1, LenProperties, Zenon
<1>3. \A j \in 1..Len(m_send_buffer[c]) : m_send_buffer[c][j] \in Buffered
  BY <1>1, ElementOfSeq, Zenon
<1>4. \A j \in 1..Len(m_send_buffer[c]) : m_send_buffer[c][j].left \in 1..Parts
  BY <1>3, Zenon DEF Buffered
<1> QED
  BY <1>2, <1>4, ConstantsOK DEF Left

\* What SendMessagesAsBytes leaves behind: the queue it was given, after what was sent
\* before, is what was sent, is with the transport and is queued now, in this order.
SendPost(c, queue) ==
  /\ m_send_messages' \in [Ids -> Seq(Replies)] /\ wire' \in [Ids -> Seq(Replies)]
  /\ m_send_buffer' \in [Ids -> Seq(Buffered)] /\ Len(m_send_buffer'[c]) <= 1
  /\ m_connected' \subseteq m_connected
  /\ wire'[c] \o Backlog(c, m_send_messages[c])' = wire[c] \o Backlog(c, queue)
  /\ ~ready[c] => m_send_buffer'[c] = <<>> /\ m_send_messages'[c] = queue
  /\ \A d \in Ids \ {c} : /\ m_send_messages'[d] = m_send_messages[d] /\ wire'[d] = wire[d]
                          /\ m_send_buffer'[d] = m_send_buffer[d]

LEMMA SendStep ==
  ASSUME TypeOK, NEW c \in Ids, NEW queue \in Seq(Replies),
         ~ready[c] => m_send_buffer[c] = <<>>,
         NEW k, NEW p, NEW fails, SendMessagesAsBytes(c, queue, k, p, fails)
  PROVE  SendPost(c, queue)
<1> DEFINE b == IF ready[c] THEN Backlog(c, queue) ELSE <<>>
           buf == IF k < Len(b) THEN <<[msg |-> b[k + 1], left |-> Rest(c, k + 1, p)]>> ELSE <<>>
           rest == IF ready[c] THEN Unsent(b, k) ELSE queue
<1>1. b \in Seq(Replies) /\ Len(b) \in Nat
  BY BacklogType, EmptySeq, LenProperties, Zenon
<1>2. /\ k \in 0..Len(b)
      /\ p \in 0..(IF k < Len(b) THEN Left(c, k + 1) - 1 ELSE 0)
      /\ m_connected' \subseteq m_connected
      /\ wire' = [wire EXCEPT ![c] = @ \o SubSeq(b, 1, k)]
      /\ m_send_buffer' = [m_send_buffer EXCEPT ![c] = buf]
      /\ m_send_messages' = [m_send_messages EXCEPT ![c] = rest]
  BY Zenon DEF SendMessagesAsBytes
<1> HIDE DEF b
<1>3. /\ SubSeq(b, 1, k) \in Seq(Replies) /\ Unsent(b, k) \in Seq(Replies)
      /\ k < Len(b) => SubSeq(b, 1, k) \o (<<b[k + 1]>> \o Unsent(b, k)) = b
      /\ k = Len(b) => SubSeq(b, 1, k) = b /\ Unsent(b, k) = <<>>
  BY <1>1, <1>2, SplitAt, Zenon
<1>4. ASSUME k < Len(b)
      PROVE  b[k + 1] \in Replies /\ Rest(c, k + 1, p) \in 1..Parts
  <2>1. k + 1 \in 1..Len(b) /\ k + 1 \in Nat
    BY <1>1, <1>2, <1>4
  <2>2. b[k + 1] \in Replies
    BY <2>1, <1>1, ElementOfSeq, Zenon
  <2>3. Left(c, k + 1) \in 1..Parts
    BY <2>1, LeftType, Zenon
  <2>4. Parts \in Nat
    BY ConstantsOK, Zenon
  <2>5. Rest(c, k + 1, p) = Left(c, k + 1) - p /\ p \in 0..(Left(c, k + 1) - 1)
    BY <1>2, <1>4, Zenon DEF Rest
  <2> QED
    BY <2>2, <2>3, <2>4, <2>5
<1> DEFINE msgs == [i \in DOMAIN buf |-> buf[i].msg]
<1>5. /\ buf \in Seq(Buffered) /\ Len(buf) <= 1
      /\ msgs = IF k < Len(b) THEN <<b[k + 1]>> ELSE <<>>
  <2>1. CASE k < Len(b)
    BY <2>1, <1>4, OneBuffered
  <2>2. CASE ~(k < Len(b))
    <3>1. buf = <<>>
      BY <2>2, Zenon
    <3> HIDE DEF buf
    <3> QED
      BY <3>1, <2>2
  <2> QED
    BY <2>1, <2>2, Zenon
<1> HIDE DEF buf
<1>6. rest \in Seq(Replies)
  BY <1>3, Zenon
<1>7. wire[c] \in Seq(Replies) /\ wire \in [Ids -> Seq(Replies)]
      /\ m_send_messages \in [Ids -> Seq(Replies)] /\ m_send_buffer \in [Ids -> Seq(Buffered)]
  BY Zenon DEF TypeOK, Buffered
<1>8. wire[c] \o SubSeq(b, 1, k) \in Seq(Replies)
  BY <1>3, <1>7, ConcatProperties, Zenon
<1>9. /\ wire'[c] = wire[c] \o SubSeq(b, 1, k) /\ m_send_buffer'[c] = buf /\ m_send_messages'[c] = rest
      /\ m_send_messages' \in [Ids -> Seq(Replies)] /\ wire' \in [Ids -> Seq(Replies)]
      /\ m_send_buffer' \in [Ids -> Seq(Buffered)]
      /\ \A d \in Ids \ {c} : /\ m_send_messages'[d] = m_send_messages[d] /\ wire'[d] = wire[d]
                              /\ m_send_buffer'[d] = m_send_buffer[d]
  <2> HIDE DEF rest
  <2> QED
    BY <1>2, <1>5, <1>6, <1>7, <1>8, Zenon
<1>10. Backlog(c, m_send_messages[c])' = msgs \o rest
  BY <1>9, Zenon DEF Backlog
<1>11. SubSeq(b, 1, k) \o (msgs \o rest) = Backlog(c, queue)
  <2>1. CASE ready[c] /\ k < Len(b)
    BY <2>1, <1>3, <1>5, Zenon DEF b
  <2>2. CASE ready[c] /\ ~(k < Len(b))
    <3>1. k = Len(b)
      BY <1>1, <1>2, <2>2
    <3>2. msgs \o rest = <<>>
      BY <3>1, <2>2, <1>3, <1>5, EmptySeq, ConcatEmptySeq, Zenon
    <3> QED
      BY <3>1, <3>2, <1>1, <1>3, <2>2, ConcatEmptySeq, Zenon DEF b
  <2>3. CASE ~ready[c]
    <3>1. b = <<>> /\ Len(b) = 0 /\ k = 0 /\ SubSeq(b, 1, k) = <<>> /\ msgs = <<>> /\ rest = queue
      <4>1. b = <<>> /\ rest = queue
        BY <2>3, Zenon DEF b
      <4>2. Len(b) = 0 /\ k = 0
        BY <4>1, <1>2
      <4> QED
        BY <4>1, <4>2, <1>3, <1>5
    <3>2. m_send_buffer[c] = <<>>
      BY <2>3, Zenon
    <3>3. [i \in DOMAIN m_send_buffer[c] |-> m_send_buffer[c][i].msg] = <<>>
      BY <3>2
    <3>4. Backlog(c, queue) = <<>> \o queue
      BY <3>3, Zenon DEF Backlog
    <3> QED
      BY <3>1, <3>4, ConcatEmptySeq, Zenon
  <2> QED
    BY <2>1, <2>2, <2>3, Zenon
<1>12. msgs \in Seq(Replies) /\ msgs \o rest \in Seq(Replies)
  BY <1>5, <1>6, MsgsType, ConcatProperties, Zenon
<1>13. wire'[c] \o Backlog(c, m_send_messages[c])' = wire[c] \o Backlog(c, queue)
  <2> DEFINE pending == msgs \o rest
  <2>1. wire[c] \in Seq(Replies) /\ SubSeq(b, 1, k) \in Seq(Replies) /\ pending \in Seq(Replies)
    BY <1>3, <1>7, <1>12, Zenon
  <2>2. wire'[c] = wire[c] \o SubSeq(b, 1, k) /\ Backlog(c, m_send_messages[c])' = pending
        /\ SubSeq(b, 1, k) \o pending = Backlog(c, queue)
    BY <1>9, <1>10, <1>11, Zenon
  <2> HIDE DEF pending
  <2>3. (wire[c] \o SubSeq(b, 1, k)) \o pending = wire[c] \o (SubSeq(b, 1, k) \o pending)
    BY <2>1, Assoc, ZenonT(30)
  <2> QED
    BY <2>2, <2>3, Zenon
<1>14. ~ready[c] => buf = <<>> /\ rest = queue
  <2> SUFFICES ASSUME ~ready[c] PROVE buf = <<>> /\ rest = queue
    BY Zenon
  <2>1. b = <<>>
    BY Zenon DEF b
  <2>2. ~(k < Len(b))
    BY <2>1, <1>2
  <2> QED
    BY <2>2, Zenon DEF buf
<1> QED
  BY <1>2, <1>5, <1>9, <1>13, <1>14, Zenon DEF SendPost
-----------------------------------------------------------------------------
(* Type correctness. *)

Received == MessageKinds \cup {"Key"}

\* Messages queued and sent at once.
LEMMA QueueAndSendStep ==
  ASSUME Inv, NEW c \in Ids, NEW ms \in Seq(Replies), QueueAndSend(c, ms)
  PROVE  /\ SendPost(c, m_send_messages[c] \o ms)
         /\ queued' = [queued EXCEPT ![c] = @ \o ms]
         /\ m_send_messages[c] \o ms \in Seq(Replies) /\ queued[c] \o ms \in Seq(Replies)
<1>1. m_send_messages[c] \in Seq(Replies) /\ queued[c] \in Seq(Replies)
  BY Zenon DEF Inv, TypeOK
<1>2. m_send_messages[c] \o ms \in Seq(Replies) /\ queued[c] \o ms \in Seq(Replies)
  BY <1>1, ConcatProperties, Zenon
<1>3. ~ready[c] => m_send_buffer[c] = <<>>
  BY Zenon DEF Inv, LocalInv, ClientInv
<1>4. PICK k, p, fails : SendMessagesAsBytes(c, m_send_messages[c] \o ms, k, p, fails)
  BY Zenon DEF QueueAndSend
<1>5. SendPost(c, m_send_messages[c] \o ms)
  BY <1>2, <1>3, <1>4, SendStep, Zenon DEF Inv
<1>6. queued' = [queued EXCEPT ![c] = @ \o ms]
  BY Zenon DEF QueueAndSend
<1> QED
  BY <1>2, <1>5, <1>6, Zenon

\* The part of TypeOK that SendMessagesAsBytes can disturb.
SendTypeOK ==
  /\ m_connected \subseteq Ids
  /\ m_send_messages \in [Ids -> Seq(Replies)] /\ queued \in [Ids -> Seq(Replies)]
  /\ wire \in [Ids -> Seq(Replies)]
  /\ m_send_buffer \in [Ids -> Seq(Buffered)]
  /\ \A c \in Ids : Len(m_send_buffer[c]) <= 1

\* The clients' status; the sockets thread; the remote sides and the client threads.
StatusTypeOK ==
  /\ m_setup_connection_confirmed \in [Ids -> BOOLEAN]
  /\ m_coinbase_output_constraints_recv \in [Ids -> BOOLEAN]
  /\ m_coinbase_tx_outputs_size \in [Ids -> {"uninitialised", "requested"}]
  /\ m_disconnect_flag \in [Ids -> BOOLEAN] /\ ready \in [Ids -> BOOLEAN]

LoopTypeOK ==
  /\ m_next_id \in 0..MaxId /\ m_sv2_clients \subseteq Ids
  /\ interruptNet \in BOOLEAN
  /\ sock \in {"completed", "wait", "connected", "recv", "data", "handle", "size", "done"}
  /\ events \in [send : SUBSET Ids, recv : SUBSET Ids, err : SUBSET Ids]
  /\ id \in 0..MaxId /\ data \in Seq(Received)

PeerTypeOK ==
  /\ incoming \in [Ids -> Seq(Received)]
  /\ sent \in [Ids -> 0..MaxReceived] /\ eof \in [Ids -> BOOLEAN]
  /\ thread \in [Ids -> {"none", "options", "work", "done"}] /\ work \in [Ids -> 0..MaxWork]
  /\ sizeUsed \in [Ids -> {"none", "uninitialised", "requested"}]

OtherTypeOK == StatusTypeOK /\ LoopTypeOK /\ PeerTypeOK

LEMMA TypeParts == TypeOK <=> SendTypeOK /\ OtherTypeOK
BY Zenon DEF TypeOK, SendTypeOK, OtherTypeOK, StatusTypeOK, LoopTypeOK, PeerTypeOK, Buffered, Received

LEMMA SendTypeStep ==
  ASSUME Inv, NEW c \in Ids, NEW queue, SendPost(c, queue), queued' \in [Ids -> Seq(Replies)]
  PROVE  SendTypeOK'
<1>1. \A d \in Ids : Len(m_send_buffer[d]) <= 1
  BY Zenon DEF Inv, TypeOK
<1>2. \A d \in Ids : Len(m_send_buffer'[d]) <= 1
  BY <1>1, Zenon DEF SendPost
<1>3. m_connected' \subseteq Ids
  BY Zenon DEF SendPost, Inv, TypeOK
<1> QED
  BY <1>2, <1>3, Zenon DEF SendPost, SendTypeOK

\* SendWork queues messages and sends, or sends nothing.
LEMMA WorkMessages ==
  ASSUME NEW c \in Ids, SendWork(c)
  PROVE  \/ UNCHANGED <<m_connected, sendVars>>
         \/ \E ms \in Seq(Replies \ SetupReplies) : ms \in Seq(Replies) /\ QueueAndSend(c, ms)
<1>1. /\ <<"NewTemplate", "SetNewPrevHash">> \in Seq(Replies \ SetupReplies)
      /\ <<"NewTemplate">> \in Seq(Replies \ SetupReplies)
      /\ <<"NewTemplate", "SetNewPrevHash">> \in Seq(Replies) /\ <<"NewTemplate">> \in Seq(Replies)
  BY DEF Replies, SetupReplies
<1> QED
  BY <1>1, Zenon DEF SendWork

LEMMA QueueType ==
  ASSUME SendTypeOK, id \in Ids, NEW ms \in Seq(Replies), Queue(ms)
  PROVE  m_send_messages' \in [Ids -> Seq(Replies)] /\ queued' \in [Ids -> Seq(Replies)]
<1>1. m_send_messages[id] \o ms \in Seq(Replies) /\ queued[id] \o ms \in Seq(Replies)
  BY ConcatProperties, Zenon DEF SendTypeOK
<1> QED
  BY <1>1, Zenon DEF Queue, SendTypeOK

LEMMA TypeStep ==
  ASSUME Inv, Next
  PROVE  TypeOK'
<1>0. SendTypeOK /\ OtherTypeOK
  BY TypeParts, Zenon DEF Inv
<1>a. MaxId \in Nat /\ MaxReceived \in Nat /\ MaxWork \in Nat /\ Kinds \subseteq Received /\ "Key" \in Received /\ Ids \subseteq 0..MaxId
  BY ConstantsOK DEF Received, Ids
<1>b. /\ StatusTypeOK /\ LoopTypeOK /\ PeerTypeOK /\ \A c \in Ids : Len(m_send_buffer[c]) <= 1
      /\ <<>> \in Seq(Received) /\ (data # <<>> => Tail(data) \in Seq(Received))
      /\ sock \in {"recv", "data", "handle", "size"} => id \in Ids
      /\ sock \in {"handle", "size"} => data # <<>>
  BY <1>0, EmptySeq, HeadTailProperties, Zenon DEF OtherTypeOK, LoopTypeOK, SendTypeOK, Inv, LocalInv, LoopInv
<1>1. ASSUME DisconnectFlagged PROVE SendTypeOK' /\ OtherTypeOK'
  <2>1. SendTypeOK'
    BY <1>0, <1>1, Zenon DEF DisconnectFlagged, sendVars, SendTypeOK
  <2>2. StatusTypeOK'
    BY <1>b, <1>1, Zenon DEF DisconnectFlagged, statusVars, StatusTypeOK
  <2>3. LoopTypeOK'
    BY <1>b, <1>1, Zenon DEF DisconnectFlagged, Goto, sockVars, LoopTypeOK
  <2>4. PeerTypeOK'
    BY <1>b, <1>1, Zenon DEF DisconnectFlagged, peerVars, threadVars, PeerTypeOK
  <2> QED
    BY <2>1, <2>2, <2>3, <2>4, Zenon DEF OtherTypeOK
<1>2. ASSUME SocketsThreadEnd PROVE SendTypeOK' /\ OtherTypeOK'
  <2>1. SendTypeOK'
    BY <1>0, <1>2, Zenon DEF SocketsThreadEnd, sendVars, SendTypeOK
  <2>2. StatusTypeOK'
    BY <1>b, <1>2, Zenon DEF SocketsThreadEnd, statusVars, StatusTypeOK
  <2>3. LoopTypeOK'
    BY <1>b, <1>2, Zenon DEF SocketsThreadEnd, Goto, sockVars, LoopTypeOK
  <2>4. PeerTypeOK'
    BY <1>b, <1>2, Zenon DEF SocketsThreadEnd, peerVars, threadVars, PeerTypeOK
  <2> QED
    BY <2>1, <2>2, <2>3, <2>4, Zenon DEF OtherTypeOK
<1>3. ASSUME GenerateWaitSockets PROVE SendTypeOK' /\ OtherTypeOK'
  <2>1. SendTypeOK'
    BY <1>0, <1>3, Zenon DEF GenerateWaitSockets, sendVars, SendTypeOK
  <2>2. StatusTypeOK'
    BY <1>b, <1>3, Zenon DEF GenerateWaitSockets, statusVars, StatusTypeOK
  <2>3. LoopTypeOK'
    <3>1. PICK writable \in SUBSET m_connected, errs \in SUBSET m_connected :
            events' = [send |-> writable, err |-> errs,
                       recv |-> {c \in m_connected : incoming[c] # <<>> \/ eof[c]}]
      <4>1. \A S \in SUBSET {c \in m_connected : eof[c]} : S \in SUBSET m_connected
        BY Zenon
      <4> QED
        BY <1>3, <4>1, Zenon DEF GenerateWaitSockets
    <3>2. m_connected \subseteq Ids
      BY <1>0, Zenon DEF SendTypeOK
    <3>3. {c \in m_connected : incoming[c] # <<>> \/ eof[c]} \subseteq Ids
      BY <3>2, Zenon
    <3>4. events' \in [send : SUBSET Ids, recv : SUBSET Ids, err : SUBSET Ids]
      BY <3>1, <3>2, <3>3, Zenon
    <3> QED
      BY <1>b, <1>3, <3>4, Zenon DEF GenerateWaitSockets, Goto, sockVars, LoopTypeOK
  <2>4. PeerTypeOK'
    BY <1>b, <1>3, Zenon DEF GenerateWaitSockets, peerVars, threadVars, PeerTypeOK
  <2> QED
    BY <2>1, <2>2, <2>3, <2>4, Zenon DEF OtherTypeOK
<1>4. ASSUME EventGotData PROVE SendTypeOK' /\ OtherTypeOK'
  <2>1. SendTypeOK'
    BY <1>0, <1>4, Zenon DEF EventGotData, sendVars, SendTypeOK
  <2>2. StatusTypeOK'
    BY <1>b, <1>4, Zenon DEF EventGotData, statusVars, StatusTypeOK
  <2>3. LoopTypeOK'
    <3>1. PICK n \in 1..Len(incoming[id]) : data' = SubSeq(incoming[id], 1, n)
      BY <1>4, Zenon DEF EventGotData
    <3>2. incoming[id] \in Seq(Received) /\ Len(incoming[id]) \in Nat
      BY <1>b, <1>4, LenProperties, Zenon DEF EventGotData, PeerTypeOK
    <3>3. \A i \in 1..n : incoming[id][i] \in Received
      BY <3>1, <3>2, ElementOfSeq
    <3>4. data' \in Seq(Received)
      BY <3>1, <3>2, <3>3, SubSeqProperties
    <3> QED
      BY <1>b, <1>4, <3>4, Zenon DEF EventGotData, Goto, sockVars, LoopTypeOK
  <2>4. PeerTypeOK'
    <3>1. PICK n \in 1..Len(incoming[id]) :
            incoming' = [incoming EXCEPT ![id] = SubSeq(@, n + 1, Len(@))]
      BY <1>4, Zenon DEF EventGotData
    <3>2. incoming[id] \in Seq(Received) /\ Len(incoming[id]) \in Nat
      BY <1>b, <1>4, LenProperties, Zenon DEF EventGotData, PeerTypeOK
    <3>3. \A i \in (n + 1)..Len(incoming[id]) : incoming[id][i] \in Received
      BY <3>1, <3>2, ElementOfSeq
    <3>4. SubSeq(incoming[id], n + 1, Len(incoming[id])) \in Seq(Received)
      BY <3>1, <3>2, <3>3, SubSeqProperties
    <3>5. incoming' \in [Ids -> Seq(Received)]
      BY <1>b, <3>1, <3>4, Zenon DEF PeerTypeOK
    <3> QED
      BY <1>b, <1>4, <3>5, Zenon DEF EventGotData, threadVars, PeerTypeOK
  <2> QED
    BY <2>1, <2>2, <2>3, <2>4, Zenon DEF OtherTypeOK
<1>5. ASSUME EventGotEOF PROVE SendTypeOK' /\ OtherTypeOK'
  <2>1. SendTypeOK'
    BY <1>0, <1>5, Zenon DEF EventGotEOF, sendVars, SendTypeOK
  <2>2. StatusTypeOK'
    BY <1>b, <1>5, Zenon DEF EventGotEOF, Flag, statusVars, StatusTypeOK
  <2>3. LoopTypeOK'
    BY <1>b, <1>5, Zenon DEF EventGotEOF, Goto, sockVars, LoopTypeOK
  <2>4. PeerTypeOK'
    BY <1>b, <1>5, Zenon DEF EventGotEOF, threadVars, PeerTypeOK
  <2> QED
    BY <2>1, <2>2, <2>3, <2>4, Zenon DEF OtherTypeOK
<1>6. ASSUME NoSocket PROVE SendTypeOK' /\ OtherTypeOK'
  <2>1. SendTypeOK'
    BY <1>0, <1>6, Zenon DEF NoSocket, sendVars, SendTypeOK
  <2>2. StatusTypeOK'
    BY <1>b, <1>6, Zenon DEF NoSocket, statusVars, StatusTypeOK
  <2>3. LoopTypeOK'
    BY <1>b, <1>6, Zenon DEF NoSocket, Goto, sockVars, LoopTypeOK
  <2>4. PeerTypeOK'
    BY <1>b, <1>6, Zenon DEF NoSocket, peerVars, threadVars, PeerTypeOK
  <2> QED
    BY <2>1, <2>2, <2>3, <2>4, Zenon DEF OtherTypeOK
<1>7. ASSUME SocketHandlerListening PROVE SendTypeOK' /\ OtherTypeOK'
  <2>1. SendTypeOK'
    <3>0. m_next_id < MaxId => m_next_id \in Ids /\ m_next_id + 1 \in 0..MaxId
      BY <1>a, <1>b DEF LoopTypeOK, Ids
    <3>1. m_connected' \subseteq Ids
      BY <1>0, <1>7, <3>0, Zenon DEF SocketHandlerListening, SendTypeOK
    <3> QED
      BY <1>0, <1>7, <3>1, Zenon DEF SocketHandlerListening, sendVars, SendTypeOK
  <2>2. StatusTypeOK'
    BY <1>b, <1>7, Zenon DEF SocketHandlerListening, statusVars, StatusTypeOK
  <2>3. LoopTypeOK'
    <3>0. m_next_id < MaxId => m_next_id \in Ids /\ m_next_id + 1 \in 0..MaxId
      BY <1>a, <1>b DEF LoopTypeOK, Ids
    <3>1. NoEvents \in [send : SUBSET Ids, recv : SUBSET Ids, err : SUBSET Ids]
      BY Zenon DEF NoEvents
    <3>2. m_next_id' \in 0..MaxId /\ m_sv2_clients' \subseteq Ids
      BY <1>b, <1>7, <3>0, Zenon DEF SocketHandlerListening, LoopTypeOK
    <3> HIDE DEF NoEvents
    <3> QED
      BY <1>b, <1>7, <3>1, <3>2, Zenon DEF SocketHandlerListening, Goto, LoopTypeOK
  <2>4. PeerTypeOK'
    BY <1>b, <1>7, Zenon DEF SocketHandlerListening, peerVars, threadVars, PeerTypeOK
  <2> QED
    BY <2>1, <2>2, <2>3, <2>4, Zenon DEF OtherTypeOK
<1>8. ASSUME DataDone PROVE SendTypeOK' /\ OtherTypeOK'
  <2>1. SendTypeOK'
    BY <1>0, <1>8, Zenon DEF DataDone, sendVars, SendTypeOK
  <2>2. StatusTypeOK'
    BY <1>b, <1>8, Zenon DEF DataDone, statusVars, StatusTypeOK
  <2>3. LoopTypeOK'
    BY <1>b, <1>8, Zenon DEF DataDone, Goto, sockVars, DataFrame, LoopTypeOK
  <2>4. PeerTypeOK'
    BY <1>b, <1>8, Zenon DEF DataDone, peerVars, threadVars, DataFrame, PeerTypeOK
  <2> QED
    BY <2>1, <2>2, <2>3, <2>4, Zenon DEF OtherTypeOK
<1>9. ASSUME Handshake PROVE SendTypeOK' /\ OtherTypeOK'
  <2>1. SendTypeOK'
    <3>1. id \in Ids /\ "HandshakeReply" \in Replies /\ Parts \in 1..Parts
      BY <1>b, <1>9, ConstantsOK DEF Handshake, Replies
    <3>2. <<[msg |-> "HandshakeReply", left |-> Parts]>> \in Seq(Buffered)
          /\ Len(<<[msg |-> "HandshakeReply", left |-> Parts]>>) = 1
      BY <3>1, OneBuffered, Zenon
    <3>3. Append(queued[id], "HandshakeReply") \in Seq(Replies)
      BY <1>0, <3>1, AppendProperties, Zenon DEF SendTypeOK
    <3> QED
      BY <1>0, <1>9, <3>1, <3>2, <3>3 DEF Handshake, SendTypeOK
  <2>2. StatusTypeOK'
    BY <1>b, <1>9, Zenon DEF Handshake, statusVars, StatusTypeOK
  <2>3. LoopTypeOK'
    BY <1>b, <1>9, Zenon DEF Handshake, Goto, NextMessage, sockVars, DataFrame, LoopTypeOK
  <2>4. PeerTypeOK'
    BY <1>b, <1>9, Zenon DEF Handshake, peerVars, threadVars, DataFrame, PeerTypeOK
  <2> QED
    BY <2>1, <2>2, <2>3, <2>4, Zenon DEF OtherTypeOK
<1>10. ASSUME ReceiveMessage PROVE SendTypeOK' /\ OtherTypeOK'
  <2>1. SendTypeOK'
    BY <1>0, <1>10, Zenon DEF ReceiveMessage, sendVars, SendTypeOK
  <2>2. StatusTypeOK'
    BY <1>b, <1>10, Zenon DEF ReceiveMessage, Flag, Abandon, statusVars, StatusTypeOK
  <2>3. LoopTypeOK'
    BY <1>b, <1>10, Zenon DEF ReceiveMessage, Goto, NextMessage, Abandon, sockVars, DataFrame, LoopTypeOK
  <2>4. PeerTypeOK'
    BY <1>b, <1>10, Zenon DEF ReceiveMessage, peerVars, threadVars, DataFrame, PeerTypeOK
  <2> QED
    BY <2>1, <2>2, <2>3, <2>4, Zenon DEF OtherTypeOK
<1>11. ASSUME SetupConnection PROVE SendTypeOK' /\ OtherTypeOK'
  <2>1. SendTypeOK'
    <3>1. id \in Ids /\ UNCHANGED <<m_connected, m_send_buffer, wire>>
      BY <1>b, <1>11, Zenon DEF SetupConnection, Handle
    <3>2. <<"SetupSuccess">> \in Seq(Replies) /\ <<"SetupError">> \in Seq(Replies)
      BY DEF Replies
    <3>3. \/ UNCHANGED <<m_send_messages, queued>>
          \/ Queue(<<"SetupSuccess">>) \/ Queue(<<"SetupError">>)
      BY <1>11, Zenon DEF SetupConnection
    <3>4. m_send_messages' \in [Ids -> Seq(Replies)] /\ queued' \in [Ids -> Seq(Replies)]
      BY <1>0, <3>1, <3>2, <3>3, QueueType, Zenon DEF SendTypeOK
    <3> QED
      BY <1>0, <3>1, <3>4, Zenon DEF SendTypeOK
  <2>2. StatusTypeOK'
    BY <1>b, <1>11, Zenon DEF SetupConnection, Flag, StatusTypeOK
  <2>3. LoopTypeOK'
    BY <1>b, <1>11, Zenon DEF SetupConnection, Queue, Handle, Goto, NextMessage, sockVars, DataFrame, LoopTypeOK
  <2>4. PeerTypeOK'
    BY <1>b, <1>11, Zenon DEF SetupConnection, peerVars, threadVars, DataFrame, PeerTypeOK
  <2> QED
    BY <2>1, <2>2, <2>3, <2>4, Zenon DEF OtherTypeOK
<1>12. ASSUME CoinbaseOutputConstraints PROVE SendTypeOK' /\ OtherTypeOK'
  <2>1. SendTypeOK'
    BY <1>0, <1>12, Zenon DEF CoinbaseOutputConstraints, sendVars, SendTypeOK
  <2>2. StatusTypeOK'
    BY <1>b, <1>12, Zenon DEF CoinbaseOutputConstraints, Flag, StatusTypeOK
  <2>3. LoopTypeOK'
    BY <1>b, <1>12, Zenon DEF CoinbaseOutputConstraints, Handle, Goto, NextMessage, sockVars, DataFrame, LoopTypeOK
  <2>4. PeerTypeOK'
    BY <1>b, <1>12, Zenon DEF CoinbaseOutputConstraints, peerVars, threadVars, DataFrame, PeerTypeOK
  <2> QED
    BY <2>1, <2>2, <2>3, <2>4, Zenon DEF OtherTypeOK
<1>13. ASSUME CoinbaseOutputSize PROVE SendTypeOK' /\ OtherTypeOK'
  <2>1. SendTypeOK'
    BY <1>0, <1>13, Zenon DEF CoinbaseOutputSize, sendVars, SendTypeOK
  <2>2. StatusTypeOK'
    BY <1>b, <1>13, Zenon DEF CoinbaseOutputSize, Flag, StatusTypeOK
  <2>3. LoopTypeOK'
    BY <1>b, <1>13, Zenon DEF CoinbaseOutputSize, Goto, NextMessage, sockVars, DataFrame, LoopTypeOK
  <2>4. PeerTypeOK'
    BY <1>b, <1>13, Zenon DEF CoinbaseOutputSize, peerVars, threadVars, DataFrame, PeerTypeOK
  <2> QED
    BY <2>1, <2>2, <2>3, <2>4, Zenon DEF OtherTypeOK
<1>14. ASSUME SubmitSolution PROVE SendTypeOK' /\ OtherTypeOK'
  <2>1. SendTypeOK'
    BY <1>0, <1>14, Zenon DEF SubmitSolution, sendVars, SendTypeOK
  <2>2. StatusTypeOK'
    BY <1>b, <1>14, Zenon DEF SubmitSolution, Flag, statusVars, StatusTypeOK
  <2>3. LoopTypeOK'
    BY <1>b, <1>14, Zenon DEF SubmitSolution, Handle, Goto, NextMessage, sockVars, DataFrame, LoopTypeOK
  <2>4. PeerTypeOK'
    BY <1>b, <1>14, Zenon DEF SubmitSolution, peerVars, threadVars, DataFrame, PeerTypeOK
  <2> QED
    BY <2>1, <2>2, <2>3, <2>4, Zenon DEF OtherTypeOK
<1>15. ASSUME ProviderThrows PROVE SendTypeOK' /\ OtherTypeOK'
  <2>1. SendTypeOK'
    BY <1>0, <1>15, Zenon DEF ProviderThrows, sendVars, SendTypeOK
  <2>2. StatusTypeOK'
    BY <1>b, <1>15, Zenon DEF ProviderThrows, Flag, Abandon, statusVars, StatusTypeOK
  <2>3. LoopTypeOK'
    BY <1>b, <1>15, Zenon DEF ProviderThrows, Goto, Abandon, sockVars, DataFrame, LoopTypeOK
  <2>4. PeerTypeOK'
    BY <1>b, <1>15, Zenon DEF ProviderThrows, peerVars, threadVars, DataFrame, PeerTypeOK
  <2> QED
    BY <2>1, <2>2, <2>3, <2>4, Zenon DEF OtherTypeOK
<1>16. ASSUME IgnoreMessage PROVE SendTypeOK' /\ OtherTypeOK'
  <2>1. SendTypeOK'
    BY <1>0, <1>16, Zenon DEF IgnoreMessage, sendVars, SendTypeOK
  <2>2. StatusTypeOK'
    BY <1>b, <1>16, Zenon DEF IgnoreMessage, statusVars, StatusTypeOK
  <2>3. LoopTypeOK'
    BY <1>b, <1>16, Zenon DEF IgnoreMessage, Handle, Goto, NextMessage, sockVars, DataFrame, LoopTypeOK
  <2>4. PeerTypeOK'
    BY <1>b, <1>16, Zenon DEF IgnoreMessage, peerVars, threadVars, DataFrame, PeerTypeOK
  <2> QED
    BY <2>1, <2>2, <2>3, <2>4, Zenon DEF OtherTypeOK
<1>17. ASSUME Interrupt PROVE SendTypeOK' /\ OtherTypeOK'
  <2>1. SendTypeOK'
    BY <1>0, <1>17, Zenon DEF Interrupt, sendVars, SendTypeOK
  <2>2. StatusTypeOK'
    BY <1>b, <1>17, Zenon DEF Interrupt, statusVars, StatusTypeOK
  <2>3. LoopTypeOK'
    BY <1>b, <1>17, Zenon DEF Interrupt, loopVars, LoopTypeOK
  <2>4. PeerTypeOK'
    BY <1>b, <1>17, Zenon DEF Interrupt, peerVars, threadVars, PeerTypeOK
  <2> QED
    BY <2>1, <2>2, <2>3, <2>4, Zenon DEF OtherTypeOK
<1>18. ASSUME NEW c \in Ids, ReadyToReceive(c) PROVE SendTypeOK' /\ OtherTypeOK'
  <2>1. SendTypeOK'
    BY <1>0, <1>18, Zenon DEF ReadyToReceive, sendVars, SendTypeOK
  <2>2. StatusTypeOK'
    BY <1>a, <1>b, <1>18, Zenon DEF ReadyToReceive, statusVars, StatusTypeOK
  <2>3. LoopTypeOK'
    BY <1>a, <1>b, <1>18, Zenon DEF ReadyToReceive, Goto, Served, sockVars, LoopTypeOK
  <2>4. PeerTypeOK'
    BY <1>a, <1>b, <1>18, Zenon DEF ReadyToReceive, peerVars, threadVars, PeerTypeOK
  <2> QED
    BY <2>1, <2>2, <2>3, <2>4, Zenon DEF OtherTypeOK
<1>19. ASSUME NEW c \in Ids, PeerSend(c) PROVE SendTypeOK' /\ OtherTypeOK'
  <2>1. SendTypeOK'
    BY <1>0, <1>19, Zenon DEF PeerSend, sendVars, SendTypeOK
  <2>2. StatusTypeOK'
    BY <1>a, <1>b, <1>19, Zenon DEF PeerSend, statusVars, StatusTypeOK
  <2>3. LoopTypeOK'
    BY <1>a, <1>b, <1>19, Zenon DEF PeerSend, sockVars, loopVars, LoopTypeOK
  <2>4. PeerTypeOK'
    BY <1>a, <1>b, <1>19, SMTT(30) DEF PeerSend, threadVars, PeerTypeOK
  <2> QED
    BY <2>1, <2>2, <2>3, <2>4, Zenon DEF OtherTypeOK
<1>20. ASSUME NEW c \in Ids, PeerClose(c) PROVE SendTypeOK' /\ OtherTypeOK'
  <2>1. SendTypeOK'
    BY <1>0, <1>20, Zenon DEF PeerClose, sendVars, SendTypeOK
  <2>2. StatusTypeOK'
    BY <1>b, <1>20, Zenon DEF PeerClose, statusVars, StatusTypeOK
  <2>3. LoopTypeOK'
    BY <1>b, <1>20, Zenon DEF PeerClose, sockVars, loopVars, LoopTypeOK
  <2>4. PeerTypeOK'
    BY <1>b, <1>20, Zenon DEF PeerClose, threadVars, PeerTypeOK
  <2> QED
    BY <2>1, <2>2, <2>3, <2>4, Zenon DEF OtherTypeOK
<1>21. ASSUME NEW c \in Ids, SpawnThread(c) PROVE SendTypeOK' /\ OtherTypeOK'
  <2>1. SendTypeOK'
    BY <1>0, <1>21, Zenon DEF SpawnThread, sendVars, SendTypeOK
  <2>2. StatusTypeOK'
    BY <1>b, <1>21, Zenon DEF SpawnThread, statusVars, ThreadFrame, IsFullyConnected, StatusTypeOK
  <2>3. LoopTypeOK'
    BY <1>b, <1>21, Zenon DEF SpawnThread, sockVars, loopVars, ThreadFrame, LoopTypeOK
  <2>4. PeerTypeOK'
    BY <1>b, <1>21, Zenon DEF SpawnThread, peerVars, ThreadFrame, PeerTypeOK
  <2> QED
    BY <2>1, <2>2, <2>3, <2>4, Zenon DEF OtherTypeOK
<1>22. ASSUME NEW c \in Ids, PrepareBlockCreateOptions(c) PROVE SendTypeOK' /\ OtherTypeOK'
  <2>1. SendTypeOK'
    BY <1>0, <1>22, Zenon DEF PrepareBlockCreateOptions, sendVars, SendTypeOK
  <2>2. StatusTypeOK'
    BY <1>b, <1>22, Zenon DEF PrepareBlockCreateOptions, statusVars, ThreadFrame, StatusTypeOK
  <2>3. LoopTypeOK'
    BY <1>b, <1>22, Zenon DEF PrepareBlockCreateOptions, sockVars, loopVars, ThreadFrame, LoopTypeOK
  <2>4. PeerTypeOK'
    <3>1. m_coinbase_tx_outputs_size[c] \in {"none", "uninitialised", "requested"}
      BY <1>b, Zenon DEF StatusTypeOK
    <3>2. sizeUsed' \in [Ids -> {"none", "uninitialised", "requested"}]
      BY <1>b, <1>22, <3>1, Zenon DEF PrepareBlockCreateOptions, PeerTypeOK
    <3> QED
      BY <1>b, <1>22, <3>2, Zenon DEF PrepareBlockCreateOptions, ThreadFrame, sendVars, peerVars, PeerTypeOK
  <2> QED
    BY <2>1, <2>2, <2>3, <2>4, Zenon DEF OtherTypeOK
<1>23. ASSUME NEW c \in Ids, ThreadEnd(c) PROVE SendTypeOK' /\ OtherTypeOK'
  <2>1. SendTypeOK'
    BY <1>0, <1>23, Zenon DEF ThreadEnd, sendVars, SendTypeOK
  <2>2. StatusTypeOK'
    BY <1>b, <1>23, Zenon DEF ThreadEnd, statusVars, ThreadFrame, StatusTypeOK
  <2>3. LoopTypeOK'
    BY <1>b, <1>23, Zenon DEF ThreadEnd, sockVars, loopVars, ThreadFrame, LoopTypeOK
  <2>4. PeerTypeOK'
    BY <1>b, <1>23, Zenon DEF ThreadEnd, peerVars, ThreadFrame, PeerTypeOK
  <2> QED
    BY <2>1, <2>2, <2>3, <2>4, Zenon DEF OtherTypeOK
<1>24. ASSUME NEW c \in Ids, EventReadyToSend(c) PROVE SendTypeOK' /\ OtherTypeOK'
  <2>1. OtherTypeOK'
    <3>1. StatusTypeOK'
      BY <1>a, <1>b, <1>24, SMTT(30) DEF EventReadyToSend, Goto, Served, sockVars, statusVars, sendVars, loopVars, peerVars, threadVars, StatusTypeOK
    <3>2. LoopTypeOK'
      BY <1>a, <1>b, <1>24, SMTT(30) DEF EventReadyToSend, Goto, Served, sockVars, statusVars, sendVars, loopVars, peerVars, threadVars, LoopTypeOK
    <3>3. PeerTypeOK'
      BY <1>a, <1>b, <1>24, Zenon DEF EventReadyToSend, Goto, Served, sockVars, statusVars, sendVars, loopVars, peerVars, threadVars, PeerTypeOK
    <3> QED
      BY <3>1, <3>2, <3>3, SMTT(30) DEF OtherTypeOK
  <2>2. SendTypeOK'
    <3>1. CASE c \in m_sv2_clients
      <4>1. m_send_messages[c] \in Seq(Replies) /\ (~ready[c] => m_send_buffer[c] = <<>>)
        BY Zenon DEF Inv, TypeOK, LocalInv, ClientInv
      <4>2. PICK k, p, fails : SendMessagesAsBytes(c, m_send_messages[c], k, p, fails)
        BY <1>24, <3>1, Zenon DEF EventReadyToSend
      <4>3. SendPost(c, m_send_messages[c])
        BY <4>1, <4>2, SendStep, SMTT(30) DEF Inv
      <4>4. queued' \in [Ids -> Seq(Replies)]
        BY <1>0, <1>24, SMTT(30) DEF EventReadyToSend, SendTypeOK
      <4> QED
        BY <4>3, <4>4, SendTypeStep, Zenon
    <3>2. CASE c \notin m_sv2_clients
      BY <1>0, <1>24, <3>2, Zenon DEF EventReadyToSend, SendTypeOK
    <3> QED
      BY <3>1, <3>2, Zenon
  <2> QED
    BY <2>1, <2>2, Zenon
<1>25. ASSUME RequestTransactionData PROVE SendTypeOK' /\ OtherTypeOK'
  <2>0. id \in Ids
    BY <1>0, <1>25, Zenon DEF RequestTransactionData, Handle, Inv, LocalInv, LoopInv, OtherTypeOK, LoopTypeOK
  <2>1. OtherTypeOK'
    <3>1. StatusTypeOK'
      BY <1>a, <1>b, <1>25, Zenon DEF RequestTransactionData, Handle, NextMessage, Goto, DataFrame, sockVars, statusVars, loopVars, peerVars, threadVars, StatusTypeOK
    <3>2. LoopTypeOK'
      BY <1>a, <1>b, <1>25, Zenon DEF RequestTransactionData, Handle, NextMessage, Goto, DataFrame, sockVars, statusVars, loopVars, peerVars, threadVars, LoopTypeOK
    <3>3. PeerTypeOK'
      BY <1>a, <1>b, <1>25, Zenon DEF RequestTransactionData, Handle, NextMessage, Goto, DataFrame, sockVars, statusVars, loopVars, peerVars, threadVars, PeerTypeOK
    <3> QED
      BY <3>1, <3>2, <3>3, Zenon DEF OtherTypeOK
  <2>2. CASE Queue(<<"TxError">>) /\ UNCHANGED <<m_connected, m_send_buffer, wire>>
    <3>1. <<"TxError">> \in Seq(Replies)
      BY DEF Replies
    <3>2. SendTypeOK'
      BY <1>0, <2>0, <2>2, <3>1 DEF Queue, SendTypeOK
    <3> QED
      BY <2>1, <3>2, Zenon
  <2>3. CASE QueueAndSend(id, <<"TxData">>)
    <3>1. <<"TxData">> \in Seq(Replies)
      BY DEF Replies
    <3>2. SendPost(id, m_send_messages[id] \o <<"TxData">>) /\ queued' \in [Ids -> Seq(Replies)]
      BY <1>0, <2>0, <2>3, <3>1, QueueAndSendStep, Zenon DEF SendTypeOK
    <3>3. SendTypeOK'
      BY <2>0, <3>2, SendTypeStep, Zenon
    <3> QED
      BY <2>1, <3>3, Zenon
  <2> QED
    BY <1>25, <2>2, <2>3, Zenon DEF RequestTransactionData
<1>26. ASSUME NEW c \in Ids, SendWork(c) PROVE SendTypeOK' /\ OtherTypeOK'
  <2>1. OtherTypeOK'
    <3>1. StatusTypeOK'
      BY <1>a, <1>b, <1>26, Zenon DEF SendWork, ThreadFrame, Flag, sockVars, statusVars, loopVars, peerVars, threadVars, StatusTypeOK
    <3>2. LoopTypeOK'
      BY <1>a, <1>b, <1>26, Zenon DEF SendWork, ThreadFrame, Flag, sockVars, statusVars, loopVars, peerVars, threadVars, LoopTypeOK
    <3>3. PeerTypeOK'
      BY <1>a, <1>b, <1>26, SMTT(30) DEF SendWork, ThreadFrame, Flag, sockVars, statusVars, loopVars, peerVars, threadVars, PeerTypeOK
    <3> QED
      BY <3>1, <3>2, <3>3, Zenon DEF OtherTypeOK
  <2>2. CASE UNCHANGED <<m_connected, sendVars>>
    <3>1. SendTypeOK'
      BY <1>0, <2>2, Zenon DEF SendTypeOK, sendVars
    <3> QED
      BY <2>1, <3>1, Zenon
  <2>3. ASSUME NEW ms \in Seq(Replies), QueueAndSend(c, ms) PROVE SendTypeOK'
    <3>1. SendPost(c, m_send_messages[c] \o ms) /\ queued' \in [Ids -> Seq(Replies)]
      BY <1>0, <2>3, QueueAndSendStep, Zenon DEF SendTypeOK
    <3> QED
      BY <3>1, SendTypeStep, Zenon
  <2>4. \/ UNCHANGED <<m_connected, sendVars>>
        \/ \E ms \in Seq(Replies) : QueueAndSend(c, ms)
    BY <1>26, WorkMessages, Zenon
  <2> QED
    BY <2>1, <2>2, <2>3, <2>4, Zenon
<1> QED
  <2>1. SendTypeOK' /\ OtherTypeOK'
    BY <1>1, <1>2, <1>3, <1>4, <1>5, <1>6, <1>7, <1>8, <1>9, <1>10, <1>11, <1>12, <1>13, <1>14, <1>15, <1>16, <1>17, <1>18, <1>19, <1>20, <1>21, <1>22, <1>23, <1>24, <1>25, <1>26, Zenon DEF Next, SocketsThread, ClientThread
  <2> QED
    BY <2>1, TypeParts, PTL

-----------------------------------------------------------------------------
-----------------------------------------------------------------------------
(* The sockets thread and the clients. *)

\* What SendPost leaves of a client that is not ready.
LEMMA SendClientInv ==
  ASSUME Inv, NEW c \in Ids, NEW queue, SendPost(c, queue), ~ready[c] => queue = <<>>,
         UNCHANGED <<ready, statusVars, thread>>
  PROVE  ClientInv'
<1>1. ClientInv
  BY Zenon DEF Inv, LocalInv
<1>2. \A d \in Ids : ~ready[d] => m_send_buffer'[d] = <<>> /\ m_send_messages'[d] = <<>>
  BY <1>1, Zenon DEF ClientInv, SendPost
<1> QED
  BY <1>1, <1>2, Zenon DEF ClientInv, statusVars

LEMMA LocalStep ==
  ASSUME Inv, Next
  PROVE  LocalInv'
<1>0. LoopInv /\ ClientInv /\ SendTypeOK /\ StatusTypeOK /\ LoopTypeOK /\ PeerTypeOK
  BY TypeParts, Zenon DEF Inv, LocalInv, OtherTypeOK
<1>1. ASSUME DisconnectFlagged PROVE LoopInv' /\ ClientInv'
  <2>1. LoopInv'
    BY <1>0, <1>1, Zenon DEF DisconnectFlagged, Goto, LoopInv, LoopTypeOK
  <2>2. ClientInv'
    BY <1>0, <1>1, Zenon DEF DisconnectFlagged, statusVars, sendVars, threadVars, ClientInv, LoopInv, SendTypeOK, StatusTypeOK, LoopTypeOK, PeerTypeOK
  <2> QED
    BY <2>1, <2>2, Zenon
<1>2. ASSUME SocketsThreadEnd PROVE LoopInv' /\ ClientInv'
  <2>1. LoopInv'
    BY <1>0, <1>2, Zenon DEF SocketsThreadEnd, Goto, LoopInv, LoopTypeOK
  <2>2. ClientInv'
    BY <1>0, <1>2, Zenon DEF SocketsThreadEnd, statusVars, sendVars, threadVars, ClientInv, LoopInv, SendTypeOK, StatusTypeOK, LoopTypeOK, PeerTypeOK
  <2> QED
    BY <2>1, <2>2, Zenon
<1>3. ASSUME GenerateWaitSockets PROVE LoopInv' /\ ClientInv'
  <2>1. LoopInv'
    BY <1>0, <1>3, ZenonT(30) DEF GenerateWaitSockets, Goto, LoopInv, LoopTypeOK
  <2>2. ClientInv'
    BY <1>0, <1>3, Zenon DEF GenerateWaitSockets, statusVars, sendVars, threadVars, ClientInv, LoopInv, SendTypeOK, StatusTypeOK, LoopTypeOK, PeerTypeOK
  <2> QED
    BY <2>1, <2>2, Zenon
<1>4. ASSUME EventGotData PROVE LoopInv' /\ ClientInv'
  <2>1. LoopInv'
    BY <1>0, <1>4, SMTT(30) DEF EventGotData, Goto, LoopInv, LoopTypeOK
  <2>2. ClientInv'
    BY <1>0, <1>4, Zenon DEF EventGotData, statusVars, sendVars, threadVars, ClientInv, LoopInv, SendTypeOK, StatusTypeOK, LoopTypeOK, PeerTypeOK
  <2> QED
    BY <2>1, <2>2, Zenon
<1>5. ASSUME EventGotEOF PROVE LoopInv' /\ ClientInv'
  <2>1. LoopInv'
    BY <1>0, <1>5, SMTT(30) DEF EventGotEOF, Goto, LoopInv, LoopTypeOK
  <2>2. ClientInv'
    BY <1>0, <1>5, Zenon DEF EventGotEOF, statusVars, sendVars, threadVars, ClientInv, LoopInv, SendTypeOK, StatusTypeOK, LoopTypeOK, PeerTypeOK
  <2> QED
    BY <2>1, <2>2, Zenon
<1>6. ASSUME NoSocket PROVE LoopInv' /\ ClientInv'
  <2>1. LoopInv'
    BY <1>0, <1>6, SMTT(30) DEF NoSocket, Goto, LoopInv, LoopTypeOK
  <2>2. ClientInv'
    BY <1>0, <1>6, Zenon DEF NoSocket, statusVars, sendVars, threadVars, ClientInv, LoopInv, SendTypeOK, StatusTypeOK, LoopTypeOK, PeerTypeOK
  <2> QED
    BY <2>1, <2>2, Zenon
<1>7. ASSUME SocketHandlerListening PROVE LoopInv' /\ ClientInv'
  <2>1. LoopInv'
    BY <1>0, <1>7, SMTT(30) DEF SocketHandlerListening, Goto, LoopInv, LoopTypeOK
  <2>2. ClientInv'
    BY <1>0, <1>7, Zenon DEF SocketHandlerListening, statusVars, sendVars, threadVars, ClientInv, LoopInv, SendTypeOK, StatusTypeOK, LoopTypeOK, PeerTypeOK
  <2> QED
    BY <2>1, <2>2, Zenon
<1>8. ASSUME DataDone PROVE LoopInv' /\ ClientInv'
  <2>1. LoopInv'
    BY <1>0, <1>8, SMTT(30) DEF DataDone, Goto, DataFrame, LoopInv, LoopTypeOK
  <2>2. ClientInv'
    BY <1>0, <1>8, Zenon DEF DataDone, threadVars, DataFrame, statusVars, sendVars, ClientInv, LoopInv, SendTypeOK, StatusTypeOK, LoopTypeOK, PeerTypeOK
  <2> QED
    BY <2>1, <2>2, Zenon
<1>9. ASSUME Handshake PROVE LoopInv' /\ ClientInv'
  <2>1. LoopInv'
    BY <1>0, <1>9, SMTT(30) DEF Handshake, Goto, NextMessage, DataFrame, LoopInv, LoopTypeOK
  <2>2. ClientInv'
    BY <1>0, <1>9 DEF Handshake, threadVars, DataFrame, statusVars, ClientInv, LoopInv, SendTypeOK, StatusTypeOK, LoopTypeOK, PeerTypeOK
  <2> QED
    BY <2>1, <2>2, Zenon
<1>10. ASSUME ReceiveMessage PROVE LoopInv' /\ ClientInv'
  <2>1. LoopInv'
    BY <1>0, <1>10, SMTT(30) DEF ReceiveMessage, Goto, NextMessage, Abandon, DataFrame, LoopInv, LoopTypeOK
  <2>2. ClientInv'
    BY <1>0, <1>10, Zenon DEF ReceiveMessage, threadVars, DataFrame, statusVars, sendVars, ClientInv, LoopInv, SendTypeOK, StatusTypeOK, LoopTypeOK, PeerTypeOK
  <2> QED
    BY <2>1, <2>2, Zenon
<1>11. ASSUME SetupConnection PROVE LoopInv' /\ ClientInv'
  <2>1. LoopInv'
    BY <1>0, <1>11, Zenon DEF SetupConnection, Queue, Goto, NextMessage, DataFrame, LoopInv, LoopTypeOK, Handle
  <2>2. ClientInv'
    <3>0. id \in Ids /\ ready[id] /\ UNCHANGED <<ready, m_send_buffer, thread>>
      BY <1>0, <1>11, Zenon DEF SetupConnection, Handle, DataFrame, threadVars, LoopInv, LoopTypeOK
    <3>1. \A d \in Ids \ {id} : /\ m_send_messages'[d] = m_send_messages[d]
                              /\ m_setup_connection_confirmed'[d] = m_setup_connection_confirmed[d]
      BY <1>0, <1>11, Zenon DEF SetupConnection, Queue, SendTypeOK, StatusTypeOK
    <3>2. m_setup_connection_confirmed[id] => m_setup_connection_confirmed'[id]
      BY <1>0, <1>11, <3>0, Zenon DEF SetupConnection, StatusTypeOK
    <3> QED
      BY <1>0, <3>0, <3>1, <3>2, Zenon DEF ClientInv
  <2> QED
    BY <2>1, <2>2, Zenon
<1>12. ASSUME CoinbaseOutputConstraints PROVE LoopInv' /\ ClientInv'
  <2>1. LoopInv'
    BY <1>0, <1>12, SMTT(30) DEF CoinbaseOutputConstraints, Goto, NextMessage, DataFrame, LoopInv, LoopTypeOK, Handle
  <2>2. ClientInv'
    BY <1>0, <1>12, Zenon DEF CoinbaseOutputConstraints, threadVars, DataFrame, sendVars, ClientInv, LoopInv, SendTypeOK, StatusTypeOK, LoopTypeOK, PeerTypeOK
  <2> QED
    BY <2>1, <2>2, Zenon
<1>13. ASSUME CoinbaseOutputSize PROVE LoopInv' /\ ClientInv'
  <2>1. LoopInv'
    BY <1>0, <1>13, SMTT(30) DEF CoinbaseOutputSize, Goto, NextMessage, DataFrame, LoopInv, LoopTypeOK
  <2>2. ClientInv'
    BY <1>0, <1>13, Zenon DEF CoinbaseOutputSize, threadVars, DataFrame, sendVars, ClientInv, LoopInv, SendTypeOK, StatusTypeOK, LoopTypeOK, PeerTypeOK
  <2> QED
    BY <2>1, <2>2, Zenon
<1>14. ASSUME SubmitSolution PROVE LoopInv' /\ ClientInv'
  <2>1. LoopInv'
    BY <1>0, <1>14, SMTT(30) DEF SubmitSolution, Goto, NextMessage, DataFrame, LoopInv, LoopTypeOK, Handle
  <2>2. ClientInv'
    BY <1>0, <1>14, Zenon DEF SubmitSolution, threadVars, DataFrame, statusVars, sendVars, ClientInv, LoopInv, SendTypeOK, StatusTypeOK, LoopTypeOK, PeerTypeOK
  <2> QED
    BY <2>1, <2>2, Zenon
<1>15. ASSUME ProviderThrows PROVE LoopInv' /\ ClientInv'
  <2>1. LoopInv'
    BY <1>0, <1>15, SMTT(30) DEF ProviderThrows, Goto, Abandon, DataFrame, LoopInv, LoopTypeOK, Handle
  <2>2. ClientInv'
    BY <1>0, <1>15, Zenon DEF ProviderThrows, threadVars, DataFrame, statusVars, sendVars, ClientInv, LoopInv, SendTypeOK, StatusTypeOK, LoopTypeOK, PeerTypeOK
  <2> QED
    BY <2>1, <2>2, Zenon
<1>16. ASSUME IgnoreMessage PROVE LoopInv' /\ ClientInv'
  <2>1. LoopInv'
    BY <1>0, <1>16, SMTT(30) DEF IgnoreMessage, Goto, NextMessage, DataFrame, LoopInv, LoopTypeOK, Handle
  <2>2. ClientInv'
    BY <1>0, <1>16, Zenon DEF IgnoreMessage, threadVars, DataFrame, statusVars, sendVars, ClientInv, LoopInv, SendTypeOK, StatusTypeOK, LoopTypeOK, PeerTypeOK
  <2> QED
    BY <2>1, <2>2, Zenon
<1>17. ASSUME Interrupt PROVE LoopInv' /\ ClientInv'
  <2>1. LoopInv'
    BY <1>0, <1>17, SMTT(30) DEF Interrupt, loopVars, LoopInv, LoopTypeOK
  <2>2. ClientInv'
    BY <1>0, <1>17, Zenon DEF Interrupt, statusVars, sendVars, threadVars, ClientInv, LoopInv, SendTypeOK, StatusTypeOK, LoopTypeOK, PeerTypeOK
  <2> QED
    BY <2>1, <2>2, Zenon
<1>18. ASSUME NEW c \in Ids, ReadyToReceive(c) PROVE LoopInv' /\ ClientInv'
  <2>1. LoopInv'
    BY <1>0, <1>18, SMTT(30) DEF ReadyToReceive, Goto, LoopInv, LoopTypeOK
  <2>2. ClientInv'
    BY <1>0, <1>18, Zenon DEF ReadyToReceive, statusVars, sendVars, threadVars, ClientInv, LoopInv, SendTypeOK, StatusTypeOK, LoopTypeOK, PeerTypeOK
  <2> QED
    BY <2>1, <2>2, Zenon
<1>19. ASSUME NEW c \in Ids, PeerSend(c) PROVE LoopInv' /\ ClientInv'
  <2>1. LoopInv'
    BY <1>0, <1>19, SMTT(30) DEF PeerSend, loopVars, LoopInv, LoopTypeOK
  <2>2. ClientInv'
    BY <1>0, <1>19, Zenon DEF PeerSend, statusVars, sendVars, threadVars, ClientInv, LoopInv, SendTypeOK, StatusTypeOK, LoopTypeOK, PeerTypeOK
  <2> QED
    BY <2>1, <2>2, Zenon
<1>20. ASSUME NEW c \in Ids, PeerClose(c) PROVE LoopInv' /\ ClientInv'
  <2>1. LoopInv'
    BY <1>0, <1>20, SMTT(30) DEF PeerClose, loopVars, LoopInv, LoopTypeOK
  <2>2. ClientInv'
    BY <1>0, <1>20, Zenon DEF PeerClose, statusVars, sendVars, threadVars, ClientInv, LoopInv, SendTypeOK, StatusTypeOK, LoopTypeOK, PeerTypeOK
  <2> QED
    BY <2>1, <2>2, Zenon
<1>21. ASSUME NEW c \in Ids, SpawnThread(c) PROVE LoopInv' /\ ClientInv'
  <2>1. LoopInv'
    BY <1>0, <1>21, SMTT(30) DEF SpawnThread, loopVars, ThreadFrame, LoopInv, LoopTypeOK
  <2>2. ClientInv'
    BY <1>0, <1>21 DEF SpawnThread, statusVars, ThreadFrame, sendVars, IsFullyConnected, ClientInv, LoopInv, SendTypeOK, StatusTypeOK, LoopTypeOK, PeerTypeOK
  <2> QED
    BY <2>1, <2>2, Zenon
<1>22. ASSUME NEW c \in Ids, PrepareBlockCreateOptions(c) PROVE LoopInv' /\ ClientInv'
  <2>1. LoopInv'
    BY <1>0, <1>22, SMTT(30) DEF PrepareBlockCreateOptions, loopVars, ThreadFrame, LoopInv, LoopTypeOK
  <2>2. ClientInv'
    BY <1>0, <1>22, SMTT(30) DEF PrepareBlockCreateOptions, statusVars, ThreadFrame, sendVars, ClientInv, LoopInv, SendTypeOK, StatusTypeOK, LoopTypeOK, PeerTypeOK
  <2> QED
    BY <2>1, <2>2, Zenon
<1>23. ASSUME NEW c \in Ids, ThreadEnd(c) PROVE LoopInv' /\ ClientInv'
  <2>1. LoopInv'
    BY <1>0, <1>23, Zenon DEF ThreadEnd, loopVars, ThreadFrame, LoopInv, LoopTypeOK
  <2>2. ClientInv'
    BY <1>0, <1>23 DEF ThreadEnd, statusVars, ThreadFrame, sendVars, ClientInv, LoopInv, SendTypeOK, StatusTypeOK, LoopTypeOK, PeerTypeOK
  <2> QED
    BY <2>1, <2>2, Zenon
<1>24. ASSUME NEW c \in Ids, EventReadyToSend(c) PROVE LoopInv' /\ ClientInv'
  <2>1. LoopInv'
    BY <1>0, <1>24, ZenonT(30) DEF EventReadyToSend, Goto, LoopInv
  <2>2. CASE c \in m_sv2_clients
    <3>1. PICK k, p, fails : SendMessagesAsBytes(c, m_send_messages[c], k, p, fails)
      BY <1>24, <2>2, Zenon DEF EventReadyToSend
    <3>2. SendPost(c, m_send_messages[c])
      BY <1>0, <3>1, SendStep, ZenonT(30) DEF Inv, ClientInv, SendTypeOK
    <3>3. UNCHANGED <<ready, statusVars, thread>>
      BY <1>24, Zenon DEF EventReadyToSend, threadVars
    <3> QED
      BY <1>0, <2>1, <3>2, <3>3, SendClientInv, Zenon DEF ClientInv
  <2>3. CASE c \notin m_sv2_clients
    BY <1>0, <1>24, <2>1, <2>3, Zenon DEF EventReadyToSend, statusVars, threadVars, ClientInv
  <2> QED
    BY <2>2, <2>3, Zenon
<1>25. ASSUME RequestTransactionData PROVE LoopInv' /\ ClientInv'
  <2>1. LoopInv'
    BY <1>0, <1>25, Zenon DEF RequestTransactionData, Handle, NextMessage, Goto, DataFrame, LoopInv
  <2>2. id \in Ids /\ ready[id] /\ UNCHANGED <<ready, statusVars, thread>>
    BY <1>0, <1>25, Zenon DEF RequestTransactionData, Handle, DataFrame, threadVars, LoopInv, LoopTypeOK
  <2>3. CASE Queue(<<"TxError">>) /\ UNCHANGED <<m_connected, m_send_buffer, wire>>
    BY <1>0, <2>1, <2>2, <2>3, Zenon DEF Queue, ClientInv, statusVars, SendTypeOK
  <2>4. CASE QueueAndSend(id, <<"TxData">>)
    <3>1. <<"TxData">> \in Seq(Replies)
      BY DEF Replies
    <3>2. SendPost(id, m_send_messages[id] \o <<"TxData">>)
      BY <2>2, <2>4, <3>1, QueueAndSendStep, Zenon
    <3> QED
      BY <2>1, <2>2, <3>2, SendClientInv, Zenon
  <2> QED
    BY <1>25, <2>3, <2>4, Zenon DEF RequestTransactionData
<1>26. ASSUME NEW c \in Ids, SendWork(c) PROVE LoopInv' /\ ClientInv'
  <2>1. LoopInv' /\ ready[c] /\ UNCHANGED <<ready, statusVars, thread>>
    BY <1>0, <1>26, Zenon DEF SendWork, ThreadFrame, loopVars, LoopInv, ClientInv
  <2>2. CASE UNCHANGED sendVars
    BY <1>0, <2>1, <2>2, Zenon DEF sendVars, statusVars, ClientInv
  <2>3. ASSUME NEW ms \in Seq(Replies), QueueAndSend(c, ms) PROVE ClientInv'
    BY <2>1, <2>3, QueueAndSendStep, SendClientInv, Zenon
  <2>4. UNCHANGED sendVars \/ \E ms \in Seq(Replies) : QueueAndSend(c, ms)
    BY <1>26, WorkMessages, Zenon
  <2> QED
    BY <2>1, <2>2, <2>3, <2>4, Zenon
<1> QED
  BY <1>1, <1>2, <1>3, <1>4, <1>5, <1>6, <1>7, <1>8, <1>9, <1>10, <1>11, <1>12, <1>13, <1>14, <1>15, <1>16, <1>17, <1>18, <1>19, <1>20, <1>21, <1>22, <1>23, <1>24, <1>25, <1>26, SMTT(30) DEF Next, SocketsThread, ClientThread, LocalInv

-----------------------------------------------------------------------------
(* The order of the messages. *)

\* What is queued at the end comes last.
LEMMA BacklogGrows ==
  ASSUME Inv, InOrder, NEW c \in Ids, NEW ms \in Seq(Replies)
  PROVE  queued[c] \o ms = wire[c] \o Backlog(c, m_send_messages[c] \o ms)
<1> DEFINE buf == [i \in DOMAIN m_send_buffer[c] |-> m_send_buffer[c][i].msg]
<1>1. /\ m_send_messages[c] \in Seq(Replies) /\ wire[c] \in Seq(Replies)
      /\ m_send_buffer[c] \in Seq(Buffered)
  BY Zenon DEF Inv, TypeOK, Buffered
<1>2. buf \in Seq(Replies)
  BY <1>1, MsgsType, Zenon
<1>3. queued[c] = wire[c] \o (buf \o m_send_messages[c])
  BY Zenon DEF InOrder, Backlog
<1>4. Backlog(c, m_send_messages[c] \o ms) = buf \o (m_send_messages[c] \o ms)
  BY Zenon DEF Backlog
<1> HIDE DEF buf
<1>5. buf \o m_send_messages[c] \in Seq(Replies)
  BY <1>1, <1>2, ConcatProperties, Zenon
<1>6. (wire[c] \o (buf \o m_send_messages[c])) \o ms = wire[c] \o ((buf \o m_send_messages[c]) \o ms)
  BY <1>1, <1>5, Assoc, ZenonT(30)
<1>7. (buf \o m_send_messages[c]) \o ms = buf \o (m_send_messages[c] \o ms)
  BY <1>1, <1>2, Assoc, Zenon
<1> QED
  BY <1>3, <1>4, <1>6, <1>7, Zenon

\* Queueing without sending keeps the order.
LEMMA QueueOrder ==
  ASSUME Inv, InOrder, id \in Ids, NEW ms \in Seq(Replies), Queue(ms), UNCHANGED <<m_send_buffer, wire>>
  PROVE  InOrder'
<1>1. queued[id] \o ms = wire[id] \o Backlog(id, m_send_messages[id] \o ms)
  BY BacklogGrows, Zenon
<1>2. /\ queued'[id] = queued[id] \o ms /\ m_send_messages'[id] = m_send_messages[id] \o ms
      /\ \A d \in Ids \ {id} : queued'[d] = queued[d] /\ m_send_messages'[d] = m_send_messages[d]
  BY Zenon DEF Queue, Inv, TypeOK
<1> QED
  BY <1>1, <1>2, Zenon DEF InOrder, Backlog

\* So does sending.
LEMMA SendOrder ==
  ASSUME InOrder, NEW c \in Ids, NEW queue, SendPost(c, queue),
         queued'[c] = wire[c] \o Backlog(c, queue), \A d \in Ids \ {c} : queued'[d] = queued[d]
  PROVE  InOrder'
<1>1. queued'[c] = wire'[c] \o Backlog(c, m_send_messages[c])'
  BY Zenon DEF SendPost
<1>2. \A d \in Ids \ {c} : queued'[d] = wire'[d] \o Backlog(d, m_send_messages[d])'
  BY Zenon DEF InOrder, SendPost, Backlog
<1> QED
  BY <1>1, <1>2, Zenon DEF InOrder, Backlog

LEMMA QueueAndSendOrder ==
  ASSUME Inv, InOrder, NEW c \in Ids, NEW ms \in Seq(Replies), QueueAndSend(c, ms)
  PROVE  InOrder'
<1>1. SendPost(c, m_send_messages[c] \o ms) /\ queued' = [queued EXCEPT ![c] = @ \o ms]
  BY QueueAndSendStep, Zenon
<1>2. queued[c] \o ms = wire[c] \o Backlog(c, m_send_messages[c] \o ms)
  BY BacklogGrows, Zenon
<1>3. queued'[c] = queued[c] \o ms /\ \A d \in Ids \ {c} : queued'[d] = queued[d]
  BY <1>1, Zenon DEF Inv, TypeOK
<1> QED
  BY <1>1, <1>2, <1>3, SendOrder, Zenon

LEMMA OrderStep ==
  ASSUME Inv, InOrder, Next
  PROVE  InOrder'
<1>1. CASE UNCHANGED sendVars
  BY <1>1, Zenon DEF sendVars, InOrder, Backlog
<1>2. CASE Handshake
  <2>0. PICK c \in Ids : c = id
    BY <1>2, Zenon DEF Handshake, Inv, LocalInv, LoopInv, TypeOK
  <2>1. m_send_buffer[c] = <<>> /\ m_send_messages[c] = <<>> /\ queued[c] = wire[c] \o Backlog(c, <<>>)
    BY <1>2, <2>0, Zenon DEF Handshake, Inv, LocalInv, ClientInv, InOrder
  <2>2. wire[c] \in Seq(Replies) /\ "HandshakeReply" \in Replies /\ Parts \in 1..Parts
    BY ConstantsOK DEF Inv, TypeOK, Replies
  <2>3. Backlog(c, <<>>) = <<>>
    <3>1. [i \in DOMAIN m_send_buffer[c] |-> m_send_buffer[c][i].msg] = <<>>
      BY <2>1, NoneBuffered, Zenon
    <3> QED
      BY <3>1, EmptySeq, ConcatEmptySeq, Zenon DEF Backlog
  <2>4. queued[c] = wire[c]
    BY <2>1, <2>2, <2>3, ConcatEmptySeq, SMTT(30)
  <2>5. /\ queued'[c] = Append(wire[c], "HandshakeReply")
        /\ m_send_buffer'[c] = <<[msg |-> "HandshakeReply", left |-> Parts]>>
        /\ UNCHANGED <<wire, m_send_messages>>
        /\ \A d \in Ids \ {c} : queued'[d] = queued[d] /\ m_send_buffer'[d] = m_send_buffer[d]
    BY <1>2, <2>0, <2>4, Zenon DEF Handshake, Inv, TypeOK
  <2>6. [i \in DOMAIN m_send_buffer'[c] |-> m_send_buffer'[c][i].msg] = <<"HandshakeReply">>
    BY <2>2, <2>5, OneBuffered, ZenonT(30)
  <2>7. Backlog(c, m_send_messages[c])' = <<"HandshakeReply">> \o <<>>
    <3>1. m_send_messages'[c] = <<>>
      BY <2>1, <2>5, SMTT(30)
    <3>2. Backlog(c, m_send_messages[c])'
            = [i \in DOMAIN m_send_buffer'[c] |-> m_send_buffer'[c][i].msg] \o m_send_messages'[c]
      BY Zenon DEF Backlog
    <3> QED
      BY <2>6, <3>1, <3>2, Zenon
  <2>8. <<"HandshakeReply">> \in Seq(Replies)
    BY <2>2
  <2>9. Backlog(c, m_send_messages[c])' = <<"HandshakeReply">>
    BY <2>7, <2>8, ConcatEmptySeq, SMTT(30)
  <2>10. queued'[c] = wire'[c] \o Backlog(c, m_send_messages[c])'
    BY <2>2, <2>5, <2>9, AppendIsConcat, SMTT(30)
  <2>11. \A d \in Ids \ {c} : queued'[d] = wire'[d] \o Backlog(d, m_send_messages[d])'
    BY <2>5, Zenon DEF InOrder, Backlog
  <2> QED
    BY <2>10, <2>11, Zenon DEF InOrder
<1>3. CASE SetupConnection
  <2>1. id \in Ids /\ UNCHANGED <<m_send_buffer, wire>>
    BY <1>3, Zenon DEF SetupConnection, Handle, Inv, LocalInv, LoopInv, TypeOK
  <2>2. <<"SetupSuccess">> \in Seq(Replies) /\ <<"SetupError">> \in Seq(Replies)
    BY DEF Replies
  <2>3. CASE UNCHANGED <<m_send_messages, queued>>
    BY <1>1, <2>1, <2>3, Zenon DEF sendVars
  <2>4. \/ UNCHANGED <<m_send_messages, queued>>
        \/ Queue(<<"SetupSuccess">>) \/ Queue(<<"SetupError">>)
    BY <1>3, Zenon DEF SetupConnection
  <2> QED
    BY <2>1, <2>2, <2>3, <2>4, QueueOrder, Zenon
<1>4. CASE RequestTransactionData
  <2>1. id \in Ids /\ <<"TxError">> \in Seq(Replies) /\ <<"TxData">> \in Seq(Replies)
    BY <1>4, SMTT(30) DEF RequestTransactionData, Handle, Inv, LocalInv, LoopInv, TypeOK, Replies
  <2> QED
    BY <1>4, <2>1, QueueOrder, QueueAndSendOrder, Zenon DEF RequestTransactionData
<1>5. ASSUME NEW c \in Ids, SendWork(c) PROVE InOrder'
  BY <1>1, <1>5, WorkMessages, QueueAndSendOrder, Zenon
<1>6. ASSUME NEW c \in Ids, EventReadyToSend(c) PROVE InOrder'
  <2>1. queued' = queued
    BY <1>6, Zenon DEF EventReadyToSend
  <2>2. CASE c \in m_sv2_clients
    <3>1. PICK k, p, fails : SendMessagesAsBytes(c, m_send_messages[c], k, p, fails)
      BY <1>6, <2>2, SMTT(30) DEF EventReadyToSend
    <3>2. SendPost(c, m_send_messages[c])
      BY <3>1, SendStep, Zenon DEF Inv, TypeOK, LocalInv, ClientInv
    <3>3. queued'[c] = wire[c] \o Backlog(c, m_send_messages[c])
      BY <2>1, Zenon DEF InOrder
    <3> QED
      BY <2>1, <3>2, <3>3, SendOrder, ZenonT(30)
  <2>3. CASE c \notin m_sv2_clients
    BY <1>1, <1>6, <2>3, Zenon DEF EventReadyToSend, sendVars
  <2> QED
    BY <2>2, <2>3, Zenon
<1>7. CASE \/ DisconnectFlagged \/ SocketsThreadEnd \/ GenerateWaitSockets \/ EventGotData \/ EventGotEOF
           \/ NoSocket \/ SocketHandlerListening \/ Interrupt
           \/ \E c \in Ids : ReadyToReceive(c) \/ PeerSend(c) \/ PeerClose(c)
  BY Zenon, <1>1, <1>7 DEF DisconnectFlagged, SocketsThreadEnd, GenerateWaitSockets, EventGotData, EventGotEOF,
       NoSocket, SocketHandlerListening, Interrupt, ReadyToReceive, PeerSend, PeerClose
<1>8. CASE \/ DataDone \/ ReceiveMessage \/ CoinbaseOutputConstraints \/ CoinbaseOutputSize \/ SubmitSolution
           \/ ProviderThrows \/ IgnoreMessage
           \/ \E c \in Ids : SpawnThread(c) \/ PrepareBlockCreateOptions(c) \/ ThreadEnd(c)
  BY Zenon, <1>1, <1>8 DEF DataDone, ReceiveMessage, CoinbaseOutputConstraints, CoinbaseOutputSize, SubmitSolution,
       ProviderThrows, IgnoreMessage, SpawnThread, PrepareBlockCreateOptions, ThreadEnd
<1> QED
  BY <1>2, <1>3, <1>4, <1>5, <1>6, <1>7, <1>8, Zenon DEF Next, SocketsThread, ClientThread

-----------------------------------------------------------------------------

LEMMA InitInv == Init => Inv /\ InOrder
<1> SUFFICES ASSUME Init PROVE Inv /\ InOrder
  BY Zenon
<1>1. <<>> \in Seq(Replies) /\ <<>> \in Seq(Buffered) /\ <<>> \in Seq(Received) /\ Len(<<>>) = 0
  BY EmptySeq, Zenon
<1>2. SendTypeOK
  BY <1>1 DEF Init, SendTypeOK
<1>3. OtherTypeOK
  <2>1. StatusTypeOK
    BY Zenon DEF Init, StatusTypeOK
  <2>2. LoopTypeOK
    <3>1. NoEvents \in [send : SUBSET Ids, recv : SUBSET Ids, err : SUBSET Ids]
      BY Zenon DEF NoEvents
    <3>2. 0 \in 0..MaxId
      BY ConstantsOK
    <3> QED
      BY <1>1, <3>1, <3>2, Zenon DEF Init, LoopTypeOK
  <2>3. PeerTypeOK
    BY <1>1, ConstantsOK DEF Init, PeerTypeOK
  <2> QED
    BY <2>1, <2>2, <2>3, Zenon DEF OtherTypeOK
<1>4. LocalInv
  BY Zenon DEF Init, LocalInv, LoopInv, ClientInv
<1>5. InOrder
  <2>1. \A c \in Ids : m_send_buffer[c] = <<>> /\ m_send_messages[c] = <<>> /\ queued[c] = <<>> /\ wire[c] = <<>>
    BY Zenon DEF Init
  <2>2. \A c \in Ids : [i \in DOMAIN m_send_buffer[c] |-> m_send_buffer[c][i].msg] = <<>>
    BY <2>1
  <2>3. <<>> \o (<<>> \o <<>>) = <<>>
    BY <1>1, ConcatEmptySeq, Zenon
  <2> QED
    BY <2>1, <2>2, <2>3, ZenonT(30) DEF InOrder, Backlog
<1> QED
  BY <1>2, <1>3, <1>4, <1>5, TypeParts, Zenon DEF Inv

LEMMA InvStep == Inv /\ InOrder /\ [Next]_vars => (Inv /\ InOrder)'
<1>1. ASSUME Inv, InOrder, Next PROVE (Inv /\ InOrder)'
  BY <1>1, TypeStep, LocalStep, OrderStep, Zenon DEF Inv
<1>2. ASSUME Inv, InOrder, UNCHANGED vars PROVE (Inv /\ InOrder)'
  <2> USE <1>2 DEF vars, sockVars, statusVars, sendVars, loopVars, peerVars, threadVars
  <2>1. TypeOK'
    BY Zenon DEF Inv, TypeOK
  <2>2. LocalInv'
    BY SMTT(30) DEF Inv, LocalInv, LoopInv, ClientInv
  <2>3. InOrder'
    BY Zenon DEF InOrder, Backlog
  <2> QED
    BY <2>1, <2>2, <2>3, Zenon DEF Inv
<1> QED
  BY <1>1, <1>2, Zenon

\* Every field keeps its type, whatever connects, sends, fails or is interrupted: the
\* transport's send buffer never holds two messages, nor one of which nothing is left to
\* send (Sv2Transport::SetMessageToSend, MarkBytesSent).
THEOREM ConnTypeCorrect == Spec => []TypeOK
<1> QED
  BY InitInv, InvStep, PTL DEF Spec, Inv

\* Whatever is queued for a client reaches the kernel in the order in which it was queued,
\* once each: the queue, the transport's buffer and what was sent always add up
\* (SendMessagesAsBytes and every place that appends to m_send_messages).
THEOREM OrderCorrect == Spec => []InOrder
<1> QED
  BY InitInv, InvStep, PTL DEF Spec

-----------------------------------------------------------------------------
(* Removed clients, and the answer to SetupConnection. *)

\* A client that may still be answered has not been answered.
SetupInv ==
  /\ sock = "handle" /\ ~m_setup_connection_confirmed[id] => Is(queued[id], SetupReplies) = {}
  /\ \A c \in Ids : ~m_setup_connection_confirmed[c] /\ ~m_disconnect_flag[c]
                       => Is(queued[c], SetupReplies) = {}


\* The steps that queue nothing.
LEMMA NothingQueued ==
  ASSUME Next, ~Handshake, ~SetupConnection, ~RequestTransactionData, \A c \in Ids : ~SendWork(c)
  PROVE  UNCHANGED <<queued, m_setup_connection_confirmed>>
<1>1. CASE \/ DisconnectFlagged \/ SocketsThreadEnd \/ GenerateWaitSockets \/ EventGotData \/ EventGotEOF
           \/ NoSocket \/ SocketHandlerListening \/ Interrupt
           \/ \E c \in Ids : ReadyToReceive(c) \/ PeerSend(c) \/ PeerClose(c) \/ EventReadyToSend(c)
  BY Zenon, <1>1 DEF DisconnectFlagged, SocketsThreadEnd, GenerateWaitSockets, EventGotData, EventGotEOF, NoSocket,
       SocketHandlerListening, Interrupt, ReadyToReceive, PeerSend, PeerClose, EventReadyToSend, sendVars, statusVars
<1>2. CASE \/ DataDone \/ ReceiveMessage \/ CoinbaseOutputConstraints \/ CoinbaseOutputSize \/ SubmitSolution
           \/ ProviderThrows \/ IgnoreMessage
           \/ \E c \in Ids : SpawnThread(c) \/ PrepareBlockCreateOptions(c) \/ ThreadEnd(c)
  BY Zenon, <1>2 DEF DataDone, ReceiveMessage, CoinbaseOutputConstraints, CoinbaseOutputSize, SubmitSolution,
       ProviderThrows, IgnoreMessage, SpawnThread, PrepareBlockCreateOptions, ThreadEnd, ThreadFrame, sendVars, statusVars
<1> QED
  BY <1>1, <1>2, Zenon DEF Next, SocketsThread, ClientThread

\* What a step may queue, and for whom: the sockets thread for the client it serves, a
\* client's thread for its client, both only while the client is in the map.
QueuedFor(c, kinds) ==
  /\ c \in m_sv2_clients
  /\ \E ms \in Seq(kinds) : queued' = [queued EXCEPT ![c] = @ \o ms]

\* Everything but the answers to SetupConnection.
Others == Replies \ SetupReplies

LEMMA QueuedStep ==
  ASSUME Inv, Next, ~SetupConnection
  PROVE  /\ queued' = queued \/ \E c \in Ids : QueuedFor(c, Others)
         /\ UNCHANGED m_setup_connection_confirmed
<1>0. m_sv2_clients \subseteq Ids /\ queued \in [Ids -> Seq(Replies)]
  BY Zenon DEF Inv, TypeOK
<1>1. CASE Handshake
  <2>1. id \in m_sv2_clients /\ queued' = [queued EXCEPT ![id] = Append(@, "HandshakeReply")]
    BY <1>1, Zenon DEF Handshake, Inv, LocalInv, LoopInv
  <2>2. "HandshakeReply" \in Replies /\ "HandshakeReply" \in Others
    BY Zenon DEF Replies, Others, SetupReplies
  <2>3. queued[id] \in Seq(Replies) /\ <<"HandshakeReply">> \in Seq(Others)
    BY <1>0, <2>1, <2>2
  <2>4. Append(queued[id], "HandshakeReply") = queued[id] \o <<"HandshakeReply">>
    BY <2>2, <2>3, AppendIsConcat, Zenon
  <2>5. queued' = [queued EXCEPT ![id] = @ \o <<"HandshakeReply">>]
    BY <1>0, <2>1, <2>4, Zenon
  <2> QED
    BY <1>0, <1>1, <2>1, <2>3, <2>5, Zenon DEF QueuedFor, Handshake, statusVars
<1>3. CASE RequestTransactionData
  <2>1. id \in m_sv2_clients
    BY <1>3, Zenon DEF RequestTransactionData, Handle, Inv, LocalInv, LoopInv
  <2>2. <<"TxError">> \in Seq(Others) /\ <<"TxData">> \in Seq(Others)
    BY DEF Others, Replies, SetupReplies
  <2>3. Queue(<<"TxError">>) \/ QueueAndSend(id, <<"TxData">>)
    BY <1>3, Zenon DEF RequestTransactionData
  <2> QED
    BY <1>0, <1>3, <2>1, <2>2, <2>3, ZenonT(30) DEF Queue, QueueAndSend, QueuedFor, RequestTransactionData, statusVars
<1>4. ASSUME NEW c \in Ids, SendWork(c)
      PROVE  (queued' = queued \/ QueuedFor(c, Others)) /\ UNCHANGED m_setup_connection_confirmed
  <2>1. c \in m_sv2_clients
    BY <1>4, Zenon DEF SendWork, GetClientById
  <2> QED
    BY <1>4, <2>1, WorkMessages, Zenon DEF QueueAndSend, QueuedFor, Others, SendWork, ThreadFrame, sendVars, statusVars
<1>5. CASE ~Handshake /\ ~RequestTransactionData /\ \A c \in Ids : ~SendWork(c)
  BY <1>5, NothingQueued, Zenon
<1> QED
  BY <1>1, <1>3, <1>4, <1>5, Zenon

\* SetupConnection queues an answer or nothing, and an answer only if the connection is
\* not confirmed: then it is confirmed or the client is flagged.
LEMMA SetupQueued ==
  ASSUME Inv, SetupConnection
  PROVE  /\ id \in Ids /\ id \in m_sv2_clients /\ sock = "handle" /\ sock' = "data" /\ id' = id
         /\ \/ UNCHANGED <<queued, m_setup_connection_confirmed>>
            \/ /\ ~m_setup_connection_confirmed[id]
               /\ \E m \in SetupReplies : queued' = [queued EXCEPT ![id] = @ \o <<m>>]
               /\ m_setup_connection_confirmed'[id] \/ m_disconnect_flag'[id]
               /\ \A d \in Ids \ {id} : m_setup_connection_confirmed'[d] = m_setup_connection_confirmed[d]
<1>1. /\ id \in Ids /\ id \in m_sv2_clients /\ sock = "handle" /\ sock' = "data" /\ id' = id
      /\ m_setup_connection_confirmed \in [Ids -> BOOLEAN] /\ m_disconnect_flag \in [Ids -> BOOLEAN]
  BY Zenon DEF SetupConnection, Handle, NextMessage, Goto, DataFrame, Inv, LocalInv, LoopInv, TypeOK
<1>2. \/ UNCHANGED <<queued, m_setup_connection_confirmed>>
      \/ /\ ~m_setup_connection_confirmed[id]
         /\ Queue(<<"SetupSuccess">>)
         /\ m_setup_connection_confirmed' = [m_setup_connection_confirmed EXCEPT ![id] = TRUE]
      \/ /\ ~m_setup_connection_confirmed[id]
         /\ Queue(<<"SetupError">>) /\ Flag(id) /\ UNCHANGED m_setup_connection_confirmed
  BY Zenon DEF SetupConnection, MaySetUp
<1> QED
  BY <1>1, <1>2, Zenon DEF Queue, Flag, SetupReplies

\* Nothing is queued for a client that was removed: every place that appends to
\* m_send_messages looks the client up first, under a lock or in the thread that removes
\* clients (GetClientById, DisconnectFlagged).
THEOREM SilentCorrect == Spec => SilentOnceRemoved
<1>1. ASSUME Inv, [Next]_vars
      PROVE  [\A c \in Ids : (c < m_next_id /\ c \notin m_sv2_clients) => queued'[c] = queued[c]]_vars
  <2>1. CASE UNCHANGED vars
    BY <2>1, Zenon
  <2>2. CASE Next
    <3>1. queued \in [Ids -> Seq(Replies)]
      BY <1>1, Zenon DEF Inv, TypeOK
    <3>2. CASE ~SetupConnection
      BY <1>1, <2>2, <3>1, <3>2, QueuedStep, Zenon DEF QueuedFor
    <3>3. CASE SetupConnection
      BY <1>1, <3>1, <3>3, SetupQueued, Zenon
    <3> QED
      BY <3>2, <3>3, Zenon
  <2> QED
    BY <1>1, <2>1, <2>2, Zenon
<1> QED
  BY <1>1, InitInv, InvStep, PTL DEF Spec, SilentOnceRemoved

\* Messages of other kinds do not change where the answers are; an answer is one more.
LEMMA IsConcat ==
  ASSUME NEW q \in Seq(Replies), NEW ms \in Seq(Others)
  PROVE  Is(q \o ms, SetupReplies) = Is(q, SetupReplies)
<1>1. ms \in Seq(Replies)
  BY SeqMonotonic, Zenon DEF Others
<1>2. /\ Len(q) \in Nat /\ Len(ms) \in Nat /\ DOMAIN q = 1..Len(q)
      /\ \A i \in 1..Len(ms) : ms[i] \notin SetupReplies
  BY LenProperties, ElementOfSeq DEF Others
<1>3. /\ q \o ms \in Seq(Replies) /\ Len(q \o ms) = Len(q) + Len(ms)
      /\ \A i \in 1..(Len(q) + Len(ms)) : (q \o ms)[i] = IF i <= Len(q) THEN q[i] ELSE ms[i - Len(q)]
  BY <1>1, ConcatProperties, Zenon
<1>4. DOMAIN (q \o ms) = 1..(Len(q) + Len(ms))
  BY <1>3, LenProperties, Zenon
<1> QED
  BY <1>2, <1>3, <1>4 DEF Is

LEMMA IsAppend ==
  ASSUME NEW q \in Seq(Replies), NEW m \in SetupReplies, Is(q, SetupReplies) = {}
  PROVE  \A i, j \in Is(q \o <<m>>, SetupReplies) : i = j
<1>1. m \in Replies /\ <<m>> \in Seq(Replies) /\ Len(<<m>>) = 1
  BY DEF Replies, SetupReplies
<1>2. Len(q) \in Nat /\ DOMAIN q = 1..Len(q) /\ \A i \in 1..Len(q) : q[i] \notin SetupReplies
  BY LenProperties, Zenon DEF Is
<1>3. /\ q \o <<m>> \in Seq(Replies) /\ Len(q \o <<m>>) = Len(q) + 1
      /\ \A i \in 1..(Len(q) + 1) : i <= Len(q) => (q \o <<m>>)[i] = q[i]
  BY <1>1, <1>2, ConcatProperties
<1>4. DOMAIN (q \o <<m>>) = 1..(Len(q) + 1)
  BY <1>3, LenProperties, Zenon
<1> QED
  BY <1>2, <1>3, <1>4 DEF Is

\* A flag is never taken back, and a message is handled only if the flag was not set.
LEMMA FlagsStay ==
  ASSUME Inv, Next
  PROVE  /\ \A c \in Ids : m_disconnect_flag[c] => m_disconnect_flag'[c]
         /\ sock' = "handle" => id' = id /\ id \in Ids /\ (sock = "handle" \/ ~m_disconnect_flag[id])
<1>0. m_disconnect_flag \in [Ids -> BOOLEAN] /\ LoopInv /\ m_sv2_clients \subseteq Ids
  BY Zenon DEF Inv, LocalInv, TypeOK
<1>1. CASE \/ DisconnectFlagged \/ SocketsThreadEnd \/ GenerateWaitSockets \/ EventGotData \/ EventGotEOF
           \/ NoSocket \/ SocketHandlerListening \/ \E c \in Ids : ReadyToReceive(c) \/ EventReadyToSend(c)
  BY Zenon, <1>0, <1>1 DEF DisconnectFlagged, SocketsThreadEnd, GenerateWaitSockets, EventGotData, EventGotEOF,
       NoSocket, SocketHandlerListening, ReadyToReceive, EventReadyToSend, Flag, Goto
<1>2. CASE Interrupt \/ \E c \in Ids : PeerSend(c) \/ PeerClose(c) \/ ClientThread(c)
  BY <1>0, <1>2, ZenonT(30) DEF Interrupt, PeerSend, PeerClose, ClientThread, SpawnThread, PrepareBlockCreateOptions,
       SendWork, ThreadEnd, ThreadFrame, loopVars, Flag, LoopInv
<1>3. CASE DataDone \/ Handshake \/ ReceiveMessage \/ IgnoreMessage \/ ProviderThrows
  BY Zenon, <1>0, <1>3 DEF DataDone, Handshake, ReceiveMessage, IgnoreMessage, ProviderThrows, DataFrame, NextMessage,
       Abandon, Goto, Flag, LoopInv
<1>4. CASE SetupConnection \/ CoinbaseOutputConstraints \/ CoinbaseOutputSize \/ SubmitSolution \/ RequestTransactionData
  BY Zenon, <1>0, <1>4 DEF SetupConnection, CoinbaseOutputConstraints, CoinbaseOutputSize, SubmitSolution,
       RequestTransactionData, NextMessage, Goto, Flag
<1> QED
  BY <1>1, <1>2, <1>3, <1>4, Zenon DEF Next, SocketsThread

\* The answers to SetupConnection in q.
Answers(q) == Is(q, SetupReplies)

LEMMA SetupStep ==
  ASSUME Inv, SetupInv, OneSetupReply, Next
  PROVE  SetupInv' /\ OneSetupReply'
<1>0. /\ queued \in [Ids -> Seq(Replies)] /\ m_setup_connection_confirmed \in [Ids -> BOOLEAN]
      /\ m_disconnect_flag \in [Ids -> BOOLEAN]
  BY Zenon DEF Inv, TypeOK
<1>1. \A c \in Ids : \A i, j \in Answers(queued[c]) : i = j
  BY SMTT(30) DEF OneSetupReply, Answers, SetupReplies
<1>2. CASE ~SetupConnection
  <2>1. \A c \in Ids : Answers(queued'[c]) = Answers(queued[c])
    <3>1. CASE queued' = queued
      BY <3>1, Zenon
    <3>2. ASSUME NEW c \in Ids, NEW ms \in Seq(Others), queued' = [queued EXCEPT ![c] = @ \o ms]
          PROVE  \A d \in Ids : Answers(queued'[d]) = Answers(queued[d])
      <4>1. queued[c] \in Seq(Replies)
        BY <1>0, Zenon
      <4>2. Answers(queued[c] \o ms) = Answers(queued[c])
        BY <4>1, IsConcat, Zenon DEF Answers
      <4>3. queued'[c] = queued[c] \o ms /\ \A d \in Ids \ {c} : queued'[d] = queued[d]
        BY <1>0, <3>2, Zenon
      <4> QED
        BY <4>2, <4>3, ZenonT(30)
    <3> QED
      BY <1>2, <3>1, <3>2, QueuedStep, SMTT(30) DEF QueuedFor
  <2>2. UNCHANGED m_setup_connection_confirmed
    BY <1>2, QueuedStep, Zenon
  <2>3. SetupInv'
    BY <1>0, <2>1, <2>2, FlagsStay, Zenon DEF SetupInv, Answers
  <2>4. \A c \in Ids : \A i, j \in Answers(queued'[c]) : i = j
    BY <1>1, <2>1, Zenon
  <2> QED
    BY <2>3, <2>4, Zenon DEF OneSetupReply, Answers, SetupReplies
<1>3. CASE SetupConnection
  <2>1. id \in Ids /\ sock = "handle" /\ sock' = "data" /\ id' = id
    BY <1>3, SetupQueued, Zenon
  <2>2. CASE UNCHANGED <<queued, m_setup_connection_confirmed>>
    <3>1. SetupInv'
      BY <2>1, <2>2, FlagsStay, Zenon DEF SetupInv
    <3> QED
      BY <2>2, <3>1, Zenon DEF OneSetupReply
  <2>3. CASE /\ ~m_setup_connection_confirmed[id]
             /\ \E m \in SetupReplies : queued' = [queued EXCEPT ![id] = @ \o <<m>>]
             /\ m_setup_connection_confirmed'[id] \/ m_disconnect_flag'[id]
             /\ \A d \in Ids \ {id} : m_setup_connection_confirmed'[d] = m_setup_connection_confirmed[d]
    <3>1. PICK m \in SetupReplies : queued' = [queued EXCEPT ![id] = @ \o <<m>>]
      BY <2>3, Zenon
    <3>2. Is(queued[id], SetupReplies) = {}
      BY <2>1, <2>3, Zenon DEF SetupInv
    <3>3. queued'[id] = queued[id] \o <<m>> /\ \A d \in Ids \ {id} : queued'[d] = queued[d]
      BY <1>0, <2>1, <3>1, Zenon
    <3>4. \A i, j \in Answers(queued'[id]) : i = j
      BY <1>0, <2>1, <3>2, <3>3, IsAppend, Zenon DEF Answers
    <3>5. \A c \in Ids : \A i, j \in Answers(queued'[c]) : i = j
      BY <1>1, <3>3, <3>4, Zenon
    <3>6. SetupInv'
      BY <2>1, <2>3, <3>3, FlagsStay, Zenon DEF SetupInv
    <3> QED
      BY <3>5, <3>6, SMTT(30) DEF OneSetupReply, Answers, SetupReplies
  <2> QED
    BY <1>3, <2>2, <2>3, SetupQueued, Zenon
<1> QED
  BY <1>2, <1>3, Zenon

\* SetupConnection is answered at most once, in whatever order messages arrive and
\* however client threads set the flag between the check and the handler
\* (ProcessSv2Message).
THEOREM SetupCorrect == Spec => []OneSetupReply
<1>1. Init => SetupInv /\ OneSetupReply
  BY DEF Init, SetupInv, OneSetupReply, Is
<1>2. Inv /\ SetupInv /\ OneSetupReply /\ [Next]_vars => (SetupInv /\ OneSetupReply)'
  <2>1. ASSUME UNCHANGED vars, SetupInv, OneSetupReply PROVE (SetupInv /\ OneSetupReply)'
    BY <2>1, Zenon DEF vars, SetupInv, OneSetupReply, loopVars, statusVars, sendVars
  <2> QED
    BY <2>1, SetupStep, SMTT(30)
<1> QED
  BY <1>1, <1>2, InitInv, InvStep, PTL DEF Spec

-----------------------------------------------------------------------------
\* What decides the state of a client.
stateVars == <<m_next_id, m_sv2_clients, m_coinbase_output_constraints_recv>>

\* The map holds accepted clients, and one that was not accepted yet has sent nothing.  A
\* client has a thread only if it asked for templates; so one that was flagged between
\* the check of m_disconnect_flag and the handler of a message had asked before.
ServeInv ==
  /\ \A c \in m_sv2_clients : c < m_next_id
  /\ \A c \in Ids : ~(c < m_next_id) => ~m_coinbase_output_constraints_recv[c]
  /\ \A c \in Ids : thread[c] # "none" => m_coinbase_output_constraints_recv[c]
  /\ sock = "handle" /\ m_disconnect_flag[id] => m_coinbase_output_constraints_recv[id]

WorkMessage == {"NewTemplate", "SetNewPrevHash"}

-----------------------------------------------------------------------------
(* The steps of the connection manager by what they change of what is shared. *)

\* Only the handshake, SetupConnection, RequestTransactionData and SendWork queue
\* something; these change at most a flag.
LEMMA FlagSteps ==
  ASSUME Inv, Next, ~DisconnectFlagged, ~SocketHandlerListening, ~Handshake, ~SetupConnection,
         ~CoinbaseOutputConstraints, ~RequestTransactionData, \A c \in Ids : ~SendWork(c)
  PROVE  /\ UNCHANGED <<stateVars, queued>>
         /\ \/ UNCHANGED m_disconnect_flag
            \/ \E c \in m_sv2_clients : m_disconnect_flag' = [m_disconnect_flag EXCEPT ![c] = TRUE]
<1>0. sock \in {"data", "handle", "size"} => id \in m_sv2_clients
  BY Zenon DEF Inv, LocalInv, LoopInv
<1> USE DEF stateVars, sockVars, statusVars, sendVars, Flag
<1>1. CASE SocketsThreadEnd \/ GenerateWaitSockets \/ EventGotData \/ NoSocket \/ Interrupt
           \/ \E c \in Ids : ReadyToReceive(c) \/ EventReadyToSend(c) \/ PeerSend(c) \/ PeerClose(c)
  BY <1>1, Zenon DEF SocketsThreadEnd, GenerateWaitSockets, EventGotData, NoSocket, Interrupt, ReadyToReceive,
     EventReadyToSend, PeerSend, PeerClose
<1>2. CASE DataDone \/ IgnoreMessage
           \/ \E c \in Ids : SpawnThread(c) \/ PrepareBlockCreateOptions(c) \/ ThreadEnd(c)
  BY <1>2, Zenon DEF DataDone, IgnoreMessage, DataFrame, SpawnThread, PrepareBlockCreateOptions, ThreadEnd, ThreadFrame
<1>3. CASE EventGotEOF
  BY <1>3, Zenon DEF EventGotEOF
<1>4. CASE ReceiveMessage \/ CoinbaseOutputSize \/ SubmitSolution \/ ProviderThrows
  BY <1>0, <1>4, Zenon DEF ReceiveMessage, CoinbaseOutputSize, SubmitSolution, ProviderThrows, Handle, Abandon, DataFrame
<1> QED
  BY <1>1, <1>2, <1>3, <1>4, Zenon DEF Next, SocketsThread, ClientThread

\* These queue messages for one client and may flag it: work for a client that has a
\* thread, anything else for the client whose message is handled.
ServedBy(c, kinds) ==
  /\ c \in m_sv2_clients
  /\ \E ms \in Seq(kinds) : queued' = [queued EXCEPT ![c] = @ \o ms]
  /\ UNCHANGED m_disconnect_flag \/ m_disconnect_flag' = [m_disconnect_flag EXCEPT ![c] = TRUE]

LEMMA QueueSteps ==
  ASSUME Inv, Handshake \/ SetupConnection \/ RequestTransactionData
  PROVE  /\ UNCHANGED stateVars
         /\ \/ ServedBy(id, Replies \ WorkMessage)
            \/ UNCHANGED <<queued, m_disconnect_flag>>
            \/ /\ id \in m_sv2_clients /\ UNCHANGED queued
               /\ m_disconnect_flag' = [m_disconnect_flag EXCEPT ![id] = TRUE]
<1> DEFINE R == Replies \ WorkMessage
<1>0. id \in m_sv2_clients /\ id \in Ids /\ queued[id] \in Seq(Replies) /\ queued \in [Ids -> Seq(Replies)]
  BY Zenon DEF Inv, LocalInv, LoopInv, TypeOK, Handshake, SetupConnection, RequestTransactionData, Handle
<1>1. UNCHANGED stateVars
  BY Zenon DEF Handshake, SetupConnection, RequestTransactionData, DataFrame, stateVars, sockVars, statusVars
<1>2. /\ <<"HandshakeReply">> \in Seq(R) /\ <<"TxError">> \in Seq(R) /\ <<"TxData">> \in Seq(R)
      /\ <<"SetupSuccess">> \in Seq(R) /\ <<"SetupError">> \in Seq(R)
  BY DEF Replies, WorkMessage
<1>3. CASE Handshake
  <2>1. "HandshakeReply" \in Replies
    BY Zenon DEF Replies
  <2>2. Append(queued[id], "HandshakeReply") = queued[id] \o <<"HandshakeReply">>
    BY <1>0, <2>1, AppendIsConcat, Zenon
  <2>3. queued' = [queued EXCEPT ![id] = @ \o <<"HandshakeReply">>] /\ UNCHANGED m_disconnect_flag
    BY <1>0, <1>3, <2>2, Zenon DEF Handshake
  <2> QED
    BY <1>0, <1>1, <1>2, <2>3, Zenon DEF ServedBy
<1>4. CASE RequestTransactionData
  <2>1. UNCHANGED m_disconnect_flag /\ (Queue(<<"TxError">>) \/ QueueAndSend(id, <<"TxData">>))
    BY <1>4, Zenon DEF RequestTransactionData
  <2> QED
    BY <1>0, <1>1, <1>2, <2>1, Zenon DEF ServedBy, Queue, QueueAndSend
<1>5. CASE SetupConnection
  <2>1. \/ UNCHANGED <<queued, m_disconnect_flag>>
        \/ Queue(<<"SetupSuccess">>) /\ UNCHANGED m_disconnect_flag
        \/ Flag(id) /\ UNCHANGED queued
        \/ Queue(<<"SetupError">>) /\ Flag(id)
    BY <1>5, Zenon DEF SetupConnection
  <2> QED
    BY <1>0, <1>1, <1>2, <2>1, Zenon DEF ServedBy, Queue, Flag
<1> QED
  BY <1>3, <1>4, <1>5, Zenon

LEMMA WorkSteps ==
  ASSUME Inv, NEW c \in Ids, SendWork(c)
  PROVE  /\ UNCHANGED stateVars /\ thread[c] = "work" /\ UNCHANGED <<thread, sock, id>>
         /\ \/ ServedBy(c, Replies)
            \/ /\ c \in m_sv2_clients /\ UNCHANGED queued
               /\ m_disconnect_flag' = [m_disconnect_flag EXCEPT ![c] = TRUE]
<1>1. <<"NewTemplate", "SetNewPrevHash">> \in Seq(Replies) /\ <<"NewTemplate">> \in Seq(Replies)
  BY DEF Replies
<1> QED
  BY <1>1, Zenon DEF SendWork, GetClientById, QueueAndSend, Flag, ThreadFrame, sockVars, statusVars, sendVars, loopVars,
     stateVars, ServedBy

-----------------------------------------------------------------------------
(* The invariant. *)

\* A new connection gets the next id; nothing else changes the map but DisconnectFlagged.
LEMMA ServeInvStep ==
  ASSUME Inv, ServeInv, Next
  PROVE  ServeInv'
<1>0. /\ m_next_id \in 0..MaxId /\ m_sv2_clients \subseteq Ids /\ thread \in [Ids -> {"none", "options", "work", "done"}]
      /\ m_coinbase_output_constraints_recv \in [Ids -> BOOLEAN] /\ m_disconnect_flag \in [Ids -> BOOLEAN]
      /\ sock \in {"data", "handle", "size"} => id \in m_sv2_clients
  BY Zenon DEF Inv, TypeOK, LocalInv, LoopInv
<1>1. sock' = "handle" => id' = id /\ id \in Ids /\ (sock = "handle" \/ ~m_disconnect_flag[id])
  BY FlagsStay, Zenon
<1> USE DEF ServeInv
<1>2. CASE SocketHandlerListening
  <2>1. sock' # "handle" /\ UNCHANGED <<m_coinbase_output_constraints_recv, thread>>
    BY <1>2, Zenon DEF SocketHandlerListening, Goto, statusVars, threadVars
  <2>2. \/ UNCHANGED <<m_next_id, m_sv2_clients>>
        \/ m_next_id' = m_next_id + 1 /\ m_sv2_clients' = m_sv2_clients \cup {m_next_id}
    BY <1>2, Zenon DEF SocketHandlerListening
  <2>3. m_next_id < m_next_id + 1 /\ \A c \in Ids : c < m_next_id => c < m_next_id + 1
    <3>1. MaxId \in Nat /\ m_next_id \in 0..MaxId
      BY <1>0, ConstantsOK, Zenon
    <3> HIDE DEF ServeInv
    <3> QED
      BY <3>1 DEF Ids
  <2>4. \A c \in m_sv2_clients' : c < m_next_id'
    BY <1>0, <2>2, <2>3, Zenon
  <2>5. \A c \in Ids : ~(c < m_next_id') => ~m_coinbase_output_constraints_recv'[c]
    BY <2>1, <2>2, <2>3, Zenon
  <2> QED
    BY <2>1, <2>4, <2>5, Zenon
<1>3. CASE DisconnectFlagged
  BY <1>3, Zenon DEF DisconnectFlagged, Goto, sockVars, statusVars, threadVars
<1>4. CASE CoinbaseOutputConstraints
  <2>1. /\ UNCHANGED <<m_next_id, m_sv2_clients, thread>> /\ sock' # "handle"
        /\ \/ UNCHANGED m_coinbase_output_constraints_recv
           \/ m_coinbase_output_constraints_recv' = [m_coinbase_output_constraints_recv EXCEPT ![id] = TRUE]
    BY <1>4, Zenon DEF CoinbaseOutputConstraints, DataFrame, Goto, NextMessage, sockVars, threadVars
  <2>2. id \in m_sv2_clients /\ id \in Ids
    BY <1>0, <1>4, Zenon DEF CoinbaseOutputConstraints, Handle
  <2> QED
    BY <1>0, <2>1, <2>2, Zenon
<1>5. ASSUME NEW c \in Ids, SendWork(c) PROVE ServeInv'
  <2>1. /\ UNCHANGED stateVars /\ thread[c] = "work" /\ UNCHANGED <<thread, sock, id>>
        /\ \A d \in Ids \ {c} : m_disconnect_flag'[d] = m_disconnect_flag[d]
    BY <1>0, <1>5, WorkSteps, ZenonT(30) DEF ServedBy
  <2>2. m_coinbase_output_constraints_recv[c]
    BY <2>1, Zenon
  <2> QED
    BY <1>0, <1>1, <2>1, <2>2, Zenon DEF stateVars
<1>6. CASE Handshake \/ SetupConnection \/ RequestTransactionData
  BY <1>6, QueueSteps, Zenon DEF Handshake, SetupConnection, RequestTransactionData, NextMessage, Goto, DataFrame,
     threadVars, stateVars
<1>7. ASSUME NEW c \in Ids, SpawnThread(c) \/ PrepareBlockCreateOptions(c) \/ ThreadEnd(c) PROVE ServeInv'
  <2>1. UNCHANGED <<stateVars, sock, id, m_disconnect_flag>>
    BY <1>7, Zenon DEF SpawnThread, PrepareBlockCreateOptions, ThreadEnd, ThreadFrame, stateVars, sockVars, statusVars,
       loopVars
  <2>2. \A d \in Ids : thread'[d] # "none" => m_coinbase_output_constraints_recv[d]
    BY <1>0, <1>7, Zenon DEF SpawnThread, PrepareBlockCreateOptions, ThreadEnd
  <2> QED
    BY <2>1, <2>2, Zenon DEF stateVars
<1>8. CASE ReceiveMessage
  <2>1. sock' = "handle" => UNCHANGED m_disconnect_flag /\ sock # "handle"
    BY <1>8, Zenon DEF ReceiveMessage, Abandon, NextMessage, Goto
  <2>2. UNCHANGED <<stateVars, thread>>
    BY <1>8, Zenon DEF ReceiveMessage, DataFrame, stateVars, sockVars, statusVars, threadVars
  <2> QED
    BY <1>1, <2>1, <2>2, Zenon DEF stateVars
<1>9. CASE \/ SocketsThreadEnd \/ GenerateWaitSockets \/ EventGotData \/ EventGotEOF \/ NoSocket
           \/ DataDone \/ CoinbaseOutputSize \/ SubmitSolution \/ ProviderThrows \/ IgnoreMessage
           \/ \E c \in Ids : ReadyToReceive(c) \/ EventReadyToSend(c)
  <2>1. UNCHANGED <<stateVars, thread>>
    BY <1>9, Zenon DEF SocketsThreadEnd, GenerateWaitSockets, EventGotData, EventGotEOF, NoSocket, DataDone,
       CoinbaseOutputSize, SubmitSolution, ProviderThrows, IgnoreMessage, ReadyToReceive, EventReadyToSend, DataFrame,
       stateVars, sockVars, statusVars, threadVars
  <2>2. sock' # "handle"
    BY <1>9, Zenon DEF SocketsThreadEnd, GenerateWaitSockets, EventGotData, EventGotEOF, NoSocket, DataDone,
       CoinbaseOutputSize, SubmitSolution, ProviderThrows, IgnoreMessage, ReadyToReceive, EventReadyToSend, NextMessage,
       Abandon, Goto
  <2> QED
    BY <2>1, <2>2, Zenon DEF stateVars
<1>10. CASE Interrupt \/ \E c \in Ids : PeerSend(c) \/ PeerClose(c)
  BY <1>10, ZenonT(30) DEF Interrupt, PeerSend, PeerClose, sockVars, statusVars, threadVars, loopVars
<1> QED
  BY <1>2, <1>3, <1>4, <1>5, <1>6, <1>7, <1>8, <1>9, <1>10, Zenon DEF Next, SocketsThread, ClientThread

-----------------------------------------------------------------------------
(* Every step is a step of ClientService, or changes nothing it has. *)

\* A client in the map is not gone, and ready once it asked for templates.
LEMMA StateOfClient ==
  ASSUME Inv, ServeInv, NEW c \in m_sv2_clients
  PROVE  /\ c \in Ids /\ ServiceState[c] # "gone"
         /\ m_coinbase_output_constraints_recv[c] => ServiceState[c] = "ready"
         /\ ~m_coinbase_output_constraints_recv[c] => ServiceState[c] = "absent"
<1>1. c \in Ids
  BY Zenon DEF Inv, TypeOK
<1>2. ServiceState[c] = IF m_coinbase_output_constraints_recv[c] THEN "ready" ELSE "absent"
  BY <1>1, Zenon DEF ServiceState
<1> QED
  BY <1>1, <1>2, Zenon

LEMMA FlagServes ==
  ASSUME Inv, ServeInv, NEW c \in m_sv2_clients, UNCHANGED <<stateVars, queued>>,
         m_disconnect_flag' = [m_disconnect_flag EXCEPT ![c] = TRUE]
  PROVE  Service!Serve(c)
<1>1. m_disconnect_flag \in [Ids -> BOOLEAN] /\ c \in Ids /\ queued[c] \in Seq(Replies)
  BY Zenon DEF Inv, TypeOK
<1>2. ServiceState' = ServiceState
  BY Zenon DEF ServiceState, stateVars
<1>3. Len(queued[c]) \in Nat /\ SubSeq(queued[c], 1, Len(queued[c])) = queued[c]
  BY <1>1
<1>4. Len(queued[c]) <= Len(queued[c]) /\ \A i \in (Len(queued[c]) + 1)..Len(queued[c]) : FALSE
  BY <1>3
<1>5. ServiceState[c] # "gone"
  BY StateOfClient, Zenon
<1> HIDE DEF ServiceState
<1> QED
  BY <1>1, <1>2, <1>3, <1>4, <1>5, Zenon DEF Service!Serve

LEMMA QueueServes ==
  ASSUME Inv, ServeInv, NEW c, NEW kinds \in SUBSET Replies, ServedBy(c, kinds), UNCHANGED stateVars,
         m_coinbase_output_constraints_recv[c] \/ kinds \cap WorkMessage = {}
  PROVE  Service!Serve(c)
<1> DEFINE q == queued[c]
<1>1. PICK ms \in Seq(kinds) : queued' = [queued EXCEPT ![c] = @ \o ms]
  BY Zenon DEF ServedBy
<1>2. /\ c \in m_sv2_clients /\ c \in Ids /\ q \in Seq(Replies) /\ queued \in [Ids -> Seq(Replies)]
      /\ m_disconnect_flag \in [Ids -> BOOLEAN]
  BY Zenon DEF ServedBy, Inv, TypeOK
<1>3. ServiceState' = ServiceState
  BY Zenon DEF ServiceState, stateVars
<1>4. queued'[c] = q \o ms /\ \A d \in Ids \ {c} : queued'[d] = queued[d]
  BY <1>1, <1>2, Zenon
<1>5. ms \in Seq(Replies)
  BY <1>1, SeqMonotonic, Zenon
<1>6. /\ Len(q) \in Nat /\ Len(ms) \in Nat /\ Len(q \o ms) = Len(q) + Len(ms)
      /\ SubSeq(q \o ms, 1, Len(q)) = q
      /\ \A i \in (Len(q) + 1)..Len(q \o ms) : i - Len(q) \in 1..Len(ms) /\ (q \o ms)[i] = ms[i - Len(q)]
  BY <1>2, <1>5
<1>7. Len(q) <= Len(q \o ms)
  BY <1>6
<1>8. \A i \in 1..Len(ms) : ms[i] \in kinds
  BY <1>1, ElementOfSeq, Zenon
<1>9. m_coinbase_output_constraints_recv[c] => ServiceState[c] = "ready"
  BY <1>2, StateOfClient, Zenon
<1>10. \A i \in (Len(q) + 1)..Len(q \o ms) : (q \o ms)[i] \in WorkMessage => ServiceState[c] = "ready"
  BY <1>6, <1>8, <1>9, Zenon
<1>11. (\A d \in Ids \ {c} : m_disconnect_flag'[d] = m_disconnect_flag[d]) /\ (m_disconnect_flag[c] => m_disconnect_flag'[c])
  BY <1>2, Zenon DEF ServedBy
<1>12. ServiceState[c] # "gone"
  BY <1>2, StateOfClient, Zenon
<1> HIDE DEF ServiceState, q
<1>13. SubSeq(queued'[c], 1, Len(q)) = q /\ Len(q) <= Len(queued'[c])
  BY <1>4, <1>6, <1>7, Zenon
<1>14. \A i \in (Len(q) + 1)..Len(queued'[c]) : queued'[c][i] \in WorkMessage => ServiceState[c] = "ready"
  BY <1>4, <1>10, Zenon
<1> QED
  BY <1>3, <1>4, <1>11, <1>12, <1>13, <1>14, Zenon DEF Service!Serve, WorkMessage, q

\* CoinbaseOutputConstraints admits the client, unless it was admitted before or is
\* flagged instead.
LEMMA ConstraintsStep ==
  ASSUME Inv, ServeInv, CoinbaseOutputConstraints
  PROVE  Service!Next \/ UNCHANGED <<ServiceState, m_disconnect_flag, queued>>
<1>1. /\ sock = "handle" /\ id \in m_sv2_clients /\ id \in Ids
      /\ m_coinbase_output_constraints_recv \in [Ids -> BOOLEAN]
  BY Zenon DEF CoinbaseOutputConstraints, Handle, Inv, LocalInv, LoopInv, TypeOK
<1>2. UNCHANGED <<m_next_id, m_sv2_clients, queued>>
  BY Zenon DEF CoinbaseOutputConstraints, DataFrame, sockVars, sendVars
<1>3. CASE UNCHANGED m_coinbase_output_constraints_recv /\ Flag(id)
  <2>1. Service!Serve(id)
    BY <1>1, <1>2, <1>3, FlagServes, Zenon DEF stateVars, Flag
  <2> QED
    BY <1>1, <2>1, Zenon DEF Service!Next
<1>4. CASE /\ m_coinbase_output_constraints_recv' = [m_coinbase_output_constraints_recv EXCEPT ![id] = TRUE]
           /\ UNCHANGED m_disconnect_flag
  <2>1. CASE m_coinbase_output_constraints_recv[id]
    <3>1. m_coinbase_output_constraints_recv' = m_coinbase_output_constraints_recv
      BY <1>1, <1>4, <2>1, Zenon
    <3> QED
      BY <1>2, <1>4, <3>1, Zenon DEF ServiceState
  <2>2. CASE ~m_coinbase_output_constraints_recv[id]
    <3>1. ~m_disconnect_flag[id] /\ ServiceState[id] = "absent"
      BY <1>1, <2>2, StateOfClient, Zenon DEF ServeInv
    <3>2. \A c \in Ids \ {id} : m_coinbase_output_constraints_recv'[c] = m_coinbase_output_constraints_recv[c]
      BY <1>1, <1>4, Zenon
    <3>3. m_coinbase_output_constraints_recv'[id]
      BY <1>1, <1>4, Zenon
    <3>4. ServiceState'[id] = "ready"
      BY <1>1, <1>2, <3>3, Zenon DEF ServiceState
    <3>5. \A c \in Ids \ {id} : ServiceState'[c] = ServiceState[c]
      BY <1>2, <3>2, Zenon DEF ServiceState
    <3>6. DOMAIN ServiceState' = Ids /\ DOMAIN ServiceState = Ids
          /\ ServiceState = [c \in Ids |-> ServiceState[c]] /\ ServiceState' = [c \in Ids |-> ServiceState'[c]]
      BY Zenon DEF ServiceState
    <3> HIDE DEF ServiceState
    <3>7. ServiceState' = [ServiceState EXCEPT ![id] = "ready"]
      BY <1>1, <3>4, <3>5, <3>6, Zenon
    <3>8. Service!Admit(id)
      BY <1>2, <1>4, <3>1, <3>7, Zenon DEF Service!Admit
    <3> QED
      BY <1>1, <3>8, Zenon DEF Service!Next
  <2> QED
    BY <2>1, <2>2, Zenon
<1> QED
  BY <1>3, <1>4, Zenon DEF CoinbaseOutputConstraints

\* DisconnectFlagged removes clients that are flagged.
LEMMA DisconnectStep ==
  ASSUME Inv, ServeInv, DisconnectFlagged
  PROVE  Service!Next
<1> DEFINE gone == {c \in m_sv2_clients : m_disconnect_flag[c] /\ m_send_messages[c] = <<>>}
<1>1. /\ m_sv2_clients' = m_sv2_clients \ gone
      /\ UNCHANGED <<m_next_id, m_coinbase_output_constraints_recv, m_disconnect_flag, queued>>
  BY Zenon DEF DisconnectFlagged, sockVars, statusVars, sendVars
<1>2. gone \subseteq Ids /\ \A c \in gone : c \in m_sv2_clients /\ c < m_next_id /\ m_disconnect_flag[c]
  BY Zenon DEF Inv, TypeOK, ServeInv
<1> HIDE DEF gone
<1>3. \A c \in Ids : ServiceState'[c] = IF c \in gone THEN "gone" ELSE ServiceState[c]
  <2> SUFFICES ASSUME NEW c \in Ids PROVE ServiceState'[c] = IF c \in gone THEN "gone" ELSE ServiceState[c]
    BY Zenon
  <2>1. CASE c \in gone
    BY <1>1, <1>2, <2>1, Zenon DEF ServiceState
  <2>2. CASE c \notin gone
    <3>1. c \in m_sv2_clients' <=> c \in m_sv2_clients
      BY <1>1, <2>2, Zenon
    <3> QED
      BY <1>1, <2>2, <3>1, Zenon DEF ServiceState
  <2> QED
    BY <2>1, <2>2, Zenon
<1>4. ServiceState' = [c \in Ids |-> ServiceState'[c]]
  BY Zenon DEF ServiceState
<1> HIDE DEF ServiceState
<1>5. ServiceState' = [c \in Ids |-> IF c \in gone THEN "gone" ELSE ServiceState[c]]
  BY <1>3, <1>4, Zenon
<1>6. Service!Remove(gone)
  BY <1>1, <1>2, <1>5, Zenon DEF Service!Remove
<1>7. gone \in SUBSET Ids
  BY <1>2, Zenon
<1> QED
  BY <1>6, <1>7, Zenon DEF Service!Next

\* A client that was just accepted is as absent as it was before.
LEMMA AcceptStep ==
  ASSUME Inv, ServeInv, SocketHandlerListening
  PROVE  UNCHANGED <<ServiceState, m_disconnect_flag, queued>>
<1>1. /\ UNCHANGED <<m_coinbase_output_constraints_recv, m_disconnect_flag, queued>>
      /\ \/ UNCHANGED <<m_next_id, m_sv2_clients>>
         \/ m_next_id' = m_next_id + 1 /\ m_sv2_clients' = m_sv2_clients \cup {m_next_id}
  BY Zenon DEF SocketHandlerListening, statusVars, sendVars
<1>2. CASE UNCHANGED <<m_next_id, m_sv2_clients>>
  BY <1>1, <1>2, Zenon DEF ServiceState
<1>3. CASE m_next_id' = m_next_id + 1 /\ m_sv2_clients' = m_sv2_clients \cup {m_next_id}
  <2>1. m_next_id \in 0..MaxId /\ MaxId \in Nat
    BY ConstantsOK, Zenon DEF Inv, TypeOK
  <2>2. /\ \A c \in Ids : c # m_next_id => (c < m_next_id + 1 <=> c < m_next_id)
        /\ ~(m_next_id < m_next_id)
    BY <2>1 DEF Ids
  <2>3. \A c \in Ids \ {m_next_id} : ServiceState'[c] = ServiceState[c]
    <3>1. \A c \in Ids \ {m_next_id} : (c \in m_sv2_clients' <=> c \in m_sv2_clients) /\ (c < m_next_id' <=> c < m_next_id)
      BY <1>3, <2>2, Zenon
    <3> QED
      BY <1>1, <3>1, Zenon DEF ServiceState
  <2>4. m_next_id \in Ids => ServiceState'[m_next_id] = "absent" /\ ServiceState[m_next_id] = "absent"
    <3> SUFFICES ASSUME m_next_id \in Ids PROVE ServiceState'[m_next_id] = "absent" /\ ServiceState[m_next_id] = "absent"
      BY Zenon
    <3>1. ~m_coinbase_output_constraints_recv[m_next_id] /\ m_next_id \notin m_sv2_clients
      BY <2>2, Zenon DEF ServeInv
    <3> QED
      BY <1>1, <1>3, <2>2, <3>1, Zenon DEF ServiceState
  <2>5. ServiceState = [c \in Ids |-> ServiceState[c]] /\ ServiceState' = [c \in Ids |-> ServiceState'[c]]
    BY Zenon DEF ServiceState
  <2> HIDE DEF ServiceState
  <2>6. \A c \in Ids : ServiceState'[c] = ServiceState[c]
    BY <2>3, <2>4, Zenon
  <2> QED
    BY <1>1, <2>5, <2>6, Zenon
<1> QED
  BY <1>1, <1>2, <1>3, Zenon

LEMMA ServiceStep ==
  ASSUME Inv, ServeInv, Next
  PROVE  Service!Next \/ UNCHANGED <<ServiceState, m_disconnect_flag, queued>>
<1>0. m_sv2_clients \subseteq Ids
  BY Zenon DEF Inv, TypeOK
<1>1. UNCHANGED stateVars => UNCHANGED ServiceState
  BY Zenon DEF ServiceState, stateVars
<1>2. ASSUME NEW c, Service!Serve(c), c \in m_sv2_clients PROVE Service!Next
  BY <1>0, <1>2, Zenon DEF Service!Next
<1>3. CASE Handshake \/ SetupConnection \/ RequestTransactionData
  <2>1. ASSUME ServedBy(id, Replies \ WorkMessage), UNCHANGED stateVars PROVE Service!Serve(id) /\ id \in m_sv2_clients
    <3>1. (Replies \ WorkMessage) \in SUBSET Replies /\ (Replies \ WorkMessage) \cap WorkMessage = {}
      BY Zenon
    <3> QED
      BY <2>1, <3>1, QueueServes, Zenon DEF ServedBy
  <2> QED
    BY <1>1, <1>2, <1>3, <2>1, QueueSteps, FlagServes, Zenon
<1>4. ASSUME NEW c \in Ids, SendWork(c) PROVE Service!Next
  <2>1. m_coinbase_output_constraints_recv[c]
    BY <1>4, WorkSteps, Zenon DEF ServeInv
  <2>2. Replies \in SUBSET Replies
    BY Zenon
  <2>3. Service!Serve(c) /\ c \in m_sv2_clients
    BY <1>4, <2>1, <2>2, WorkSteps, QueueServes, FlagServes, Zenon DEF ServedBy
  <2> QED
    BY <1>2, <2>3, Zenon
<1>5. CASE /\ ~DisconnectFlagged /\ ~SocketHandlerListening /\ ~Handshake /\ ~SetupConnection
           /\ ~CoinbaseOutputConstraints /\ ~RequestTransactionData /\ \A c \in Ids : ~SendWork(c)
  BY <1>1, <1>2, <1>5, FlagSteps, FlagServes, Zenon
<1> QED
  BY <1>3, <1>4, <1>5, ConstraintsStep, DisconnectStep, AcceptStep, Zenon

\* For any number of clients and whatever they send, the connection manager is to the
\* template provider what ClientService says, which is all that Sv2TemplateProvider
\* assumes of it: the flag is checked one step before a message is handled, the
\* client's thread may set it in between, and still no client is admitted once flagged.
THEOREM ServiceCorrect == Spec => IsClientService
<1>1. Init => Service!Init /\ ServeInv
  <2> SUFFICES ASSUME Init PROVE Service!Init /\ ServeInv
    BY Zenon
  <2>1. \A c \in Ids : ~(c < 0)
    BY ConstantsOK DEF Ids
  <2>2. \A c \in Ids : ~(c < m_next_id) /\ c \notin m_sv2_clients
    BY <2>1, Zenon DEF Init
  <2>3. ServiceState = [c \in Ids |-> "absent"]
    BY <2>2, Zenon DEF ServiceState
  <2>4. ServeInv
    BY <2>2, Zenon DEF Init, ServeInv
  <2> QED
    BY <2>3, <2>4, Zenon DEF Init, Service!Init
<1>2. Inv /\ ServeInv /\ [Next]_vars => [Service!Next]_(Service!vars)
  <2>1. UNCHANGED vars => UNCHANGED <<ServiceState, m_disconnect_flag, queued>>
    BY Zenon DEF vars, sockVars, statusVars, sendVars, ServiceState
  <2> QED
    BY <2>1, ServiceStep, Zenon DEF Service!vars
<1>3. Inv /\ ServeInv /\ [Next]_vars => ServeInv'
  <2>1. UNCHANGED vars /\ ServeInv => ServeInv'
    BY Zenon DEF vars, sockVars, statusVars, threadVars, loopVars, ServeInv
  <2> QED
    BY <2>1, ServeInvStep, Zenon
<1> QED
  BY <1>1, <1>2, <1>3, InitInv, InvStep, PTL DEF Spec, IsClientService, Service!Spec

=============================================================================
