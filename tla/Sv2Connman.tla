----------------------------- MODULE Sv2Connman -----------------------------
(***************************************************************************)
(* The connection manager of src/sv2/connman.cpp on the socket loop of     *)
(* src/common/sockman.cpp: one sockets thread that accepts, sends,         *)
(* receives and handles messages, and the template provider's client       *)
(* threads, which queue templates and send them at once if they can.       *)
(*                                                                         *)
(* Atomicity.  SendMessagesAsBytes runs under cs_send; other steps are     *)
(* what happens between two places where another thread can get in.        *)
(*                                                                         *)
(* Data.  A message is its kind.  The transport encrypts a message into    *)
(* Parts pieces, of which a send may accept any number.                    *)
(***************************************************************************)
EXTENDS Integers, Sequences

CONSTANTS
  MaxId,        \* bound: connections accepted
  Parts,        \* pieces of an encrypted message that the kernel accepts separately
  Kinds,        \* kinds of messages the clients send, see MessageKinds
  MaxReceived,  \* bound: messages a client sends, its key included
  MaxWork,      \* bound: SendWork calls for a client
  LogDebug,     \* TRUE if debug messages of the sv2 category are logged
  Faults        \* what may go wrong: see FaultKinds

MessageKinds ==
  {"SetupConnection", "SetupProtocol", "SetupVersion", "SetupInvalid",   \* accepted, and refused in three ways
   "Constraints", "ConstraintsHuge", "ConstraintsInvalid",               \* CoinbaseOutputConstraints
   "SubmitSolution", "RequestTransactionData",
   "Invalid",     \* a RequestTransactionData that does not deserialize
   "Known",       \* a type of SV2_MSG_NAMES that the server does not handle
   "Unknown",     \* any other type
   "Garbage"}     \* bytes the transport refuses

FaultKinds == {"send",        \* a send fails for good
               "ipc",         \* a call of the template provider to the node throws
               "refuse",      \* SendWork refuses a template and the client is flagged
               "interrupt"}   \* the process is told to stop

Ids == 0..(MaxId - 1)

ASSUME ConstantsOK ==
  /\ MaxId \in Nat /\ Parts \in Nat \ {0} /\ Kinds \subseteq MessageKinds
  /\ MaxReceived \in Nat /\ MaxWork \in Nat /\ LogDebug \in BOOLEAN /\ Faults \subseteq FaultKinds

VARIABLES
  \* SockMan
  m_next_id, m_connected, interruptNet,
  \* Sv2Connman and the Sv2Client objects; the record of an id is never reused
  m_sv2_clients,
  m_setup_connection_confirmed, m_coinbase_output_constraints_recv,
  m_coinbase_tx_outputs_size,   \* "uninitialised" or "requested"
  m_disconnect_flag, m_send_messages,
  \* Sv2Transport: handshake finished, and the message being sent with what is left of it
  ready, m_send_buffer,
  \* the sockets thread: where it is, the sockets it still has to serve, the one it
  \* serves, and the messages of the data it got
  sock, events, id, data,
  \* the remote side: bytes not yet received, messages sent, connection closed
  incoming, sent, eof,
  \* the template provider's client threads: where they are, SendWork calls made
  thread, work,
  \* history: what was ever queued, what the kernel accepted, the size a thread used
  queued, wire, sizeUsed

sockVars   == <<m_next_id, interruptNet>>
statusVars == <<m_setup_connection_confirmed, m_coinbase_output_constraints_recv, m_coinbase_tx_outputs_size>>
sendVars   == <<m_send_messages, m_send_buffer, wire, queued>>
loopVars   == <<sock, events, id, data>>
peerVars   == <<incoming, sent, eof>>
threadVars == <<thread, work, sizeUsed>>
vars == <<sockVars, m_connected, m_sv2_clients, statusVars, m_disconnect_flag, sendVars, ready,
          loopVars, peerVars, threadVars>>

NoEvents == [send |-> {}, recv |-> {}, err |-> {}]

Init ==
  /\ m_next_id = 0 /\ m_connected = {} /\ interruptNet = FALSE
  /\ m_sv2_clients = {}
  /\ m_setup_connection_confirmed = [c \in Ids |-> FALSE]
  /\ m_coinbase_output_constraints_recv = [c \in Ids |-> FALSE]
  /\ m_coinbase_tx_outputs_size = [c \in Ids |-> "uninitialised"]
  /\ m_disconnect_flag = [c \in Ids |-> FALSE]
  /\ m_send_messages = [c \in Ids |-> <<>>] /\ m_send_buffer = [c \in Ids |-> <<>>]
  /\ ready = [c \in Ids |-> FALSE]
  /\ sock = "completed" /\ events = NoEvents /\ id = 0 /\ data = <<>>
  /\ incoming = [c \in Ids |-> <<>>] /\ sent = [c \in Ids |-> 0] /\ eof = [c \in Ids |-> FALSE]
  /\ thread = [c \in Ids |-> "none"] /\ work = [c \in Ids |-> 0]
  /\ queued = [c \in Ids |-> <<>>] /\ wire = [c \in Ids |-> <<>>] /\ sizeUsed = [c \in Ids |-> "none"]

-----------------------------------------------------------------------------
(* The remote side.  Its first message is its ephemeral key. *)

PeerSend(c) ==
  /\ c \in m_connected /\ ~eof[c] /\ sent[c] < MaxReceived
  /\ \E k \in Kinds :
       incoming' = [incoming EXCEPT ![c] = Append(@, IF sent[c] = 0 THEN "Key" ELSE k)]
  /\ sent' = [sent EXCEPT ![c] = @ + 1]
  /\ UNCHANGED <<sockVars, m_connected, m_sv2_clients, statusVars, m_disconnect_flag, sendVars, ready,
                 loopVars, eof, threadVars>>

PeerClose(c) ==
  /\ c \in m_connected /\ ~eof[c]
  /\ eof' = [eof EXCEPT ![c] = TRUE]
  /\ UNCHANGED <<sockVars, m_connected, m_sv2_clients, statusVars, m_disconnect_flag, sendVars, ready,
                 loopVars, incoming, sent, threadVars>>

-----------------------------------------------------------------------------
(* SendMessagesAsBytes *)

\* What the transport and the queue hold, in the order in which it is sent.
Backlog(c, queue) == [i \in DOMAIN m_send_buffer[c] |-> m_send_buffer[c][i].msg] \o queue

\* What is left to send of the i-th message of the backlog.
Left(c, i) == IF i \in DOMAIN m_send_buffer[c] THEN m_send_buffer[c][i].left ELSE Parts

\* MUTANT of Rest: one piece is counted twice.
RestShort(c, i, p) == Left(c, i) - p - 1

\* MarkBytesSent: what is left of it after p more pieces were accepted.
Rest(c, i, p) == Left(c, i) - p

\* MUTANT of Unsent: the queue is cleared although messages are left in it.
UnsentCleared(backlog, k) == <<>>

\* The queue once k messages are sent and the next one, if any, is with the transport.
Unsent(backlog, k) == SubSeq(backlog, k + 2, Len(backlog))

\* The kernel accepts k whole messages and p pieces of the next one; a send that fails
\* closes the socket.  Nothing is accepted without a socket; nothing leaves the queue
\* before the handshake is over.
SendMessagesAsBytes(c, queue, k, p, fails) ==
  LET backlog == IF ready[c] THEN Backlog(c, queue) ELSE <<>> IN
  /\ k \in 0..Len(backlog)
  /\ p \in 0..(IF k < Len(backlog) THEN Left(c, k + 1) - 1 ELSE 0)
  /\ c \notin m_connected => k = 0 /\ p = 0
  /\ fails => "send" \in Faults /\ c \in m_connected /\ k < Len(backlog) /\ p = 0
  /\ m_connected' = IF fails THEN m_connected \ {c} ELSE m_connected
  /\ wire' = [wire EXCEPT ![c] = @ \o SubSeq(backlog, 1, k)]
  /\ m_send_buffer' = [m_send_buffer EXCEPT ![c] =
       IF k < Len(backlog) THEN <<[msg |-> backlog[k + 1], left |-> Rest(c, k + 1, p)]>> ELSE <<>>]
  /\ m_send_messages' = [m_send_messages EXCEPT ![c] = IF ready[c] THEN Unsent(backlog, k) ELSE queue]

\* TryOptimisticSend: the messages ms are queued for c, and the queue is sent as far as it goes.
QueueAndSend(c, ms) ==
  LET queue == m_send_messages[c] \o ms IN
  /\ queued' = [queued EXCEPT ![c] = @ \o ms]
  /\ \E k \in 0..(Len(queue) + 1), p \in 0..(Parts - 1), fails \in BOOLEAN :
       SendMessagesAsBytes(c, queue, k, p, fails)

-----------------------------------------------------------------------------
(* The loop of the sockets thread: ThreadSocketHandler.                    *)

Flag(c) == m_disconnect_flag' = [m_disconnect_flag EXCEPT ![c] = TRUE]
Goto(label) == sock' = label

\* MUTANT of Continue: the loop waits for the clients to leave.
ContinueWithClients == ~interruptNet \/ m_sv2_clients # {}

\* The condition of the loop.
Continue == ~interruptNet

\* EventIOLoopCompletedForAll: DisconnectFlagged.
DisconnectFlagged ==
  /\ sock = "completed" /\ Continue /\ Goto("wait")
  /\ LET flagged == {c \in m_sv2_clients : m_disconnect_flag[c] /\ m_send_messages[c] = <<>>}
     IN  m_connected' = m_connected \ flagged /\ m_sv2_clients' = m_sv2_clients \ flagged
  /\ UNCHANGED <<sockVars, statusVars, m_disconnect_flag, sendVars, ready, events, id, data, peerVars, threadVars>>

SocketsThreadEnd ==
  /\ sock = "completed" /\ ~Continue /\ Goto("done")
  /\ UNCHANGED <<sockVars, m_connected, m_sv2_clients, statusVars, m_disconnect_flag, sendVars, ready,
                 events, id, data, peerVars, threadVars>>

\* GenerateWaitSockets and WaitMany: a socket can be read if something arrived, and
\* written if the kernel has room.
GenerateWaitSockets ==
  /\ sock = "wait" /\ Goto("connected")
  /\ \E writable \in SUBSET m_connected, errs \in SUBSET {c \in m_connected : eof[c]} :
       events' = [send |-> writable, err |-> errs,
                  recv |-> {c \in m_connected : incoming[c] # <<>> \/ eof[c]}]
  /\ UNCHANGED <<sockVars, m_connected, m_sv2_clients, statusVars, m_disconnect_flag, sendVars, ready,
                 id, data, peerVars, threadVars>>

Served(c) == [send |-> events.send \ {c}, recv |-> events.recv \ {c}, err |-> events.err \ {c}]
Pending == events.send \cup events.recv \cup events.err

\* MUTANT of CancelRecv: nothing is received until everything is sent.
CancelRecvWhileMore(c, k, p) == k + 1 < Len(Backlog(c, m_send_messages[c]))

\* total_sent > 0 && more_pending
CancelRecv(c, k, p) == (k > 0 \/ p > 0) /\ k + 1 < Len(Backlog(c, m_send_messages[c]))

\* EventReadyToSend, and whether the socket is read after it.
EventReadyToSend(c) ==
  /\ sock = "connected" /\ ~interruptNet /\ c \in events.send
  /\ events' = Served(c) /\ id' = c
  /\ IF c \in m_sv2_clients
     THEN \E k \in 0..(Len(m_send_messages[c]) + 1), p \in 0..(Parts - 1), fails \in BOOLEAN :
            /\ SendMessagesAsBytes(c, m_send_messages[c], k, p, fails)
            /\ Goto(IF c \in events.err \/ (c \in events.recv /\ ~CancelRecv(c, k, p))
                    THEN "recv" ELSE "connected")
     ELSE /\ Goto(IF c \in events.err THEN "recv" ELSE "connected")
          /\ UNCHANGED <<m_connected, wire, m_send_buffer, m_send_messages>>
  /\ UNCHANGED <<sockVars, m_sv2_clients, statusVars, m_disconnect_flag, queued, ready, data, peerVars, threadVars>>

ReadyToReceive(c) ==
  /\ sock = "connected" /\ ~interruptNet /\ c \in Pending \ events.send
  /\ events' = Served(c) /\ id' = c /\ Goto("recv")
  /\ UNCHANGED <<sockVars, m_connected, m_sv2_clients, statusVars, m_disconnect_flag, sendVars, ready,
                 data, peerVars, threadVars>>

\* Recv: some of what arrived; or nothing, an error, or no socket any more.
EventGotData ==
  /\ sock = "recv" /\ id \in m_connected /\ incoming[id] # <<>>
  /\ \E n \in 1..Len(incoming[id]) :
       /\ data' = SubSeq(incoming[id], 1, n)
       /\ incoming' = [incoming EXCEPT ![id] = SubSeq(@, n + 1, Len(@))]
  /\ Goto(IF id \in m_sv2_clients THEN "data" ELSE "connected")
  /\ UNCHANGED <<sockVars, m_connected, m_sv2_clients, statusVars, m_disconnect_flag, sendVars, ready,
                 events, id, sent, eof, threadVars>>

\* EventGotEOF; or EventGotPermanentReadError, which loses what arrived before it.
EventGotEOF ==
  /\ sock = "recv" /\ id \in m_connected /\ eof[id] /\ Goto("connected")
  /\ incoming' = [incoming EXCEPT ![id] = <<>>]
  /\ IF id \in m_sv2_clients THEN Flag(id) ELSE UNCHANGED m_disconnect_flag
  /\ UNCHANGED <<sockVars, m_connected, m_sv2_clients, statusVars, sendVars, ready, events, id, data,
                 sent, eof, threadVars>>

NoSocket ==
  /\ sock = "recv" /\ id \notin m_connected /\ Goto("connected")
  /\ UNCHANGED <<sockVars, m_connected, m_sv2_clients, statusVars, m_disconnect_flag, sendVars, ready,
                 events, id, data, peerVars, threadVars>>

\* The loop over the sockets ends; SocketHandlerListening may accept a connection.
SocketHandlerListening ==
  /\ sock = "connected" /\ (Pending = {} \/ interruptNet) /\ Goto("completed")
  /\ events' = NoEvents
  /\ \/ UNCHANGED <<m_next_id, m_connected, m_sv2_clients>>
     \/ /\ ~interruptNet /\ m_next_id < MaxId
        /\ m_next_id' = m_next_id + 1
        /\ m_connected' = m_connected \cup {m_next_id}
        /\ m_sv2_clients' = m_sv2_clients \cup {m_next_id}
  /\ UNCHANGED <<interruptNet, statusVars, m_disconnect_flag, sendVars, ready, id, data, peerVars, threadVars>>

-----------------------------------------------------------------------------
(* EventGotData: the messages in the data, and ProcessSv2Message for each. *)

\* The message is dealt with; or an exception or a broken transport drops the rest.
NextMessage == data' = Tail(data) /\ Goto("data")
Abandon == data' = <<>> /\ Goto("data") /\ Flag(id)

Queue(ms) ==
  /\ m_send_messages' = [m_send_messages EXCEPT ![id] = @ \o ms]
  /\ queued' = [queued EXCEPT ![id] = @ \o ms]

DataFrame == UNCHANGED <<sockVars, m_sv2_clients, events, id, peerVars, threadVars>>

DataDone ==
  /\ sock = "data" /\ data = <<>> /\ Goto("connected")
  /\ DataFrame /\ UNCHANGED <<m_connected, statusVars, m_disconnect_flag, sendVars, ready, data>>

\* ReceivedBytes: the handshake reply goes to the send buffer.
Handshake ==
  /\ sock = "data" /\ data # <<>> /\ ~ready[id] /\ NextMessage
  /\ ready' = [ready EXCEPT ![id] = TRUE]
  /\ m_send_buffer' = [m_send_buffer EXCEPT ![id] = <<[msg |-> "HandshakeReply", left |-> Parts]>>]
  /\ queued' = [queued EXCEPT ![id] = Append(@, "HandshakeReply")]
  /\ DataFrame /\ UNCHANGED <<m_connected, statusVars, m_disconnect_flag, m_send_messages, wire>>

\* A message arrived, or bytes that cannot be one.  A type without a name throws where
\* it is logged.  A client that is about to be disconnected is not listened to.
ReceiveMessage ==
  /\ sock = "data" /\ data # <<>> /\ ready[id]
  /\ IF Head(data) = "Garbage" \/ (Head(data) = "Unknown" /\ LogDebug)
     THEN Abandon
     ELSE /\ IF m_disconnect_flag[id] THEN NextMessage ELSE Goto("handle") /\ UNCHANGED data
          /\ UNCHANGED m_disconnect_flag
  /\ DataFrame /\ UNCHANGED <<m_connected, statusVars, sendVars, ready>>

Handle(kinds) == sock = "handle" /\ Head(data) \in kinds

\* MUTANT of MaySetUp: a client may set up its connection again.
MaySetUpAgain(c) == TRUE

\* SetupConnection is ignored once it was confirmed.
MaySetUp(c) == ~m_setup_connection_confirmed[c]

SetupConnection ==
  /\ Handle({"SetupConnection", "SetupProtocol", "SetupVersion", "SetupInvalid"}) /\ NextMessage
  /\ IF ~MaySetUp(id)
     THEN UNCHANGED <<m_send_messages, queued, m_disconnect_flag, m_setup_connection_confirmed>>
     ELSE CASE Head(data) = "SetupConnection" ->
                 /\ Queue(<<"SetupSuccess">>)
                 /\ m_setup_connection_confirmed' = [m_setup_connection_confirmed EXCEPT ![id] = TRUE]
                 /\ UNCHANGED m_disconnect_flag
            [] Head(data) = "SetupInvalid" ->
                 Flag(id) /\ UNCHANGED <<m_send_messages, queued, m_setup_connection_confirmed>>
            [] OTHER -> Queue(<<"SetupError">>) /\ Flag(id) /\ UNCHANGED m_setup_connection_confirmed
  /\ DataFrame
  /\ UNCHANGED <<m_connected, m_coinbase_output_constraints_recv, m_coinbase_tx_outputs_size,
                 m_send_buffer, wire, ready>>

\* CoinbaseOutputConstraints, up to where m_coinbase_output_constraints_recv is set.
CoinbaseOutputConstraints ==
  /\ Handle({"Constraints", "ConstraintsHuge", "ConstraintsInvalid"})
  /\ IF m_setup_connection_confirmed[id] /\ Head(data) # "ConstraintsInvalid"
     THEN /\ m_coinbase_output_constraints_recv' = [m_coinbase_output_constraints_recv EXCEPT ![id] = TRUE]
          /\ Goto("size") /\ UNCHANGED <<data, m_disconnect_flag>>
     ELSE Flag(id) /\ NextMessage /\ UNCHANGED m_coinbase_output_constraints_recv
  /\ DataFrame
  /\ UNCHANGED <<m_connected, m_setup_connection_confirmed, m_coinbase_tx_outputs_size, sendVars, ready>>

\* The rest of it: the size is assigned unless it is impossible.
CoinbaseOutputSize ==
  /\ sock = "size" /\ NextMessage
  /\ IF Head(data) = "ConstraintsHuge"
     THEN Flag(id) /\ UNCHANGED m_coinbase_tx_outputs_size
     ELSE /\ m_coinbase_tx_outputs_size' = [m_coinbase_tx_outputs_size EXCEPT ![id] = "requested"]
          /\ UNCHANGED m_disconnect_flag
  /\ DataFrame
  /\ UNCHANGED <<m_connected, m_setup_connection_confirmed, m_coinbase_output_constraints_recv, sendVars, ready>>

MaySubmit(c) == m_setup_connection_confirmed[c] \/ m_coinbase_output_constraints_recv[c]

\* SubmitSolution goes to the template provider if it deserializes, unless nothing was
\* set up.
SubmitSolution ==
  /\ Handle({"SubmitSolution"}) /\ NextMessage
  /\ IF MaySubmit(id) THEN UNCHANGED m_disconnect_flag ELSE Flag(id)
  /\ DataFrame /\ UNCHANGED <<m_connected, statusVars, sendVars, ready>>

\* RequestTransactionData: the template provider queues an error, or queues the
\* transactions and sends at once.
RequestTransactionData ==
  /\ Handle({"RequestTransactionData"}) /\ NextMessage
  /\ \/ Queue(<<"TxError">>) /\ UNCHANGED <<m_connected, m_send_buffer, wire>>
     \/ QueueAndSend(id, <<"TxData">>)
  /\ DataFrame /\ UNCHANGED <<statusVars, m_disconnect_flag, ready>>

\* A call to the node throws in one of the two: the client is flagged.
ProviderThrows ==
  /\ "ipc" \in Faults /\ Handle({"SubmitSolution", "RequestTransactionData"}) /\ Abandon
  /\ Head(data) = "SubmitSolution" => MaySubmit(id)
  /\ DataFrame /\ UNCHANGED <<m_connected, statusVars, sendVars, ready>>

\* Messages that do not deserialize, or that only a server sends, are ignored.
IgnoreMessage ==
  /\ Handle({"Invalid", "Known", "Unknown"}) /\ NextMessage
  /\ DataFrame /\ UNCHANGED <<m_connected, statusVars, m_disconnect_flag, sendVars, ready>>

-----------------------------------------------------------------------------
(* The template provider's thread for client c.                            *)

IsFullyConnected(c) == ~m_disconnect_flag[c] /\ m_setup_connection_confirmed[c]

ThreadFrame == UNCHANGED <<sockVars, m_sv2_clients, statusVars, ready, loopVars, peerVars>>

\* MUTANT of SpawnThread: a thread is started as soon as the connection is set up.
SpawnThreadAtSetup(c) ==
  /\ thread[c] = "none" /\ c \in m_sv2_clients /\ IsFullyConnected(c)
  /\ thread' = [thread EXCEPT ![c] = "options"]
  /\ ThreadFrame /\ UNCHANGED <<m_connected, m_disconnect_flag, sendVars, work, sizeUsed>>

\* ForEachClient of the handler thread.
SpawnThread(c) ==
  /\ thread[c] = "none" /\ c \in m_sv2_clients /\ IsFullyConnected(c)
  /\ m_coinbase_output_constraints_recv[c]
  /\ thread' = [thread EXCEPT ![c] = "options"]
  /\ ThreadFrame /\ UNCHANGED <<m_connected, m_disconnect_flag, sendVars, work, sizeUsed>>

\* prepare_block_create_options reads the size of the client's outputs.
PrepareBlockCreateOptions(c) ==
  /\ thread[c] = "options"
  /\ IF c \in m_sv2_clients
     THEN /\ sizeUsed' = [sizeUsed EXCEPT ![c] = m_coinbase_tx_outputs_size[c]]
          /\ thread' = [thread EXCEPT ![c] = "work"]
     ELSE thread' = [thread EXCEPT ![c] = "done"] /\ UNCHANGED sizeUsed
  /\ ThreadFrame /\ UNCHANGED <<m_connected, m_disconnect_flag, sendVars, work>>

\* MUTANT of GetClientById: the client is not looked up again.
HeldClient(c) == TRUE

\* GetClientById, under m_clients_mutex, before every use of the client.
GetClientById(c) == c \in m_sv2_clients

\* SendWork queues a template, with SetNewPrevHash if it is a future one, and sends at
\* once; or it refuses the template.
SendWork(c) ==
  /\ thread[c] = "work" /\ work[c] < MaxWork /\ GetClientById(c)
  /\ work' = [work EXCEPT ![c] = @ + 1]
  /\ \/ /\ \/ QueueAndSend(c, <<"NewTemplate", "SetNewPrevHash">>)
           \/ work[c] > 0 /\ QueueAndSend(c, <<"NewTemplate">>)
        /\ UNCHANGED m_disconnect_flag
     \/ "refuse" \in Faults /\ Flag(c) /\ UNCHANGED <<m_connected, sendVars>>
  /\ ThreadFrame /\ UNCHANGED <<thread, sizeUsed>>

ThreadEnd(c) ==
  /\ thread[c] = "work" /\ ~GetClientById(c)
  /\ thread' = [thread EXCEPT ![c] = "done"]
  /\ ThreadFrame /\ UNCHANGED <<m_connected, m_disconnect_flag, sendVars, work, sizeUsed>>

-----------------------------------------------------------------------------

Interrupt ==
  /\ "interrupt" \in Faults /\ ~interruptNet /\ interruptNet' = TRUE
  /\ UNCHANGED <<m_next_id, m_connected, m_sv2_clients, statusVars, m_disconnect_flag, sendVars, ready,
                 loopVars, peerVars, threadVars>>

SocketsThread ==
  \/ DisconnectFlagged \/ SocketsThreadEnd \/ GenerateWaitSockets
  \/ \E c \in Ids : EventReadyToSend(c) \/ ReadyToReceive(c)
  \/ EventGotData \/ EventGotEOF \/ NoSocket \/ SocketHandlerListening
  \/ DataDone \/ Handshake \/ ReceiveMessage \/ SetupConnection \/ CoinbaseOutputConstraints
  \/ CoinbaseOutputSize \/ SubmitSolution \/ RequestTransactionData
  \/ ProviderThrows \/ IgnoreMessage

ClientThread(c) == SpawnThread(c) \/ PrepareBlockCreateOptions(c) \/ SendWork(c) \/ ThreadEnd(c)

Next == SocketsThread \/ Interrupt \/ \E c \in Ids : PeerSend(c) \/ PeerClose(c) \/ ClientThread(c)

Spec == Init /\ [][Next]_vars

\* The operating system runs the sockets thread; nothing is assumed of the remote sides.
FairSpec == Spec /\ WF_vars(SocketsThread)

-----------------------------------------------------------------------------
(* Properties *)

Replies == {"HandshakeReply", "SetupSuccess", "SetupError", "TxError", "TxData", "NewTemplate", "SetNewPrevHash"}

\* Every variable has its type.
TypeOK ==
  /\ m_next_id \in 0..MaxId /\ m_connected \subseteq Ids /\ m_sv2_clients \subseteq Ids
  /\ interruptNet \in BOOLEAN
  /\ m_setup_connection_confirmed \in [Ids -> BOOLEAN]
  /\ m_coinbase_output_constraints_recv \in [Ids -> BOOLEAN]
  /\ m_coinbase_tx_outputs_size \in [Ids -> {"uninitialised", "requested"}]
  /\ m_disconnect_flag \in [Ids -> BOOLEAN] /\ ready \in [Ids -> BOOLEAN]
  /\ m_send_messages \in [Ids -> Seq(Replies)] /\ queued \in [Ids -> Seq(Replies)]
  /\ wire \in [Ids -> Seq(Replies)]
  /\ m_send_buffer \in [Ids -> Seq([msg : Replies, left : 1..Parts])]
  /\ \A c \in Ids : Len(m_send_buffer[c]) <= 1
  /\ sock \in {"completed", "wait", "connected", "recv", "data", "handle", "size", "done"}
  /\ events \in [send : SUBSET Ids, recv : SUBSET Ids, err : SUBSET Ids]
  /\ id \in 0..MaxId /\ data \in Seq(MessageKinds \cup {"Key"})
  /\ incoming \in [Ids -> Seq(MessageKinds \cup {"Key"})]
  /\ sent \in [Ids -> 0..MaxReceived] /\ eof \in [Ids -> BOOLEAN]
  /\ thread \in [Ids -> {"none", "options", "work", "done"}] /\ work \in [Ids -> 0..MaxWork]
  /\ sizeUsed \in [Ids -> {"none", "uninitialised", "requested"}]

\* Nothing that was queued is lost, repeated or reordered, however sends of the sockets
\* thread and of a client's thread interleave and wherever the kernel stops accepting.
InOrder == \A c \in Ids : queued[c] = wire[c] \o Backlog(c, m_send_messages[c])

Is(q, kinds) == {i \in DOMAIN q : q[i] \in kinds}

\* SetupConnection is answered at most once, whatever is sent after it.
OneSetupReply ==
  \A c \in Ids : \A i, j \in Is(queued[c], {"SetupSuccess", "SetupError"}) : i = j

\* Once a client is removed from m_sv2_clients, nothing more is queued for it.
SilentOnceRemoved ==
  [][\A c \in Ids : (c < m_next_id /\ c \notin m_sv2_clients) => queued'[c] = queued[c]]_vars

\* What a client sent is received, even if it does not read what is sent to it: no
\* deadlock of two sides that only send (connman.cpp:196-202).
ReceiveProgress ==
  \A c \in Ids : incoming[c] # <<>> ~> (incoming[c] = <<>> \/ c \notin m_connected \/ interruptNet)

\* Once interrupted the sockets thread ends, whatever the clients do.
InterruptStops == interruptNet ~> sock = "done"

\* The socket of a client that still listens is closed after all queued messages have
\* been sent (connman.h:44-45).
ClosedAfterSent == [][\A c \in m_connected \ m_connected' : ~eof[c] => wire[c] = queued[c]]_vars

\* m_sv2_clients is a map of all connected clients (connman.h:137): one whose socket is
\* closed leaves it.
ClosedIsRemoved ==
  \A c \in Ids : (c \in m_sv2_clients /\ c \notin m_connected) ~> c \notin m_sv2_clients

\* The size a thread reserves for a client's outputs is one the client asked for
\* (connman.h:59-62).
SizeRequested == \A c \in Ids : sizeUsed[c] # "uninitialised"

\* What the connection manager is for the template provider.
ServiceState ==
  [c \in Ids |-> CASE c < m_next_id /\ c \notin m_sv2_clients -> "gone"
                  [] c \in m_sv2_clients /\ m_coinbase_output_constraints_recv[c] -> "ready"
                  [] OTHER -> "absent"]

Service == INSTANCE ClientService WITH
  Clients <- Ids, WorkMsgs <- {"NewTemplate", "SetNewPrevHash"},
  state <- ServiceState, flagged <- m_disconnect_flag, out <- queued

\* The messages a client sends, its sockets and the threads that serve it change its
\* entry and its queue only as ClientService allows, which is what Sv2TemplateProvider
\* assumes: no client asks for templates after it was flagged, none is removed that is
\* not flagged, and only one that asked for them is sent any.
IsClientService == Service!Spec
=============================================================================
