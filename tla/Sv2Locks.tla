------------------------------ MODULE Sv2Locks ------------------------------
(***************************************************************************)
(* The mutexes of the process and the threads that wait for them and for   *)
(* each other.  All that is kept of a function is which mutexes it takes   *)
(* while it holds which: a pair <<held, lock>>.  LOCK and WITH_LOCK release*)
(* at the end of their scope, so the mutex taken last is released first.   *)
(*                                                                         *)
(* A function is a set of such pairs; a thread runs any of its functions   *)
(* any number of times and takes any path through them.  Which message or  *)
(* event makes it do so is the business of Sv2Connman and                  *)
(* Sv2TemplateProvider.                                                    *)
(***************************************************************************)
EXTENDS Naturals

CONSTANTS
  Clients,             \* connected clients
  NoClient,            \* in place of a client in the name of a global mutex
  Nothing              \* a thread that waits for nothing

---------------------------------------------------------------------------
(* Mutexes and threads *)

m_clients_mutex == <<"m_clients_mutex", NoClient>>
m_tp_mutex == <<"m_tp_mutex", NoClient>>
m_connected_mutex == <<"m_connected_mutex", NoClient>>

cs_send(c) == <<"cs_send", c>>
cs_status(c) == <<"cs_status", c>>
m_recv_mutex(c) == <<"m_recv_mutex", c>>
m_send_mutex(c) == <<"m_send_mutex", c>>

\* ConnectionSockets::mutex of the client's socket.
sock_mutex(c) == <<"mutex", c>>

Locks ==
  {m_clients_mutex, m_tp_mutex, m_connected_mutex} \cup
  UNION {{cs_send(c), cs_status(c), m_recv_mutex(c), m_send_mutex(c), sock_mutex(c)} :
         c \in Clients}

ClientThread(c) == <<"client", c>>
SocketThread == <<"sv2sockets", NoClient>>
HandlerThread == <<"sv2handler", NoClient>>
MainThread == <<"main", NoClient>>

Threads == {SocketThread, HandlerThread, MainThread} \cup {ClientThread(c) : c \in Clients}

ASSUME NothingAssumption == Nothing \notin Locks \cup Threads

---------------------------------------------------------------------------
(* What each function takes, and what it holds then *)

CloseConnection(held) == {<<held, m_connected_mutex>>}

\* SockMan::SendBytes looks the socket up, then locks it.
SendBytes(held, c) == {<<held, m_connected_mutex>>, <<held, sock_mutex(c)>>}

\* SetMessageToSend, GetBytesToSend and MarkBytesSent, around SendBytes.
SendMessagesAsBytes(held, c) ==
  {<<held, m_send_mutex(c)>>} \cup SendBytes(held, c) \cup CloseConnection(held)

DisconnectFlagged ==
  {<<{}, m_clients_mutex>>} \cup
  UNION {{<<{m_clients_mutex}, cs_send(c)>>, <<{m_clients_mutex, cs_send(c)}, cs_status(c)>>}
           \cup CloseConnection({m_clients_mutex, cs_send(c), cs_status(c)}) :
         c \in Clients}

\* EventNewConnectionAccepted, EventGotData, EventGotEOF and EventReadyToSend
\* use the map alone and release it before they use the client.
GetClientById == {<<{}, m_clients_mutex>>}

EventReadyToSend(c) ==
  GetClientById \cup {<<{}, cs_send(c)>>} \cup SendMessagesAsBytes({cs_send(c)}, c)

\* The receiving side; SendHandshakeReply is called with m_recv_mutex held.
ReceivedBytes(c) == {<<{}, m_recv_mutex(c)>>, <<{m_recv_mutex(c)}, m_send_mutex(c)>>}

\* RequestTransactionData queues its error message with m_tp_mutex held, and its
\* answer after it released it; then TryOptimisticSend.
RequestTransactionData(c) ==
  {<<{}, m_tp_mutex>>, <<{m_tp_mutex}, cs_send(c)>>, <<{}, cs_send(c)>>}
    \cup SendMessagesAsBytes({cs_send(c)}, c)

SubmitSolution == {<<{}, m_tp_mutex>>}

\* SetupConnection reads the flags while it holds the queue.
ProcessSv2Message(c) ==
  {<<{}, cs_status(c)>>, <<{}, cs_send(c)>>, <<{cs_send(c)}, cs_status(c)>>}
    \cup SubmitSolution \cup RequestTransactionData(c)

EventGotData(c) ==
  GetClientById \cup ReceivedBytes(c) \cup {<<{}, cs_status(c)>>} \cup ProcessSv2Message(c)

\* Polling, receiving and accepting, and the events they lead to.
ThreadSocketHandler ==
  DisconnectFlagged \cup {<<{}, m_connected_mutex>>} \cup
  UNION {{<<{}, sock_mutex(c)>>} \cup EventReadyToSend(c) \cup EventGotData(c) : c \in Clients}

\* SendWork is called with m_clients_mutex held; it queues and sends optimistically.
SendWork(c) ==
  {<<{m_clients_mutex}, cs_send(c)>>} \cup SendMessagesAsBytes({m_clients_mutex, cs_send(c)}, c)

\* The id of an updated template is read under both mutexes.
ThreadSv2ClientHandler(c) ==
  {<<{}, m_tp_mutex>>, <<{}, m_clients_mutex>>, <<{m_clients_mutex}, m_tp_mutex>>,
   <<{m_clients_mutex}, cs_status(c)>>} \cup SendWork(c)

\* MUTANT: m_tp_mutex is held while the threads of new clients are started.
ThreadSv2HandlerHoldsTp ==
  {<<{}, m_tp_mutex>>, <<{m_tp_mutex}, m_clients_mutex>>} \cup
  {<<{m_tp_mutex, m_clients_mutex}, cs_status(c)>> : c \in Clients}

\* ForEachClient and PruneBlockTemplateCache.
ThreadSv2Handler ==
  {<<{}, m_tp_mutex>>, <<{}, m_clients_mutex>>} \cup
  {<<{m_clients_mutex}, cs_status(c)>> : c \in Clients}

\* Interrupt, and the destructor of Sv2Connman.
Main == {<<{}, m_tp_mutex>>} \cup DisconnectFlagged

Takes(t) ==
  CASE t = SocketThread -> ThreadSocketHandler
    [] t = HandlerThread -> ThreadSv2Handler
    [] t = MainThread -> Main
    [] OTHER -> ThreadSv2ClientHandler(t[2])

\* The handler thread joins the client threads before it returns; StopThreads of
\* the provider joins the handler, JoinSocketsThreads the sockets thread.
Joins(t) ==
  CASE t = HandlerThread -> {ClientThread(c) : c \in Clients}
    [] t = MainThread -> {HandlerThread, SocketThread}
    [] OTHER -> {}

---------------------------------------------------------------------------
VARIABLES
  held,                \* thread -> mutexes it holds
  waits,               \* thread -> mutex or thread it waits for, or Nothing
  ended                \* threads that have returned

vars == <<held, waits, ended>>

Init ==
  /\ held = [t \in Threads |-> {}]
  /\ waits = [t \in Threads |-> Nothing]
  /\ ended = {}

\* A thread that is neither waiting nor over.
Runs(t) == t \notin ended /\ waits[t] = Nothing

Lock(t, l) ==
  /\ Runs(t)
  /\ <<held[t], l>> \in Takes(t)
  /\ waits' = [waits EXCEPT ![t] = l]
  /\ UNCHANGED <<held, ended>>

Locked(t) ==
  /\ waits[t] \in Locks
  /\ \A u \in Threads : waits[t] \notin held[u]
  /\ held' = [held EXCEPT ![t] = @ \cup {waits[t]}]
  /\ waits' = [waits EXCEPT ![t] = Nothing]
  /\ UNCHANGED ended

Unlock(t, l) ==
  /\ Runs(t)
  /\ l \in held[t]
  /\ <<held[t] \ {l}, l>> \in Takes(t)
  /\ held' = [held EXCEPT ![t] = @ \ {l}]
  /\ UNCHANGED <<waits, ended>>

Join(t, u) ==
  /\ Runs(t)
  /\ held[t] = {}
  /\ u \in Joins(t)
  /\ waits' = [waits EXCEPT ![t] = u]
  /\ UNCHANGED <<held, ended>>

Joined(t) ==
  /\ waits[t] \in ended
  /\ waits' = [waits EXCEPT ![t] = Nothing]
  /\ UNCHANGED <<held, ended>>

\* A thread returns once those it joins have returned.
Return(t) ==
  /\ Runs(t)
  /\ held[t] = {}
  /\ Joins(t) \subseteq ended
  /\ ended' = ended \cup {t}
  /\ UNCHANGED <<held, waits>>

Next ==
  \E t \in Threads :
    \/ \E l \in Locks : Lock(t, l) \/ Unlock(t, l)
    \/ \E u \in Threads : Join(t, u)
    \/ Locked(t)
    \/ Joined(t)
    \/ Return(t)

Spec == Init /\ [][Next]_vars

---------------------------------------------------------------------------
(* Properties *)

\* Types: mutexes are held by threads, which wait for a mutex, a thread or nothing.
TypeOK ==
  /\ held \in [Threads -> SUBSET Locks]
  /\ waits \in [Threads -> Locks \cup Threads \cup {Nothing}]
  /\ ended \subseteq Threads

\* Thread t cannot go on before thread u does.
WaitsFor(t, u) == waits[t] \in held[u] \/ (waits[t] = u /\ u \notin ended)

\* No set of threads exists in which each waits for another one of the set: no
\* two functions of the code nest the same two mutexes in opposite orders, also
\* by way of others, and no thread joins one that needs a mutex it holds.
NoDeadlock ==
  \A S \in SUBSET Threads :
    S # {} => \E t \in S : \A u \in S : ~WaitsFor(t, u)
=============================================================================
