----------------------------- MODULE LockProofs -----------------------------
(***************************************************************************)
(* Sv2Locks never deadlocks, whatever the number of clients.  The mutexes  *)
(* have a rank, and every function takes them in the order of their ranks. *)
(* A thread that holds a mutex for which another one waits therefore waits *)
(* itself for a mutex of a higher rank; there are only eight ranks.  A     *)
(* thread that joins another one holds nothing, and threads are joined     *)
(* along main, handler, client.                                            *)
(***************************************************************************)
EXTENDS Sv2Locks, TLAPS

\* The order in which the code takes mutexes.
Rank(l) ==
  CASE l[1] = "m_clients_mutex" -> 1
    [] l[1] = "m_tp_mutex" -> 2
    [] l[1] = "cs_send" -> 3
    [] l[1] = "cs_status" -> 4
    [] l[1] = "m_recv_mutex" -> 5
    [] l[1] = "m_send_mutex" -> 6
    [] l[1] = "m_connected_mutex" -> 7
    [] l[1] = "mutex" -> 8

\* Every pair takes a mutex of a higher rank than those that are held.
Upwards(P) == \A p \in P : \A m \in p[1] : Rank(m) < Rank(p[2])

\* The ranks of the mutexes.
LEMMA Ranks ==
  /\ Rank(m_clients_mutex) = 1
  /\ Rank(m_tp_mutex) = 2
  /\ Rank(m_connected_mutex) = 7
  /\ \A c : /\ Rank(cs_send(c)) = 3
            /\ Rank(cs_status(c)) = 4
            /\ Rank(m_recv_mutex(c)) = 5
            /\ Rank(m_send_mutex(c)) = 6
            /\ Rank(sock_mutex(c)) = 8
  BY DEF Rank, m_clients_mutex, m_tp_mutex, m_connected_mutex, cs_send, cs_status,
         m_recv_mutex, m_send_mutex, sock_mutex

\* Every mutex has a rank from 1 to 8.
LEMMA RankRange == \A l \in Locks : Rank(l) \in 1..8
  BY Ranks DEF Locks

\* What SendMessagesAsBytes takes ranks above cs_send, whoever calls it.
LEMMA SendUpwards ==
  \A H, c : (\A m \in H : Rank(m) \in Nat /\ Rank(m) <= 3) => Upwards(SendMessagesAsBytes(H, c))
<1> SUFFICES ASSUME NEW H, NEW c, \A m \in H : Rank(m) \in Nat /\ Rank(m) <= 3,
                    NEW p \in SendMessagesAsBytes(H, c)
             PROVE  \A m \in p[1] : Rank(m) < Rank(p[2])
  BY DEF Upwards
<1>1. p[1] = H /\ p[2] \in {m_send_mutex(c), m_connected_mutex, sock_mutex(c)}
  BY DEF SendMessagesAsBytes, SendBytes, CloseConnection
<1>2. Rank(p[2]) \in {6, 7, 8}
  BY <1>1, Ranks
<1> QED BY <1>1, <1>2

\* Sets of pairs that go upwards can be joined.
LEMMA UpwardsUnion == \A P, Q : Upwards(P) /\ Upwards(Q) => Upwards(P \cup Q)
  BY DEF Upwards

\* The functions of the sockets thread.
LEMMA SocketUpwards == Upwards(ThreadSocketHandler)
<1>1. Upwards(DisconnectFlagged)
  BY Ranks DEF Upwards, DisconnectFlagged, CloseConnection
<1>2. Upwards(GetClientById)
  BY DEF Upwards, GetClientById
<1>3. ASSUME NEW c PROVE Upwards(SendMessagesAsBytes({cs_send(c)}, c))
  BY SendUpwards, Ranks
<1>4. ASSUME NEW c PROVE Upwards(EventReadyToSend(c))
  BY <1>2, <1>3 DEF Upwards, EventReadyToSend
<1>5. ASSUME NEW c PROVE Upwards(ReceivedBytes(c))
  BY Ranks DEF Upwards, ReceivedBytes
<1>6. ASSUME NEW c PROVE Upwards(RequestTransactionData(c))
  <2>1. Upwards({<<{}, m_tp_mutex>>, <<{m_tp_mutex}, cs_send(c)>>, <<{}, cs_send(c)>>})
    BY Ranks DEF Upwards
  <2> QED BY <2>1, <1>3, UpwardsUnion DEF RequestTransactionData
<1>7. ASSUME NEW c PROVE Upwards(ProcessSv2Message(c))
  <2>1. Upwards({<<{}, cs_status(c)>>, <<{}, cs_send(c)>>, <<{cs_send(c)}, cs_status(c)>>})
    BY Ranks DEF Upwards
  <2>2. Upwards(SubmitSolution)
    BY DEF Upwards, SubmitSolution
  <2> QED BY <2>1, <2>2, <1>6, UpwardsUnion DEF ProcessSv2Message
<1>8. ASSUME NEW c PROVE Upwards(EventGotData(c))
  <2>1. Upwards({<<{}, cs_status(c)>>})
    BY DEF Upwards
  <2> QED BY <2>1, <1>2, <1>5, <1>7, UpwardsUnion DEF EventGotData
<1>9. ASSUME NEW c
      PROVE  Upwards({<<{}, sock_mutex(c)>>} \cup EventReadyToSend(c) \cup EventGotData(c))
  <2>1. Upwards({<<{}, sock_mutex(c)>>})
    BY DEF Upwards
  <2> QED BY <2>1, <1>4, <1>8, UpwardsUnion
<1> QED BY <1>1, <1>9 DEF Upwards, ThreadSocketHandler

\* The functions of the other threads.
LEMMA OthersUpwards ==
  /\ Upwards(ThreadSv2Handler)
  /\ Upwards(Main)
  /\ \A c : Upwards(ThreadSv2ClientHandler(c))
<1>1. Upwards(ThreadSv2Handler)
  BY Ranks DEF Upwards, ThreadSv2Handler
<1>2. Upwards(Main)
  BY Ranks DEF Upwards, Main, DisconnectFlagged, CloseConnection
<1>3. ASSUME NEW c PROVE Upwards(ThreadSv2ClientHandler(c))
  <2>1. Upwards(SendMessagesAsBytes({m_clients_mutex, cs_send(c)}, c))
    BY SendUpwards, Ranks
  <2>2. Upwards({<<{m_clients_mutex}, cs_send(c)>>})
    BY Ranks DEF Upwards
  <2>3. Upwards({<<{}, m_tp_mutex>>, <<{}, m_clients_mutex>>, <<{m_clients_mutex}, m_tp_mutex>>,
                 <<{m_clients_mutex}, cs_status(c)>>})
    BY Ranks DEF Upwards
  <2> QED BY <2>1, <2>2, <2>3, UpwardsUnion DEF ThreadSv2ClientHandler, SendWork
<1> QED BY <1>1, <1>2, <1>3

\* Whatever a thread takes ranks above all that it holds.
LEMMA TakesUpwards == \A t : Upwards(Takes(t))
  BY SocketUpwards, OthersUpwards DEF Takes

---------------------------------------------------------------------------

\* The inductive invariant: a thread waits for a mutex above those it holds, or,
\* holding none, for a thread that it joins.
LockInv ==
  /\ TypeOK
  /\ \A t \in Threads :
       /\ waits[t] \in Locks => \A m \in held[t] : Rank(m) < Rank(waits[t])
       /\ waits[t] \in Threads => held[t] = {} /\ waits[t] \in Joins(t)

\* Mutexes and threads are different things.
LEMMA Distinct == Locks \cap Threads = {}
  BY DEF Locks, Threads, m_clients_mutex, m_tp_mutex, m_connected_mutex, cs_send, cs_status,
         m_recv_mutex, m_send_mutex, sock_mutex, ClientThread, SocketThread, HandlerThread,
         MainThread

\* Init establishes the invariant and every step preserves it.
LEMMA LockInvInit == Init => LockInv
  BY NothingAssumption DEF Init, LockInv, TypeOK

LEMMA LockInvNext == LockInv /\ [Next]_vars => LockInv'
<1> SUFFICES ASSUME LockInv, [Next]_vars PROVE LockInv'
  OBVIOUS
<1> USE DEF LockInv, TypeOK
<1>1. CASE UNCHANGED vars
  BY <1>1 DEF vars
<1>2. ASSUME NEW t \in Threads, NEW l \in Locks, Lock(t, l) PROVE LockInv'
  <2>1. \A m \in held[t] : Rank(m) < Rank(l)
    BY <1>2, TakesUpwards DEF Lock, Upwards
  <2> QED BY <1>2, <2>1, Distinct DEF Lock
<1>3. ASSUME NEW t \in Threads, NEW l \in Locks, Unlock(t, l) PROVE LockInv'
  BY <1>3, NothingAssumption DEF Unlock, Runs
<1>4. ASSUME NEW t \in Threads, NEW u \in Threads, Join(t, u) PROVE LockInv'
  BY <1>4, Distinct DEF Join
<1>5. ASSUME NEW t \in Threads, Locked(t) PROVE LockInv'
  BY <1>5, NothingAssumption DEF Locked
<1>6. ASSUME NEW t \in Threads, Joined(t) PROVE LockInv'
  BY <1>6, NothingAssumption DEF Joined
<1>7. ASSUME NEW t \in Threads, Return(t) PROVE LockInv'
  BY <1>7 DEF Return
<1> QED BY <1>1, <1>2, <1>3, <1>4, <1>5, <1>6, <1>7 DEF Next

\* In a set in which every thread waits for another, one that waits for a mutex is
\* followed by one that waits for a mutex of a higher rank.
LEMMA Higher ==
  ASSUME LockInv, NEW S \in SUBSET Threads, \A t \in S : \E u \in S : WaitsFor(t, u),
         NEW t \in S, waits[t] \in Locks
  PROVE  \E u \in S : waits[u] \in Locks /\ Rank(waits[t]) < Rank(waits[u])
<1>1. PICK u \in S : WaitsFor(t, u)
  OBVIOUS
<1>2. waits[t] \in held[u]
  BY <1>1, Distinct DEF WaitsFor
<1>3. PICK v \in S : WaitsFor(u, v)
  OBVIOUS
<1>4. waits[u] \in Locks \/ waits[u] \in Threads
  BY <1>3 DEF WaitsFor, LockInv, TypeOK
<1>5. waits[u] \in Locks
  BY <1>2, <1>4 DEF LockInv
<1> QED BY <1>2, <1>5 DEF LockInv

\* The invariant excludes a deadlock: a thread that waits for a mutex starts nine
\* rising ranks, and a thread that joins is followed by one that waits for a mutex.
LEMMA LockInvNoDeadlock == LockInv => NoDeadlock
<1> SUFFICES ASSUME LockInv, NEW S \in SUBSET Threads, S # {},
                    \A t \in S : \E u \in S : WaitsFor(t, u)
             PROVE  FALSE
  BY DEF NoDeadlock
<1> DEFINE W(t, n) == waits[t] \in Locks /\ Rank(waits[t]) > n
<1>1. ASSUME NEW t \in S, waits[t] \in Locks PROVE \E u \in S : W(u, 1)
  <2>1. PICK u \in S : waits[u] \in Locks /\ Rank(waits[t]) < Rank(waits[u])
    BY <1>1, Higher
  <2> QED BY <1>1, <2>1, RankRange
<1>2. ASSUME NEW n \in Nat, \E t \in S : W(t, n) PROVE \E u \in S : W(u, n + 1)
  <2>1. PICK t \in S : W(t, n)
    BY <1>2
  <2>2. PICK u \in S : waits[u] \in Locks /\ Rank(waits[t]) < Rank(waits[u])
    BY <2>1, Higher
  <2> QED BY <2>1, <2>2, RankRange
<1>3. \A t \in S : waits[t] \notin Locks
  <2> HIDE DEF W
  <2>1. \A t \in S : ~W(t, 8)
    BY RankRange DEF W
  <2>2. SUFFICES ASSUME \E u \in S : W(u, 1) PROVE FALSE
    BY <1>1
  <2>3. \E u \in S : W(u, 2)
    BY <1>2, <2>2
  <2>4. \E u \in S : W(u, 3)
    BY <1>2, <2>3
  <2>5. \E u \in S : W(u, 4)
    BY <1>2, <2>4
  <2>6. \E u \in S : W(u, 5)
    BY <1>2, <2>5
  <2>7. \E u \in S : W(u, 6)
    BY <1>2, <2>6
  <2>8. \E u \in S : W(u, 7)
    BY <1>2, <2>7
  <2>9. \E u \in S : W(u, 8)
    BY <1>2, <2>8
  <2> QED BY <2>1, <2>9
<1>4. \A t \in S : waits[t] \in S /\ waits[t] \in Joins(t)
  <2> SUFFICES ASSUME NEW t \in S PROVE waits[t] \in S /\ waits[t] \in Joins(t)
    OBVIOUS
  <2>1. PICK u \in S : WaitsFor(t, u)
    OBVIOUS
  <2> QED BY <2>1, <1>3 DEF WaitsFor, LockInv, TypeOK
<1>5. PICK t \in S : TRUE
  OBVIOUS
<1>6. ASSUME NEW v, Joins(v) # {} PROVE v = HandlerThread \/ v = MainThread
  BY <1>6 DEF Joins
<1>7. HandlerThread \notin S
  <2>1. SUFFICES ASSUME HandlerThread \in S PROVE FALSE
    OBVIOUS
  <2>2. PICK c \in Clients : waits[HandlerThread] = ClientThread(c)
    BY <2>1, <1>4 DEF Joins, HandlerThread, MainThread
  <2>3. Joins(ClientThread(c)) = {}
    BY DEF Joins, ClientThread, HandlerThread, MainThread
  <2> QED BY <2>1, <2>2, <2>3, <1>4
<1>8. MainThread \notin S
  <2>1. Joins(MainThread) = {HandlerThread, SocketThread}
    BY DEF Joins, MainThread, HandlerThread
  <2>2. Joins(SocketThread) = {}
    BY DEF Joins, SocketThread, MainThread, HandlerThread
  <2> QED BY <2>1, <2>2, <1>4, <1>7
<1> QED BY <1>4, <1>5, <1>6, <1>7, <1>8

\* For any number of clients, no set of threads of the process ever waits for
\* each other: the lock order of the code is consistent, and joins respect it.
THEOREM DeadlockFree == Spec => []NoDeadlock
<1>1. LockInv /\ [Next]_vars => LockInv'
  BY LockInvNext
<1> QED BY <1>1, LockInvInit, LockInvNoDeadlock, PTL DEF Spec
=============================================================================
