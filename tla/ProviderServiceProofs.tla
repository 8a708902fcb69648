----------------------- MODULE ProviderServiceProofs -----------------------
(***************************************************************************)
(* What the template provider promises to its clients, for every set of    *)
(* clients, any number of blocks and any clock: it implements              *)
(* ClientService; the first template a client is sent is the one cached    *)
(* under its id; fee updates keep their distance.                          *)
(***************************************************************************)
EXTENDS ProviderProofs

-----------------------------------------------------------------------------
(* ClientService. *)

\* The sockets thread removes a client only between two calls, so the client of the call
\* it is in has not been removed.
JobInv == job # Idle => clients[job.client] # "gone"

\* A thread was started for a client that had asked for templates.
AskedInv == \A c \in Clients : pc[c] # "none" => clients[c] \in {"ready", "gone"}

\* What ClientService knows of the clients.
View == [c \in Clients |-> IF clients[c] = "connected" THEN "absent" ELSE clients[c]]

LEMMA Viewed ==
  ASSUME NEW c \in Clients
  PROVE  (View[c] = "gone" <=> clients[c] = "gone") /\ (View[c] = "ready" <=> clients[c] = "ready")
BY DEF View

\* Steps that leave what the two parts share alone.
SharedUnchanged == UNCHANGED <<View, m_disconnect_flag, m_send_messages>>

LEMMA ViewUnchanged ==
  ASSUME UNCHANGED clients
  PROVE  UNCHANGED View
BY Zenon DEF View

-----------------------------------------------------------------------------
(* What a queue or a flag may undergo. *)

LEMMA FlagServes ==
  ASSUME Inv, NEW c \in Clients, clients[c] # "gone", UNCHANGED <<clients, m_send_messages>>,
         m_disconnect_flag' = [m_disconnect_flag EXCEPT ![c] = TRUE]
  PROVE  Service!Serve(c)
<1>1. m_disconnect_flag \in [Clients -> BOOLEAN] /\ m_send_messages[c] \in Seq(Message)
  BY Zenon DEF Inv, TypeOK, ClientTypeOK
<1>2. Len(m_send_messages[c]) \in Nat /\ SubSeq(m_send_messages[c], 1, Len(m_send_messages[c])) = m_send_messages[c]
  BY <1>1
<1>3. \A i \in (Len(m_send_messages[c]) + 1)..Len(m_send_messages[c]) : FALSE
  BY <1>2
<1>4. Len(m_send_messages[c]) <= Len(m_send_messages[c])
  BY <1>2
<1> QED
  BY <1>1, <1>2, <1>3, <1>4, Viewed, ViewUnchanged, Zenon DEF Service!Serve, View

LEMMA QueueServes ==
  ASSUME Inv, NEW c \in Clients, clients[c] # "gone", UNCHANGED <<clients, m_disconnect_flag>>,
         NEW ms \in Seq(Message), m_send_messages' = [m_send_messages EXCEPT ![c] = @ \o ms],
         \/ clients[c] = "ready"
         \/ \A i \in 1..Len(ms) : ms[i].type \in {"NotFound", "Stale", "TxData"}
  PROVE  Service!Serve(c)
<1> DEFINE q == m_send_messages[c]
           W == [type : TemplateMsgs \cup {"SetNewPrevHash"}, id : Nat, tmpl : Template]
<1>1. /\ m_send_messages \in [Clients -> Seq(Message)] /\ q \in Seq(Message)
      /\ m_disconnect_flag \in [Clients -> BOOLEAN]
  BY Zenon DEF Inv, TypeOK, ClientTypeOK
<1>2. m_send_messages'[c] = q \o ms /\ \A d \in Clients \ {c} : m_send_messages'[d] = m_send_messages[d]
  BY <1>1, Zenon
<1>3. /\ Len(q) \in Nat /\ Len(ms) \in Nat /\ Len(q \o ms) = Len(q) + Len(ms)
      /\ SubSeq(q \o ms, 1, Len(q)) = q
      /\ \A i \in (Len(q) + 1)..Len(q \o ms) : i - Len(q) \in 1..Len(ms) /\ (q \o ms)[i] = ms[i - Len(q)]
  BY <1>1
<1>4. Len(q) <= Len(q \o ms)
  BY <1>3
<1>5. \A m \in W : m.type \notin {"NotFound", "Stale", "TxData"}
  BY DEF TemplateMsgs
<1>6. \A i \in (Len(q) + 1)..Len(q \o ms) : (q \o ms)[i] \in W => clients[c] = "ready"
  BY <1>3, <1>5, Zenon
<1> QED
  BY <1>1, <1>2, <1>3, <1>4, <1>6, Viewed, ViewUnchanged, Zenon DEF Service!Serve, View

LEMMA ReplyServes ==
  ASSUME Inv, NEW c \in Clients, clients[c] # "gone", UNCHANGED <<clients, m_disconnect_flag>>,
         NEW type \in {"NotFound", "Stale", "TxData"}, NEW id \in Nat, NEW t \in Template \cup {NoTemplate},
         Reply(c, Msg(type, id, t))
  PROVE  Service!Serve(c)
<1> DEFINE m == Msg(type, id, t)
<1>1. m \in Message
  BY MsgType, Zenon
<1>2. <<m>> \in Seq(Message) /\ \A i \in 1..Len(<<m>>) : <<m>>[i].type \in {"NotFound", "Stale", "TxData"}
  BY <1>1 DEF Msg
<1>3. Append(m_send_messages[c], m) = m_send_messages[c] \o <<m>>
  BY <1>1, AppendIsConcat, Zenon DEF Inv, TypeOK, ClientTypeOK
<1>4. m_send_messages' = [m_send_messages EXCEPT ![c] = @ \o <<m>>]
  BY <1>3, Zenon DEF Reply
<1> HIDE DEF m
<1> QED
  BY <1>2, <1>4, QueueServes, Zenon

LEMMA SendWorkServes ==
  ASSUME Inv, OwnIds, AskedInv, NEW c \in Clients, SendInitialTemplate(c) \/ SendNextTemplate(c)
  PROVE  Service!Serve(client_id[c])
<1>0. client_id[c] = c /\ clients[c] \in {"ready", "gone"}
  BY Zenon DEF OwnIds, AskedInv, SendInitialTemplate, SendNextTemplate
<1>1. /\ client_id[c] \in Clients /\ clients[client_id[c]] = "ready" /\ UNCHANGED clients
      /\ block_template[c] \in Template /\ template_id[c] \in Nat /\ m_template_id \in Nat
      /\ future_template[c] \in BOOLEAN
  BY <1>0, Zenon DEF Inv, TypeOK, CacheTypeOK, ThreadTypeOK, ThreadInv, Holding, SendInitialTemplate,
     SendNextTemplate, Connected, ThreadFrame
<1>2. PICK id \in Nat, t \in Template, future \in BOOLEAN : SendWork(client_id[c], id, t, future)
  BY <1>1, Zenon DEF SendInitialTemplate, SendNextTemplate, InitialTemplateId
<1>3. Work(id, t, future) \in Seq(Message)
  BY <1>2, WorkType, Zenon
<1>4. CASE Signet /\ ~t.commitment
  BY <1>1, <1>2, <1>4, FlagServes, Zenon DEF SendWork
<1>5. CASE ~(Signet /\ ~t.commitment)
  BY <1>1, <1>2, <1>3, <1>5, QueueServes, Zenon DEF SendWork
<1> QED
  BY <1>4, <1>5, Zenon

-----------------------------------------------------------------------------
(* Every step is a step of ClientService, or changes nothing it has. *)

\* The steps of a client thread.
LEMMA ThreadStep ==
  ASSUME Inv, OwnIds, AskedInv, NEW c \in Clients, ClientThread(c)
  PROVE  SharedUnchanged \/ Service!Next
<1>1. CASE SendInitialTemplate(c) \/ SendNextTemplate(c)
  <2>1. client_id[c] \in Clients
    BY Zenon DEF Inv, TypeOK, ThreadTypeOK
  <2> QED
    BY <1>1, <2>1, SendWorkServes, Zenon DEF Service!Next
<1>2. CASE ~(SendInitialTemplate(c) \/ SendNextTemplate(c))
  BY <1>2, ViewUnchanged, Zenon DEF ClientThread, ThreadStart, ThreadExit, LoopFirst, ReserveTemplateId,
     PrepareBlockCreateOptions, CreateNewBlock, CacheInitialTemplate, BeginWait, WaitNextNothing, WaitNextTemplate,
     CacheNextTemplate, ClientGone, ThreadIpcFailure, ThreadFrame, SharedUnchanged
<1> QED
  BY <1>1, <1>2, Zenon

\* The steps of the sockets thread between two calls, and at the start of one.
LEMMA SocketsStep ==
  ASSUME Inv, NEW c \in Clients, Sockets(c)
  PROVE  SharedUnchanged \/ Service!Next
<1>0. /\ m_template_id \in Nat /\ clients \in [Clients -> {"absent", "connected", "ready", "gone"}]
      /\ \A i \in DOMAIN m_block_template_cache : m_block_template_cache[i] \in Template
  BY Zenon DEF Inv, TypeOK, CacheTypeOK, ClientTypeOK
<1>1. CASE EventNewConnectionAccepted(c)
  <2>1. clients[c] = "absent" /\ clients' = [clients EXCEPT ![c] = "connected"]
    BY <1>1, Zenon DEF EventNewConnectionAccepted
  <2>2. UNCHANGED View
    BY <1>0, <2>1 DEF View
  <2> QED
    BY <1>1, <2>2, Zenon DEF EventNewConnectionAccepted, SharedUnchanged
<1>7. CASE CoinbaseOutputConstraints(c)
  <2>1. clients[c] = "connected" /\ clients' = [clients EXCEPT ![c] = "ready"]
    BY <1>7, Zenon DEF CoinbaseOutputConstraints
  <2>2. View[c] = "absent" /\ View' = [View EXCEPT ![c] = "ready"]
    BY <1>0, <2>1 DEF View
  <2>3. Service!Admit(c)
    BY <1>7, <2>2, Zenon DEF CoinbaseOutputConstraints, Service!Admit, View
  <2> QED
    BY <2>3, Zenon DEF Service!Next
<1>2. CASE FlagDisconnect(c)
  <2>1. Service!Serve(c)
    BY <1>2, FlagServes, Zenon DEF FlagDisconnect, Connected
  <2> QED
    BY <2>1, Zenon DEF Service!Next
<1>3. CASE DisconnectFlagged(c)
  <2>0. clients' = [clients EXCEPT ![c] = "gone"]
    BY <1>3, Zenon DEF DisconnectFlagged
  <2>1. View' = [d \in Clients |-> IF d \in {c} THEN "gone" ELSE View[d]]
    BY <1>0, <2>0 DEF View
  <2>2. Service!Remove({c})
    BY <1>3, <2>1, Zenon DEF DisconnectFlagged, Service!Remove, View
  <2>3. {c} \in SUBSET Clients
    BY Zenon
  <2> QED
    BY <2>2, <2>3, Zenon DEF Service!Next
<1>4. ASSUME NEW id \in 1..(m_template_id + 1), RequestTransactionData(c, id)
      PROVE  SharedUnchanged \/ Service!Next
  <2>0. id \in Nat
    BY <1>0
  <2>1. clients[c] # "gone" /\ UNCHANGED <<clients, m_disconnect_flag>>
    BY <1>4, Zenon DEF RequestTransactionData, MayCall, Connected, CallFrame
  <2>2. \/ UNCHANGED m_send_messages
        \/ Reply(c, Msg("NotFound", id, NoTemplate))
        \/ \E t \in Template : Reply(c, Msg("Stale", id, t))
    BY <1>0, <1>4, Zenon DEF RequestTransactionData
  <2>3. UNCHANGED m_send_messages \/ Service!Serve(c)
    BY <2>0, <2>1, <2>2, ReplyServes, Zenon
  <2> QED
    BY <2>1, <2>3, ViewUnchanged, Zenon DEF SharedUnchanged, Service!Next
<1>5. CASE RequestIpcFailure(c)
  <2>1. Service!Serve(c)
    BY <1>5, FlagServes, Zenon DEF RequestIpcFailure, MayCall, Connected, CallFrame
  <2> QED
    BY <2>1, Zenon DEF Service!Next
<1>6. ASSUME NEW id \in 1..(m_template_id + 1), SubmitSolution(c, id)
      PROVE  SharedUnchanged
  BY <1>6, ViewUnchanged, Zenon DEF SubmitSolution, CallFrame, SharedUnchanged
<1> QED
  BY <1>1, <1>2, <1>3, <1>4, <1>5, <1>6, <1>7, Zenon DEF Sockets, Call

\* The rest of a call, and the threads that save blocks.
LEMMA JobsStep ==
  ASSUME Inv, JobInv, Jobs
  PROVE  SharedUnchanged \/ Service!Next
<1>1. job # Idle => job.client \in Clients /\ job.id \in Nat /\ job.tmpl \in Template /\ clients[job.client] # "gone"
  BY DEF Inv, TypeOK, ControlTypeOK, JobInv
<1>2. CASE ReplyTransactionData
  <2>1. job # Idle
    BY <1>2 DEF ReplyTransactionData, Idle
  <2>2. Service!Serve(job.client)
    BY <1>1, <1>2, <2>1, ReplyServes, Zenon DEF ReplyTransactionData, CallFrame
  <2> QED
    BY <1>1, <2>1, <2>2, Zenon DEF Service!Next
<1>3. CASE SubmitIpcFailure
  <2>1. job # Idle
    BY <1>3 DEF SubmitIpcFailure, Idle
  <2>2. Service!Serve(job.client)
    BY <1>1, <1>3, <2>1, FlagServes, Zenon DEF SubmitIpcFailure, CallFrame
  <2> QED
    BY <1>1, <2>1, <2>2, Zenon DEF Service!Next
<1>4. CASE SubmitToNode
  BY <1>4, ViewUnchanged, Zenon DEF SubmitToNode, clientVars, SharedUnchanged
<1>5. ASSUME NEW s \in saves, SaveBlock(s) PROVE SharedUnchanged
  BY <1>5, ViewUnchanged, Zenon DEF SaveBlock, CallFrame, SharedUnchanged
<1> QED
  BY <1>2, <1>3, <1>4, <1>5, Zenon DEF Jobs

LEMMA OtherStep ==
  ASSUME UNCHANGED vars \/ Node \/ Handler \/ Main
  PROVE  SharedUnchanged
BY ViewUnchanged, Zenon DEF vars, clientVars, Node, NewTip, Reorg, FeeRise, LeaveIBD, Tick, Handler, HandlerStart, HandlerIBD,
   SpawnClientThreads, PruneBlockTemplateCache, HandlerLeave, HandlerJoin, Main, InterruptWaits, SetInterruptFlag,
   StopThreads, SharedUnchanged

-----------------------------------------------------------------------------
(* The client of a call stays until the call is over. *)

LEMMA JobInvStep == Inv /\ JobInv /\ [Next]_vars => JobInv'
<1> SUFFICES ASSUME Inv, JobInv, [Next]_vars PROVE JobInv'
  BY Zenon
<1>1. ASSUME UNCHANGED <<job, clients>> PROVE JobInv'
  BY <1>1, Zenon DEF JobInv
<1>2. ASSUME job' = Idle PROVE JobInv'
  BY <1>2, Zenon DEF JobInv
<1>3. CASE UNCHANGED vars \/ Node \/ Handler \/ Main
  BY <1>1, <1>3, Zenon DEF vars, connVars, clientVars, Node, NewTip, Reorg, FeeRise, LeaveIBD, Tick, Handler,
     HandlerStart, HandlerIBD, SpawnClientThreads, PruneBlockTemplateCache, HandlerLeave, HandlerJoin, Main,
     InterruptWaits, SetInterruptFlag, StopThreads
<1>4. CASE Jobs
  BY <1>1, <1>2, <1>4, Zenon DEF Jobs, ReplyTransactionData, SubmitToNode, SubmitIpcFailure, SaveBlock, CallFrame
<1>5. ASSUME NEW c \in Clients, ClientThread(c) PROVE JobInv'
  BY <1>1, <1>5, Zenon DEF ClientThread, ThreadStart, ThreadExit, LoopFirst, ReserveTemplateId,
     PrepareBlockCreateOptions, CreateNewBlock, CacheInitialTemplate, SendInitialTemplate, BeginWait, WaitNextNothing,
     WaitNextTemplate, CacheNextTemplate, SendNextTemplate, ClientGone, ThreadIpcFailure, ThreadFrame, connVars
<1>6. ASSUME NEW c \in Clients, Sockets(c) PROVE JobInv'
  <2>1. CASE \/ EventNewConnectionAccepted(c) \/ CoinbaseOutputConstraints(c)
             \/ FlagDisconnect(c) \/ DisconnectFlagged(c)
    BY <1>2, <2>1, Zenon DEF EventNewConnectionAccepted, CoinbaseOutputConstraints, FlagDisconnect,
       DisconnectFlagged, connVars
  <2>2. ASSUME NEW id, RequestTransactionData(c, id) \/ SubmitSolution(c, id) PROVE JobInv'
    <3>1. UNCHANGED clients /\ clients[c] # "gone"
      BY <2>2, Zenon DEF RequestTransactionData, SubmitSolution, MayCall, Connected, CallFrame
    <3>2. job' = job \/ job' = Idle \/ job'.client = c
      BY <2>2 DEF RequestTransactionData, SubmitSolution
    <3> QED
      BY <1>1, <1>2, <3>1, <3>2, Zenon DEF JobInv
  <2>3. CASE RequestIpcFailure(c)
    BY <1>1, <2>3, Zenon DEF RequestIpcFailure, CallFrame
  <2> QED
    BY <1>6, <2>1, <2>2, <2>3, Zenon DEF Sockets, Call
<1> QED
  BY <1>3, <1>4, <1>5, <1>6, Zenon DEF Next

LEMMA AskedStep == Inv /\ AskedInv /\ [Next]_vars => AskedInv'
<1> SUFFICES ASSUME Inv, AskedInv, [Next]_vars, NEW d \in Clients, pc'[d] # "none"
             PROVE  clients'[d] \in {"ready", "gone"}
  BY Zenon DEF AskedInv
<1>0. pc \in [Clients -> Labels] /\ clients \in [Clients -> {"absent", "connected", "ready", "gone"}]
  BY Zenon DEF Inv, TypeOK, ThreadTypeOK, ClientTypeOK
<1>1. CASE UNCHANGED <<pc, clients>>
  BY <1>1, Zenon DEF AskedInv
<1>2. CASE SpawnClientThreads
  BY <1>2, Zenon DEF SpawnClientThreads, clientVars, AskedInv
<1>3. ASSUME NEW c \in Clients, ClientThread(c)
      PROVE  UNCHANGED clients /\ pc[c] # "none" /\ \E l : pc' = [pc EXCEPT ![c] = l]
  BY <1>3, ZenonT(30) DEF ClientThread, ThreadStart, ThreadExit, LoopFirst, ReserveTemplateId,
     PrepareBlockCreateOptions, CreateNewBlock, CacheInitialTemplate, SendInitialTemplate, BeginWait, WaitNextNothing,
     WaitNextTemplate, CacheNextTemplate, SendNextTemplate, ClientGone, ThreadIpcFailure, Sent, Goto, ThreadFrame
<1>4. ASSUME NEW c \in Clients, Sockets(c)
      PROVE  /\ UNCHANGED pc
             /\ \/ UNCHANGED clients
                \/ clients[c] = "absent" /\ clients' = [clients EXCEPT ![c] = "connected"]
                \/ clients' = [clients EXCEPT ![c] = "ready"] \/ clients' = [clients EXCEPT ![c] = "gone"]
  BY <1>4, ZenonT(30) DEF Sockets, Call, EventNewConnectionAccepted, CoinbaseOutputConstraints, FlagDisconnect,
     DisconnectFlagged, RequestTransactionData, SubmitSolution, RequestIpcFailure, CallFrame
<1>5. CASE UNCHANGED vars \/ Node \/ Jobs \/ Main \/ (Handler /\ ~SpawnClientThreads)
  BY <1>1, <1>5, ZenonT(30) DEF vars, clientVars, Node, NewTip, Reorg, FeeRise, LeaveIBD, Tick, Jobs,
     ReplyTransactionData, SubmitToNode, SubmitIpcFailure, SaveBlock, CallFrame, Handler, HandlerStart, HandlerIBD,
     PruneBlockTemplateCache, HandlerLeave, HandlerJoin, Main, InterruptWaits, SetInterruptFlag, StopThreads
<1>6. CASE \E c \in Clients : ClientThread(c)
  BY <1>0, <1>3, <1>6, Zenon DEF AskedInv
<1>7. CASE \E c \in Clients : Sockets(c)
  BY <1>0, <1>4, <1>7, Zenon DEF AskedInv
<1> QED
  BY <1>2, <1>5, <1>6, <1>7, Zenon DEF Next

\* For every set of clients, and any faults but reused memory, what the template provider
\* does to the entries, flags and queues of the clients is what ClientService allows: a
\* client that was removed is never queued anything, whichever thread or call held on to
\* it, and only one that sent CoinbaseOutputConstraints is sent templates.  With reused
\* memory a thread may have read the id of a client that has asked for nothing yet.
THEOREM ServesCorrect ==
  ASSUME "reuse" \notin Faults
  PROVE  Spec => ServesClients
<1>1. Init => Service!Init /\ JobInv /\ AskedInv
  <2> SUFFICES ASSUME Init PROVE Service!Init /\ JobInv /\ AskedInv
    BY Zenon
  <2>1. clients = [c \in Clients |-> "absent"]
    BY Zenon DEF Init
  <2>2. View = [c \in Clients |-> "absent"]
    BY <2>1 DEF View
  <2>3. AskedInv
    BY Zenon DEF Init, AskedInv
  <2> QED
    BY <2>2, <2>3, Zenon DEF Init, Service!Init, JobInv, View
<1>2. Inv /\ OwnIds /\ AskedInv /\ JobInv /\ [Next]_vars => [Service!Next]_(Service!vars)
  <2> SUFFICES ASSUME Inv, OwnIds, AskedInv, JobInv, [Next]_vars PROVE Service!Next \/ UNCHANGED Service!vars
    BY Zenon
  <2>1. SharedUnchanged \/ Service!Next
    BY ThreadStep, SocketsStep, JobsStep, OtherStep, Zenon DEF Next
  <2> QED
    BY <2>1, Zenon DEF SharedUnchanged, Service!vars, View
<1> QED
  BY <1>1, <1>2, TypeInit, TypeStep, OwnInit, OwnStep, AskedStep, JobInvStep, PTL DEF Spec, ServesClients, Service!Spec

-----------------------------------------------------------------------------
(* The first template. *)

\* What a client thread works with, what was sent, and when.
workVars == <<m_send_messages, sentAt, m_template_id, m_block_template_cache, pc, template_id,
              block_template, check_fees, m_last_triggered>>

\* The steps that are not a thread's leave all of this alone but for a few.
LEMMA OtherSteps ==
  ASSUME [Next]_vars
  PROVE  \/ UNCHANGED <<workVars, client_id>> /\ (UNCHANGED now \/ now' = now + 1)
         \/ (\E d \in Clients : EventNewConnectionAccepted(d)) /\ UNCHANGED <<workVars, now>>
         \/ PruneBlockTemplateCache \/ SpawnClientThreads \/ ReplyTransactionData
         \/ \E d \in Clients : \/ ClientThread(d)
                               \/ \E id \in 1..(m_template_id + 1) : RequestTransactionData(d, id)
<1> USE DEF nodeVars, cacheVars, threadVars, clientVars, CallFrame, workVars
<1>1. CASE UNCHANGED vars
  BY <1>1, Zenon DEF vars
<1>2. CASE Node
  BY <1>2, Zenon DEF Node, NewTip, Reorg, FeeRise, LeaveIBD, Tick
<1>3. CASE Handler
  BY <1>3, Zenon DEF Handler, HandlerStart, HandlerIBD, HandlerLeave, HandlerJoin
<1>4. CASE Jobs
  BY <1>4, Zenon DEF Jobs, SubmitToNode, SubmitIpcFailure, SaveBlock
<1>5. CASE Main
  BY <1>5, Zenon DEF Main, InterruptWaits, SetInterruptFlag, StopThreads
<1>6. ASSUME NEW d \in Clients, Sockets(d), \A id \in 1..(m_template_id + 1) : ~RequestTransactionData(d, id)
      PROVE  \/ UNCHANGED <<workVars, client_id, now>>
             \/ EventNewConnectionAccepted(d) /\ UNCHANGED <<workVars, now>>
  BY <1>6, Zenon DEF Sockets, Call, EventNewConnectionAccepted, CoinbaseOutputConstraints, FlagDisconnect,
     DisconnectFlagged, SubmitSolution, RequestIpcFailure
<1> QED
  BY <1>1, <1>2, <1>3, <1>4, <1>5, <1>6, Zenon DEF Next

\* An id is reserved for the thread's first template, which is not cached yet.
Pending == {"options", "create", "cache"}

\* No template but t is cached under id n, now or later: the id was given out, and no
\* thread is about to use it.
Settled(n, t) ==
  /\ n <= m_template_id
  /\ n \in DOMAIN m_block_template_cache => m_block_template_cache[n] = t
  /\ \A d \in Clients : pc[d] \in Pending => template_id[d] # n

\* Reserved ids are not in use, and reserved once.
PendingInv ==
  /\ \A d \in Clients : pc[d] \in Pending => template_id[d] \notin DOMAIN m_block_template_cache
  /\ \A d, e \in Clients :
       d # e /\ pc[d] \in Pending /\ pc[e] \in Pending => template_id[d] # template_id[e]

\* A thread past its first template.
Begun(c) == ~Before(c) /\ pc[c] # "done"

FirstIn(q) == {i \in TemplatesIn(q) : \A j \in TemplatesIn(q) : i <= j}

\* The id of a template that is about to be sent first, or was, is settled; whoever sends
\* a template that is not a thread's first sends it to a client that has one.
FirstInv ==
  /\ \A d \in Clients : pc[d] = "send" => Settled(template_id[d], block_template[d])
  /\ \A d \in Clients : Begun(d) => TemplatesIn(m_send_messages[client_id[d]]) # {}
  /\ \A c \in Clients : \A i \in FirstIn(m_send_messages[c]) :
       Settled(m_send_messages[c][i].id, m_send_messages[c][i].tmpl)

\* A thread that has not started has no template.
FreshInv == \A c \in Clients : pc[c] \in {"none", "spawned"} => block_template[c] = NoTemplate

LEMMA FirstInit == Init => PendingInv /\ FreshInv /\ FirstInv
<1>1. TemplatesIn(<<>>) = {}
  BY DEF TemplatesIn
<1> SUFFICES ASSUME Init PROVE PendingInv /\ FreshInv /\ FirstInv
  OBVIOUS
<1>2. \A c \in Clients : pc[c] = "none" /\ m_send_messages[c] = <<>> /\ block_template[c] = NoTemplate
  BY Zenon DEF Init
<1> QED
  BY <1>1, <1>2, Zenon DEF PendingInv, FreshInv, FirstInv, Pending, Begun, Before, FirstIn

\* What a step may do to reserved ids: a thread takes the next one, caches its template
\* under its own, or caches an update under the next one.
TouchesIds(d) ==
  \/ /\ UNCHANGED <<template_id, m_template_id, m_block_template_cache>>
     /\ \A c \in Clients : pc'[c] \in Pending => pc[c] \in Pending
  \/ /\ pc[d] = "reserve" /\ m_template_id' = m_template_id + 1
     /\ template_id' = [template_id EXCEPT ![d] = m_template_id + 1]
     /\ UNCHANGED m_block_template_cache /\ pc' = [pc EXCEPT ![d] = "options"]
  \/ /\ pc[d] = "cache" /\ Insert(template_id[d], block_template[d])
     /\ UNCHANGED <<template_id, m_template_id>> /\ pc' = [pc EXCEPT ![d] = "send"]
  \/ /\ m_template_id' = m_template_id + 1 /\ Insert(m_template_id + 1, block_template[d])
     /\ UNCHANGED template_id /\ pc' = [pc EXCEPT ![d] = "sendNext"]

\* The cache loses entries, or nothing happens to it and to the ids.
KeepsIds ==
  /\ UNCHANGED <<template_id, m_template_id>>
  /\ \A c \in Clients : pc'[c] \in Pending => pc[c] \in Pending
  /\ DOMAIN m_block_template_cache' \subseteq DOMAIN m_block_template_cache
  /\ \A i \in DOMAIN m_block_template_cache' : m_block_template_cache'[i] = m_block_template_cache[i]

LEMMA ThreadIds ==
  ASSUME Inv, NEW d \in Clients, ClientThread(d)
  PROVE  TouchesIds(d)
<1>0. pc \in [Clients -> Labels]
  BY Zenon DEF Inv, TypeOK, ThreadTypeOK
<1> USE <1>0 DEF Goto, threadVars, cacheVars, Pending
<1>1. CASE ThreadStart(d) \/ ThreadExit(d) \/ LoopFirst(d) \/ ClientGone(d) \/ ThreadIpcFailure(d)
  <2>1. UNCHANGED <<template_id, m_template_id, m_block_template_cache>>
    BY <1>1, Zenon DEF ThreadStart, ThreadExit, LoopFirst, ClientGone, ThreadIpcFailure
  <2>2. \E l \in {"top", "reserve", "done"} : pc' = [pc EXCEPT ![d] = l]
    BY <1>1, Zenon DEF ThreadStart, ThreadExit, LoopFirst, ClientGone, ThreadIpcFailure
  <2> QED
    BY <2>1, <2>2, Zenon DEF TouchesIds
<1>2. CASE PrepareBlockCreateOptions(d) \/ CreateNewBlock(d)
  <2>1. UNCHANGED <<template_id, m_template_id, m_block_template_cache>>
    BY <1>2, Zenon DEF PrepareBlockCreateOptions, CreateNewBlock
  <2>2. pc[d] \in Pending /\ \E l : pc' = [pc EXCEPT ![d] = l]
    BY <1>2, Zenon DEF PrepareBlockCreateOptions, CreateNewBlock
  <2> QED
    BY <2>1, <2>2, Zenon DEF TouchesIds
<1>3. CASE ReserveTemplateId(d) \/ CacheInitialTemplate(d) \/ CacheNextTemplate(d)
  BY <1>3, Zenon DEF ReserveTemplateId, CacheInitialTemplate, CacheNextTemplate, NextTemplateId, TouchesIds
<1>4. CASE BeginWait(d) \/ WaitNextNothing(d) \/ WaitNextTemplate(d) \/ SendInitialTemplate(d) \/ SendNextTemplate(d)
  <2>1. UNCHANGED <<template_id, m_template_id, m_block_template_cache>>
    BY <1>4, Zenon DEF BeginWait, WaitNextNothing, WaitNextTemplate, SendInitialTemplate, SendNextTemplate
  <2>2. \E l \in {"wait", "top", "trigger", "cacheNext", "done"} : pc' = [pc EXCEPT ![d] = l]
    BY <1>4, Zenon DEF BeginWait, WaitNextNothing, WaitNextTemplate, SendInitialTemplate, SendNextTemplate, Sent
  <2> QED
    BY <2>1, <2>2, Zenon DEF TouchesIds
<1> QED
  BY <1>1, <1>2, <1>3, <1>4, Zenon DEF ClientThread

LEMMA OtherIds ==
  ASSUME Inv, [Next]_vars
  PROVE  KeepsIds \/ \E d \in Clients : ClientThread(d) /\ TouchesIds(d)
<1>1. CASE UNCHANGED workVars
  BY <1>1, Zenon DEF workVars, KeepsIds
<1>2. CASE PruneBlockTemplateCache
  <2> DEFINE kept == IF m_last_block_time > now - Grace
                     THEN DOMAIN m_block_template_cache
                     ELSE {i \in DOMAIN m_block_template_cache :
                             m_block_template_cache[i].prev = m_best_prev_hash}
  <2>1. kept \subseteq DOMAIN m_block_template_cache
    BY Zenon
  <2>2. /\ m_block_template_cache' = [i \in kept |-> m_block_template_cache[i]]
        /\ UNCHANGED <<template_id, m_template_id, pc>>
    BY <1>2, Zenon DEF PruneBlockTemplateCache, threadVars
  <2> HIDE DEF kept
  <2> QED
    BY <2>1, <2>2, Zenon DEF KeepsIds
<1>3. CASE SpawnClientThreads
  BY <1>3, Zenon DEF SpawnClientThreads, KeepsIds, cacheVars, threadVars, Pending
<1>4. CASE ReplyTransactionData
  BY <1>4, Zenon DEF ReplyTransactionData, CallFrame, KeepsIds, cacheVars, threadVars
<1>5. ASSUME NEW d \in Clients, NEW id \in 1..(m_template_id + 1), RequestTransactionData(d, id)
      PROVE  KeepsIds
  BY <1>5, Zenon DEF RequestTransactionData, CallFrame, KeepsIds, cacheVars, threadVars
<1> QED
  BY <1>1, <1>2, <1>3, <1>4, <1>5, OtherSteps, ThreadIds, Zenon

\* What Insert does, for every id.
LEMMA InsertCache ==
  ASSUME NEW id, NEW t, Insert(id, t)
  PROVE  /\ DOMAIN m_block_template_cache' = DOMAIN m_block_template_cache \cup {id}
         /\ \A i \in DOMAIN m_block_template_cache : m_block_template_cache'[i] = m_block_template_cache[i]
         /\ id \notin DOMAIN m_block_template_cache => m_block_template_cache'[id] = t
BY Zenon DEF Insert

LEMMA PendingStep == Inv /\ PendingInv /\ [Next]_vars => PendingInv'
<1> SUFFICES ASSUME Inv, PendingInv, [Next]_vars PROVE PendingInv'
  OBVIOUS
<1>0. /\ pc \in [Clients -> Labels] /\ template_id \in [Clients -> Nat]
      /\ m_template_id \in Nat /\ DOMAIN m_block_template_cache \subseteq 1..m_template_id
      /\ \A d \in Clients : pc[d] \in Pending => template_id[d] \in 1..m_template_id
  BY Zenon DEF Inv, TypeOK, CacheTypeOK, ThreadTypeOK, ThreadInv, Reserved, Pending
<1>1. CASE KeepsIds
  BY <1>1, Zenon DEF KeepsIds, PendingInv
<1>2. ASSUME NEW d \in Clients, TouchesIds(d) PROVE PendingInv'
  <2>0. /\ m_template_id + 1 \notin DOMAIN m_block_template_cache
        /\ \A c \in Clients : pc[c] \in Pending => template_id[c] # m_template_id + 1
    <3>1. m_template_id + 1 \notin 1..m_template_id
      BY <1>0
    <3> QED
      BY <1>0, <3>1, Zenon
  <2>1. CASE /\ UNCHANGED <<template_id, m_template_id, m_block_template_cache>>
             /\ \A c \in Clients : pc'[c] \in Pending => pc[c] \in Pending
    BY <2>1, Zenon DEF PendingInv
  <2>2. CASE /\ template_id' = [template_id EXCEPT ![d] = m_template_id + 1]
             /\ UNCHANGED m_block_template_cache /\ pc' = [pc EXCEPT ![d] = "options"]
    <3>1. template_id'[d] = m_template_id + 1 /\ \A c \in Clients \ {d} : template_id'[c] = template_id[c] /\ pc'[c] = pc[c]
      BY <1>0, <2>2, Zenon
    <3>2. m_block_template_cache' = m_block_template_cache
      BY <2>2, Zenon
    <3>3. ASSUME NEW c \in Clients, pc'[c] \in Pending
          PROVE  template_id'[c] \notin DOMAIN m_block_template_cache'
      BY <2>0, <3>1, <3>2, <3>3, Zenon DEF PendingInv
    <3>4. ASSUME NEW c \in Clients, NEW e \in Clients, c # e, pc'[c] \in Pending, pc'[e] \in Pending
          PROVE  template_id'[c] # template_id'[e]
      BY <2>0, <3>1, <3>4, Zenon DEF PendingInv
    <3> QED
      BY <3>3, <3>4, Zenon DEF PendingInv
  <2>3. CASE /\ pc[d] = "cache" /\ Insert(template_id[d], block_template[d])
             /\ UNCHANGED <<template_id, m_template_id>> /\ pc' = [pc EXCEPT ![d] = "send"]
    <3>1. \A c \in Clients : pc'[c] \in Pending => c # d /\ pc[c] \in Pending
      BY <1>0, <2>3, Zenon DEF Pending
    <3>2. DOMAIN m_block_template_cache' = DOMAIN m_block_template_cache \cup {template_id[d]}
      BY <2>3, InsertCache, Zenon
    <3>3. pc[d] \in Pending
      BY <2>3, Zenon DEF Pending
    <3> QED
      BY <2>3, <3>1, <3>2, <3>3, Zenon DEF PendingInv
  <2>4. CASE /\ m_template_id' = m_template_id + 1 /\ Insert(m_template_id + 1, block_template[d])
             /\ UNCHANGED template_id /\ pc' = [pc EXCEPT ![d] = "sendNext"]
    <3>1. \A c \in Clients : pc'[c] \in Pending => pc[c] \in Pending
      BY <1>0, <2>4, Zenon DEF Pending
    <3>2. DOMAIN m_block_template_cache' = DOMAIN m_block_template_cache \cup {m_template_id + 1}
      BY <2>4, InsertCache, Zenon
    <3> QED
      BY <2>0, <2>4, <3>1, <3>2, Zenon DEF PendingInv
  <2> QED
    BY <1>2, <2>1, <2>2, <2>3, <2>4, Zenon DEF TouchesIds
<1> QED
  BY <1>1, <1>2, OtherIds, Zenon

\* An id that is settled stays so, whatever is pruned, cached or reserved.
LEMMA SettledStays ==
  ASSUME Inv, PendingInv, [Next]_vars, NEW n \in Nat, NEW t, Settled(n, t)
  PROVE  Settled(n, t)'
<1>0. /\ pc \in [Clients -> Labels] /\ template_id \in [Clients -> Nat] /\ m_template_id \in Nat
  BY Zenon DEF Inv, TypeOK, CacheTypeOK, ThreadTypeOK
<1>1. CASE KeepsIds
  BY <1>1, Zenon DEF KeepsIds, Settled
<1>2. ASSUME NEW d \in Clients, TouchesIds(d) PROVE Settled(n, t)'
  <2>0. n <= m_template_id /\ n <= m_template_id + 1 /\ n # m_template_id + 1
    BY <1>0 DEF Settled
  <2>1. CASE /\ UNCHANGED <<template_id, m_template_id, m_block_template_cache>>
             /\ \A c \in Clients : pc'[c] \in Pending => pc[c] \in Pending
    BY <2>1, Zenon DEF Settled
  <2>2. CASE /\ template_id' = [template_id EXCEPT ![d] = m_template_id + 1] /\ m_template_id' = m_template_id + 1
             /\ UNCHANGED m_block_template_cache /\ pc' = [pc EXCEPT ![d] = "options"]
    <3>1. template_id'[d] = m_template_id + 1 /\ \A c \in Clients \ {d} : template_id'[c] = template_id[c] /\ pc'[c] = pc[c]
      BY <1>0, <2>2, Zenon
    <3> QED
      BY <2>0, <2>2, <3>1, Zenon DEF Settled
  <2>3. CASE /\ pc[d] = "cache" /\ Insert(template_id[d], block_template[d])
             /\ UNCHANGED <<template_id, m_template_id>> /\ pc' = [pc EXCEPT ![d] = "send"]
    <3>1. \A c \in Clients : pc'[c] \in Pending => c # d /\ pc[c] \in Pending
      BY <1>0, <2>3, Zenon DEF Pending
    <3>2. template_id[d] # n
      BY <2>3, Zenon DEF Settled, Pending
    <3>3. /\ DOMAIN m_block_template_cache' = DOMAIN m_block_template_cache \cup {template_id[d]}
          /\ \A i \in DOMAIN m_block_template_cache : m_block_template_cache'[i] = m_block_template_cache[i]
      BY <2>3, InsertCache, Zenon
    <3> QED
      BY <2>3, <3>1, <3>2, <3>3, Zenon DEF Settled
  <2>4. CASE /\ m_template_id' = m_template_id + 1 /\ Insert(m_template_id + 1, block_template[d])
             /\ UNCHANGED template_id /\ pc' = [pc EXCEPT ![d] = "sendNext"]
    <3>1. \A c \in Clients : pc'[c] \in Pending => pc[c] \in Pending
      BY <1>0, <2>4, Zenon DEF Pending
    <3>2. /\ DOMAIN m_block_template_cache' = DOMAIN m_block_template_cache \cup {m_template_id + 1}
          /\ \A i \in DOMAIN m_block_template_cache : m_block_template_cache'[i] = m_block_template_cache[i]
      BY <2>4, InsertCache, Zenon
    <3> QED
      BY <2>0, <2>4, <3>1, <3>2, Zenon DEF Settled
  <2> QED
    BY <1>2, <2>1, <2>2, <2>3, <2>4, Zenon DEF TouchesIds
<1> QED
  BY <1>1, <1>2, OtherIds, Zenon

\* How a step changes the queue of client c: not at all as far as templates go, by a
\* thread's first template, or by a later one.
Sends(c) ==
  \/ /\ TemplatesIn(m_send_messages'[c]) = TemplatesIn(m_send_messages[c])
     /\ \A i \in TemplatesIn(m_send_messages[c]) : m_send_messages'[c][i] = m_send_messages[c][i]
  \/ \E d \in Clients : /\ ClientThread(d) /\ client_id[d] = c /\ pc[d] = "send"
                        /\ AddsTemplate(m_send_messages[c], m_send_messages'[c], template_id[d], block_template[d])
  \/ \E d \in Clients : /\ ClientThread(d) /\ client_id[d] = c /\ pc[d] = "sendNext"
                        /\ AddsTemplate(m_send_messages[c], m_send_messages'[c], m_template_id, block_template[d])

LEMMA ThreadSends ==
  ASSUME Inv, NEW d \in Clients, ClientThread(d), NEW c \in Clients
  PROVE  \/ m_send_messages'[c] = m_send_messages[c]
         \/ /\ client_id[d] = c /\ pc[d] = "send"
            /\ AddsTemplate(m_send_messages[c], m_send_messages'[c], template_id[d], block_template[d])
         \/ /\ client_id[d] = c /\ pc[d] = "sendNext"
            /\ AddsTemplate(m_send_messages[c], m_send_messages'[c], m_template_id, block_template[d])
<1>0. /\ m_send_messages \in [Clients -> Seq(Message)] /\ client_id \in [Clients -> Clients]
      /\ m_template_id \in Nat /\ template_id \in [Clients -> Nat] /\ future_template \in [Clients -> BOOLEAN]
      /\ pc[d] \in Holding => block_template[d] \in Template
  BY Zenon DEF Inv, TypeOK, CacheTypeOK, ThreadTypeOK, ClientTypeOK, ThreadInv
<1>1. CASE SendInitialTemplate(d)
  <2>1. pc[d] = "send" /\ block_template[d] \in Template /\ template_id[d] \in Nat
    BY <1>0, <1>1, Zenon DEF SendInitialTemplate, Holding
  <2>2. \/ m_send_messages' = m_send_messages
        \/ m_send_messages' = [m_send_messages EXCEPT ![client_id[d]] = @ \o Work(template_id[d], block_template[d], TRUE)]
    BY <1>1, Zenon DEF SendInitialTemplate, SendWork, InitialTemplateId
  <2>3. AddsTemplate(m_send_messages[c], m_send_messages[c] \o Work(template_id[d], block_template[d], TRUE),
                     template_id[d], block_template[d])
    BY <1>0, <2>1, WorkTemplates, Zenon
  <2> QED
    BY <1>0, <2>1, <2>2, <2>3, Zenon
<1>2. CASE SendNextTemplate(d)
  <2>1. pc[d] = "sendNext" /\ block_template[d] \in Template /\ future_template[d] \in BOOLEAN
    BY <1>0, <1>2, Zenon DEF SendNextTemplate, Holding
  <2>2. \/ m_send_messages' = m_send_messages
        \/ m_send_messages' = [m_send_messages EXCEPT ![client_id[d]] = @ \o Work(m_template_id, block_template[d], future_template[d])]
    BY <1>2, Zenon DEF SendNextTemplate, SendWork
  <2>3. AddsTemplate(m_send_messages[c], m_send_messages[c] \o Work(m_template_id, block_template[d], future_template[d]),
                     m_template_id, block_template[d])
    BY <1>0, <2>1, WorkTemplates, Zenon
  <2> QED
    BY <1>0, <2>1, <2>2, <2>3, Zenon
<1>3. CASE ~SendInitialTemplate(d) /\ ~SendNextTemplate(d)
  BY <1>3, Zenon DEF ClientThread, ThreadStart, ThreadExit, LoopFirst, ReserveTemplateId, PrepareBlockCreateOptions,
     CreateNewBlock, CacheInitialTemplate, BeginWait, WaitNextNothing, WaitNextTemplate, CacheNextTemplate, ClientGone,
     ThreadIpcFailure
<1> QED
  BY <1>1, <1>2, <1>3, Zenon

LEMMA QueueSteps ==
  ASSUME Inv, [Next]_vars, NEW c \in Clients
  PROVE  Sends(c)
<1>0. m_send_messages \in [Clients -> Seq(Message)]
  BY Zenon DEF Inv, TypeOK, ClientTypeOK
<1>1. ASSUME m_send_messages'[c] = m_send_messages[c] PROVE Sends(c)
  BY <1>1, Zenon DEF Sends
<1>2. ASSUME NEW type, type \notin TemplateMsgs, NEW id, NEW t,
             m_send_messages'[c] = Append(m_send_messages[c], Msg(type, id, t))
      PROVE  Sends(c)
  <2> DEFINE m == Msg(type, id, t)
             q == m_send_messages[c]
             r == Append(q, m)
  <2>1. m.type \notin TemplateMsgs /\ q \in Seq(Message)
    BY <1>0, <1>2, Zenon DEF Msg
  <2> HIDE DEF m, q
  <2>3. TemplatesIn(r) = TemplatesIn(q) /\ \A i \in TemplatesIn(q) : r[i] = q[i]
    BY <2>1, ReplyTemplates
  <2>2. /\ TemplatesIn(m_send_messages'[c]) = TemplatesIn(m_send_messages[c])
        /\ \A i \in TemplatesIn(m_send_messages[c]) : m_send_messages'[c][i] = m_send_messages[c][i]
    BY <1>2, <2>3, Zenon DEF q, m
  <2> QED
    BY <2>2, Zenon DEF Sends
<1>3. "TxData" \notin TemplateMsgs /\ "NotFound" \notin TemplateMsgs /\ "Stale" \notin TemplateMsgs
  BY Zenon DEF TemplateMsgs
<1>4. CASE ReplyTransactionData
  <2>1. \/ m_send_messages'[c] = m_send_messages[c]
        \/ m_send_messages'[c] = Append(m_send_messages[c], Msg("TxData", job.id, job.tmpl))
    BY <1>0, <1>4, Zenon DEF ReplyTransactionData, Reply
  <2> QED
    BY <1>1, <1>2, <1>3, <2>1, Zenon
<1>5. ASSUME NEW d \in Clients, NEW id \in 1..(m_template_id + 1), RequestTransactionData(d, id)
      PROVE  Sends(c)
  <2>2. \/ UNCHANGED m_send_messages
        \/ Reply(d, Msg("NotFound", id, NoTemplate))
        \/ Reply(d, Msg("Stale", id, m_block_template_cache[id]))
    BY <1>5, Zenon DEF RequestTransactionData
  <2>3. \/ m_send_messages'[c] = m_send_messages[c]
        \/ m_send_messages'[c] = Append(m_send_messages[c], Msg("NotFound", id, NoTemplate))
        \/ m_send_messages'[c] = Append(m_send_messages[c], Msg("Stale", id, m_block_template_cache[id]))
    BY <1>0, <2>2, ZenonT(30) DEF Reply
  <2> QED
    BY <1>1, <1>2, <1>3, <2>3, Zenon
<1>6. ASSUME NEW d \in Clients, ClientThread(d) PROVE Sends(c)
  BY <1>1, <1>6, ThreadSends, ZenonT(30) DEF Sends
<1>7. CASE PruneBlockTemplateCache \/ SpawnClientThreads \/ UNCHANGED workVars
  BY <1>1, <1>7, Zenon DEF PruneBlockTemplateCache, SpawnClientThreads, clientVars, workVars
<1> QED
  BY <1>4, <1>5, <1>6, <1>7, OtherSteps, Zenon

\* A thread moves itself only, to a place it was not started at.
LEMMA ThreadMoves ==
  ASSUME Inv, NEW d \in Clients, ClientThread(d)
  PROVE  /\ UNCHANGED client_id /\ pc'[d] \notin {"none", "spawned"}
         /\ \A c \in Clients \ {d} : /\ pc'[c] = pc[c] /\ block_template'[c] = block_template[c]
                                     /\ template_id'[c] = template_id[c]
         /\ pc'[d] = "send" => CacheInitialTemplate(d)
<1>0. /\ pc \in [Clients -> Labels] /\ block_template \in [Clients -> Template \cup {NoTemplate}]
      /\ template_id \in [Clients -> Nat]
  BY Zenon DEF Inv, TypeOK, ThreadTypeOK
<1> USE DEF ClientThread, ThreadStart, ThreadExit, LoopFirst, ReserveTemplateId, PrepareBlockCreateOptions,
    CreateNewBlock, CacheInitialTemplate, SendInitialTemplate, BeginWait, WaitNextNothing, WaitNextTemplate,
    CacheNextTemplate, SendNextTemplate, ClientGone, ThreadIpcFailure, threadVars, Goto, Sent
<1>1. UNCHANGED client_id
  BY ZenonT(30)
<1>2. \E l \in Labels \ {"none", "spawned"} : pc' = [pc EXCEPT ![d] = l]
  BY ZenonT(30) DEF Labels
<1>3. UNCHANGED block_template \/ \E t : block_template' = [block_template EXCEPT ![d] = t]
  BY ZenonT(30)
<1>4. UNCHANGED template_id \/ \E n : template_id' = [template_id EXCEPT ![d] = n]
  BY Zenon
<1>5. CacheInitialTemplate(d) \/ \E l \in Labels \ {"send"} : pc' = [pc EXCEPT ![d] = l]
  BY Zenon DEF Labels
<1> HIDE DEF CacheInitialTemplate
<1> QED
  BY ONLY <1>0, <1>1, <1>2, <1>3, <1>4, <1>5, d \in Clients, ZenonT(30)

LEMMA FreshStep == Inv /\ FreshInv /\ [Next]_vars => FreshInv'
<1> SUFFICES ASSUME Inv, FreshInv, [Next]_vars PROVE FreshInv'
  OBVIOUS
<1>1. CASE UNCHANGED <<pc, block_template>>
  BY <1>1, Zenon DEF FreshInv
<1>2. CASE SpawnClientThreads
  BY <1>2, Zenon DEF SpawnClientThreads, threadVars, FreshInv
<1>3. ASSUME NEW d \in Clients, ClientThread(d) PROVE FreshInv'
  BY <1>3, ThreadMoves, Zenon DEF FreshInv
<1>4. CASE PruneBlockTemplateCache \/ ReplyTransactionData
  BY <1>1, <1>4, Zenon DEF PruneBlockTemplateCache, ReplyTransactionData, CallFrame, threadVars
<1>5. ASSUME NEW d \in Clients, NEW id \in 1..(m_template_id + 1), RequestTransactionData(d, id)
      PROVE  UNCHANGED <<pc, block_template>>
  BY <1>5, Zenon DEF RequestTransactionData, CallFrame, threadVars
<1> QED
  BY <1>1, <1>2, <1>3, <1>4, <1>5, OtherSteps, Zenon DEF workVars

\* A thread past its first template was past it before, or has just sent it.
LEMMA BegunSteps ==
  ASSUME Inv, FreshInv, [Next]_vars, NEW c \in Clients, Begun(c)'
  PROVE  \/ Begun(c) /\ client_id'[c] = client_id[c]
         \/ ClientThread(c) /\ SendInitialTemplate(c)
<1>0. /\ pc \in [Clients -> Labels] /\ client_id \in [Clients -> Clients]
      /\ block_template \in [Clients -> Template \cup {NoTemplate}]
      /\ pc[c] \in Holding => block_template[c] \in Template
  BY Zenon DEF Inv, TypeOK, ThreadTypeOK, ThreadInv
<1>1. CASE UNCHANGED <<pc, block_template, client_id>>
  BY <1>1, Zenon DEF Begun, Before
<1>2. CASE (\E d \in Clients : EventNewConnectionAccepted(d)) /\ UNCHANGED <<workVars, now>>
  <2>1. Begun(c)
    BY <1>2, Zenon DEF Begun, Before, workVars
  <2>2. pc[c] # "spawned"
    BY <2>1, Zenon DEF Begun, Before
  <2> QED
    BY <2>1, <2>2, IdsRead, Zenon
<1>3. CASE SpawnClientThreads
  <2>1. UNCHANGED <<block_template, client_id>> /\ pc'[c] \in {pc[c], "spawned"}
    BY <1>3, Zenon DEF SpawnClientThreads, threadVars
  <2> QED
    BY <2>1, Zenon DEF Begun, Before
<1>4. ASSUME NEW d \in Clients, ClientThread(d), d # c
      PROVE  UNCHANGED client_id /\ pc'[c] = pc[c] /\ block_template'[c] = block_template[c]
  BY <1>4, ThreadMoves, Zenon
<1>5. CASE ClientThread(c)
  <2> USE DEF Begun, Before
  <2>1. CASE ThreadStart(c) \/ ThreadExit(c) \/ LoopFirst(c) \/ ClientGone(c) \/ ThreadIpcFailure(c)
    <3>1. \/ pc'[c] \in {"done", "reserve"}
          \/ pc[c] = "spawned" /\ pc'[c] = "top" /\ UNCHANGED block_template
      BY <1>0, <2>1, Zenon DEF ThreadStart, ThreadExit, LoopFirst, ClientGone, ThreadIpcFailure, Goto
    <3> QED
      BY <3>1, Zenon DEF FreshInv
  <2>2. CASE ReserveTemplateId(c) \/ PrepareBlockCreateOptions(c) \/ CreateNewBlock(c) \/ CacheInitialTemplate(c)
    <3>1. pc'[c] \in {"options", "create", "cache", "send", "done"}
      BY <1>0, <2>2, Zenon DEF ReserveTemplateId, PrepareBlockCreateOptions, CreateNewBlock, CacheInitialTemplate, Goto
    <3> QED
      BY <3>1, Zenon
  <2>3. CASE BeginWait(c) \/ WaitNextNothing(c) \/ WaitNextTemplate(c) \/ CacheNextTemplate(c) \/ SendNextTemplate(c)
    <3>1. UNCHANGED client_id
      BY <2>3, Zenon DEF BeginWait, WaitNextNothing, WaitNextTemplate, CacheNextTemplate, SendNextTemplate, threadVars
    <3>2. \/ pc[c] \in {"trigger", "wait", "cacheNext", "sendNext"}
          \/ pc[c] = "top" /\ block_template[c] # NoTemplate
      BY <2>3, Zenon DEF BeginWait, WaitNextNothing, WaitNextTemplate, CacheNextTemplate, SendNextTemplate
    <3> QED
      BY <3>1, <3>2, Zenon
  <2> QED
    BY <1>5, <2>1, <2>2, <2>3, Zenon DEF ClientThread
<1>6. CASE \E d \in Clients : ClientThread(d)
  BY <1>4, <1>5, <1>6, Zenon DEF Begun, Before
<1>7. CASE PruneBlockTemplateCache \/ ReplyTransactionData
  BY <1>1, <1>7, Zenon DEF PruneBlockTemplateCache, ReplyTransactionData, CallFrame, threadVars
<1>8. ASSUME NEW d \in Clients, NEW id \in 1..(m_template_id + 1), RequestTransactionData(d, id)
      PROVE  UNCHANGED <<pc, block_template, client_id>>
  BY <1>8, Zenon DEF RequestTransactionData, CallFrame, threadVars
<1> QED
  BY <1>1, <1>2, <1>3, <1>6, <1>7, <1>8, OtherSteps, Zenon DEF workVars

\* A queue never loses a template, and keeps its first one.
LEMMA SendsKeep ==
  ASSUME Inv, NEW c \in Clients, Sends(c), TemplatesIn(m_send_messages[c]) # {}
  PROVE  /\ TemplatesIn(m_send_messages'[c]) # {}
         /\ \A i \in FirstIn(m_send_messages'[c]) :
              i \in FirstIn(m_send_messages[c]) /\ m_send_messages'[c][i] = m_send_messages[c][i]
<1> DEFINE q == m_send_messages[c]
           r == m_send_messages'[c]
<1>1. CASE TemplatesIn(r) = TemplatesIn(q) /\ \A i \in TemplatesIn(q) : r[i] = q[i]
  BY <1>1, Zenon DEF FirstIn
<1>2. ASSUME NEW id, NEW t, AddsTemplate(q, r, id, t)
      PROVE  /\ TemplatesIn(r) # {}
             /\ \A i \in FirstIn(r) : i \in FirstIn(q) /\ r[i] = q[i]
  <2>0. q \in Seq(Message) /\ Len(q) \in Nat
    BY LenProperties, Zenon DEF Inv, TypeOK, ClientTypeOK
  <2> HIDE DEF q, r
  <2>1. /\ TemplatesIn(r) = TemplatesIn(q) \cup {Len(q) + 1}
        /\ \A i \in TemplatesIn(q) : i \in 1..Len(q) /\ r[i] = q[i]
    BY <1>2, Zenon DEF AddsTemplate
  <2>2. PICK j \in TemplatesIn(q) : TRUE
    BY Zenon DEF q
  <2>3. ~(Len(q) + 1 <= j)
    <3>1. j \in 1..Len(q)
      BY <2>1, Zenon
    <3> QED
      BY <2>0, <3>1
  <2> QED
    BY <2>1, <2>2, <2>3, Zenon DEF FirstIn
<1> QED
  BY <1>1, <1>2, Zenon DEF Sends

\* Off signet SendWork does not refuse.
LEMMA SentNow ==
  ASSUME Inv, ~Signet, NEW d \in Clients, SendInitialTemplate(d) \/ SendNextTemplate(d)
  PROVE  \E id : AddsTemplate(m_send_messages[client_id[d]], m_send_messages'[client_id[d]], id, block_template[d])
<1> DEFINE c == client_id[d]
           q == m_send_messages[c]
<1>0. /\ m_send_messages \in [Clients -> Seq(Message)] /\ c \in Clients
      /\ template_id[d] \in Nat /\ m_template_id \in Nat /\ block_template[d] \in Template
      /\ future_template[d] \in BOOLEAN
  BY Zenon DEF Inv, TypeOK, CacheTypeOK, ThreadTypeOK, ClientTypeOK, ThreadInv, SendInitialTemplate, SendNextTemplate, Holding
<1>1. \E id \in Nat, future \in BOOLEAN :
        m_send_messages' = [m_send_messages EXCEPT ![c] = @ \o Work(id, block_template[d], future)]
  BY <1>0, Zenon DEF SendInitialTemplate, SendNextTemplate, SendWork, InitialTemplateId
<1>2. PICK id \in Nat, future \in BOOLEAN :
        m_send_messages' = [m_send_messages EXCEPT ![c] = @ \o Work(id, block_template[d], future)]
  BY <1>1, Zenon
<1>3. AddsTemplate(q, q \o Work(id, block_template[d], future), id, block_template[d])
  BY <1>0, WorkTemplates, Zenon
<1> HIDE DEF c
<1>4. m_send_messages'[c] = q \o Work(id, block_template[d], future)
  BY <1>0, <1>2, Zenon
<1> QED
  BY <1>3, <1>4, Zenon DEF c

\* A thread about to send its first template has just cached it, or goes on holding it.
LEMMA AboutToSend ==
  ASSUME Inv, [Next]_vars, NEW d \in Clients, pc'[d] = "send"
  PROVE  \/ CacheInitialTemplate(d)
         \/ /\ pc[d] = "send" /\ template_id'[d] = template_id[d] /\ block_template'[d] = block_template[d]
<1>1. CASE UNCHANGED <<pc, template_id, block_template>>
  BY <1>1, Zenon
<1>2. CASE SpawnClientThreads
  BY <1>2, Zenon DEF SpawnClientThreads, threadVars
<1>3. ASSUME NEW e \in Clients, ClientThread(e)
      PROVE  \/ CacheInitialTemplate(d)
             \/ /\ pc[d] = "send" /\ template_id'[d] = template_id[d] /\ block_template'[d] = block_template[d]
  BY <1>3, ThreadMoves, Zenon
<1>4. CASE PruneBlockTemplateCache \/ ReplyTransactionData
  BY <1>1, <1>4, Zenon DEF PruneBlockTemplateCache, ReplyTransactionData, CallFrame, threadVars
<1>5. ASSUME NEW e \in Clients, NEW id \in 1..(m_template_id + 1), RequestTransactionData(e, id)
      PROVE  UNCHANGED <<pc, template_id, block_template>>
  BY <1>5, Zenon DEF RequestTransactionData, CallFrame, threadVars
<1> QED
  BY <1>1, <1>2, <1>3, <1>4, <1>5, OtherSteps, Zenon DEF workVars

\* Caching it settles its id.
LEMMA CachedIsSettled ==
  ASSUME Inv, PendingInv, NEW d \in Clients, CacheInitialTemplate(d)
  PROVE  Settled(template_id[d], block_template[d])'
<1>1. /\ pc[d] = "cache" /\ pc' = [pc EXCEPT ![d] = "send"] /\ Insert(template_id[d], block_template[d])
      /\ UNCHANGED <<template_id, block_template, m_template_id>>
  BY Zenon DEF CacheInitialTemplate, Goto, threadVars
<1>2. /\ pc \in [Clients -> Labels]
      /\ template_id[d] \in 1..m_template_id /\ m_template_id \in Nat
  BY <1>1, Zenon DEF Inv, TypeOK, CacheTypeOK, ThreadTypeOK, ThreadInv, Reserved
<1>3. template_id[d] \notin DOMAIN m_block_template_cache /\ pc[d] \in Pending
  BY <1>1, Zenon DEF PendingInv, Pending
<1>4. template_id[d] <= m_template_id
  BY <1>2
<1>5. m_block_template_cache'[template_id[d]] = block_template[d]
  BY <1>1, <1>3, InsertCache, Zenon
<1>6. \A e \in Clients : pc'[e] \in Pending => e # d /\ pc[e] \in Pending
  BY <1>1, <1>2, Zenon DEF Pending
<1> QED
  BY <1>1, <1>3, <1>4, <1>5, <1>6, Zenon DEF Settled, PendingInv

LEMMA FirstStep ==
  ASSUME ~Signet
  PROVE  Inv /\ PendingInv /\ FreshInv /\ FirstInv /\ [Next]_vars => FirstInv'
<1> SUFFICES ASSUME Inv, PendingInv, FreshInv, FirstInv, [Next]_vars PROVE FirstInv'
  OBVIOUS
<1>0. /\ client_id \in [Clients -> Clients] /\ template_id \in [Clients -> Nat]
      /\ m_send_messages \in [Clients -> Seq(Message)]
  BY Zenon DEF Inv, TypeOK, ThreadTypeOK, ClientTypeOK
<1> DEFINE SettledNext(n, t) ==
             /\ n <= m_template_id'
             /\ n \in DOMAIN m_block_template_cache' => m_block_template_cache'[n] = t
             /\ \A e \in Clients : pc'[e] \in Pending => template_id'[e] # n
<1>1. \A n \in Nat : \A t : Settled(n, t) => SettledNext(n, t)
  BY SettledStays, Zenon DEF Settled
<1> HIDE DEF SettledNext
<1>2. ASSUME NEW d \in Clients, pc'[d] = "send" PROVE Settled(template_id[d], block_template[d])'
  <2>1. CASE CacheInitialTemplate(d)
    BY <2>1, CachedIsSettled, Zenon
  <2>2. CASE pc[d] = "send" /\ template_id'[d] = template_id[d] /\ block_template'[d] = block_template[d]
    <3>1. Settled(template_id[d], block_template[d]) /\ template_id[d] \in Nat
      BY <1>0, <2>2, Zenon DEF FirstInv
    <3>2. SettledNext(template_id'[d], block_template'[d])
      BY <1>1, <2>2, <3>1, Zenon
    <3> QED
      BY <3>2, Zenon DEF Settled, SettledNext
  <2> QED
    BY <1>2, <2>1, <2>2, AboutToSend, Zenon
<1>3. ASSUME NEW d \in Clients, Begun(d)' PROVE TemplatesIn(m_send_messages'[client_id'[d]]) # {}
  <2>1. CASE Begun(d) /\ client_id'[d] = client_id[d]
    <3>1. client_id[d] \in Clients /\ TemplatesIn(m_send_messages[client_id[d]]) # {}
      BY <1>0, <2>1, Zenon DEF FirstInv
    <3> QED
      BY <2>1, <3>1, QueueSteps, SendsKeep, Zenon
  <2>2. CASE SendInitialTemplate(d)
    <3>1. UNCHANGED client_id
      BY <2>2, Zenon DEF SendInitialTemplate
    <3> QED
      BY <2>2, <3>1, SentNow, Zenon DEF AddsTemplate
  <2> QED
    BY <1>3, <2>1, <2>2, BegunSteps, Zenon
<1>4. ASSUME NEW c \in Clients, NEW i \in FirstIn(m_send_messages'[c])
      PROVE  Settled(m_send_messages[c][i].id, m_send_messages[c][i].tmpl)'
  <2> DEFINE q == m_send_messages[c]
             r == m_send_messages'[c]
  <2>1. CASE i \in FirstIn(q) /\ r[i] = q[i]
    <3>1. q[i].id \in Nat /\ Settled(q[i].id, q[i].tmpl)
      BY <1>0, <2>1, QueueIds, Zenon DEF FirstInv, FirstIn
    <3>2. SettledNext(r[i].id, r[i].tmpl)
      BY <1>1, <2>1, <3>1, Zenon
    <3> QED
      BY <3>2, Zenon DEF Settled, SettledNext
  <2>2. CASE TemplatesIn(q) # {}
    BY <1>4, <2>1, <2>2, QueueSteps, SendsKeep, Zenon
  <2>3. CASE TemplatesIn(q) = {}
    <3>1. i \in TemplatesIn(r)
      BY <1>4, Zenon DEF FirstIn
    <3>2. ASSUME NEW d \in Clients, client_id[d] = c, pc[d] = "sendNext" PROVE FALSE
      BY <2>3, <3>2, Zenon DEF FirstInv, Begun, Before
    <3>3. PICK d \in Clients : pc[d] = "send" /\ AddsTemplate(q, r, template_id[d], block_template[d])
      BY <2>3, <3>1, <3>2, QueueSteps, Zenon DEF Sends
    <3>4. r[i].id = template_id[d] /\ r[i].tmpl = block_template[d]
      BY <2>3, <3>1, <3>3, Zenon DEF AddsTemplate
    <3>5. Settled(template_id[d], block_template[d]) /\ template_id[d] \in Nat
      BY <1>0, <3>3, Zenon DEF FirstInv
    <3>6. SettledNext(r[i].id, r[i].tmpl)
      BY <1>1, <3>4, <3>5, Zenon
    <3> QED
      BY <3>6, Zenon DEF Settled, SettledNext
  <2> QED
    BY <2>2, <2>3, Zenon
<1> QED
  BY <1>2, <1>3, <1>4, Zenon DEF FirstInv

\* For any number of clients, also with reused memory and failing calls: the first template
\* a client is sent is the one the cache holds under its id, now and later, although the id
\* is reserved long before.  On signet, where SendWork may refuse a thread's first template,
\* a later one may come first.
THEOREM FirstCorrect ==
  ASSUME ~Signet
  PROVE  Spec => []FirstTemplateMatchesCache
<1>1. FirstInv => FirstTemplateMatchesCache
  BY Zenon DEF FirstInv, FirstTemplateMatchesCache, FirstIn, Settled, IdMatchesCache
<1> QED
  BY <1>1, TypeInit, TypeStep, FirstInit, PendingStep, FreshStep, FirstStep, PTL DEF Spec

-----------------------------------------------------------------------------
(* The interval between fee updates. *)

\* Interval seconds have passed since client c was last sent a template.
Spaced(c) == now - sentAt[c] >= Interval

\* The last template client c was sent builds on h.
LastOn(c, h) == \A i \in LastTemplateIn(m_send_messages[c]) : m_send_messages[c][i].tmpl.prev = h

\* The timer never runs from before the last template; while the thread waits its template is
\* the last one sent; what it holds after that is on another block or comes after the interval.
SpaceInvOf(c) ==
  /\ sentAt[c] <= now
  /\ Begun(c) => sentAt[c] <= m_last_triggered[c]
  /\ Begun(c) /\ pc[c] \notin {"cacheNext", "sendNext"} => LastOn(c, block_template[c].prev)
  /\ pc[c] = "wait" /\ check_fees[c] => Spaced(c)
  /\ pc[c] \in {"cacheNext", "sendNext"} =>
       \A i \in LastTemplateIn(m_send_messages[c]) :
         m_send_messages[c][i].tmpl.prev = block_template[c].prev => Spaced(c)

SpaceInv == \A c \in Clients : SpaceInvOf(c)

LEMMA SpaceInit == Init => SpaceInv
<1> SUFFICES ASSUME Init, NEW c \in Clients PROVE SpaceInvOf(c)
  BY Zenon DEF SpaceInv
<1>1. pc[c] = "none" /\ sentAt[c] = 0 /\ now = 0
  BY Zenon DEF Init
<1>2. sentAt[c] <= now
  BY <1>1
<1> QED
  BY <1>1, <1>2, Zenon DEF SpaceInvOf, Begun, Before

\* The templates client c was sent stay the same.
SameSent(c) ==
  /\ TemplatesIn(m_send_messages'[c]) = TemplatesIn(m_send_messages[c])
  /\ \A i \in TemplatesIn(m_send_messages[c]) : m_send_messages'[c][i] = m_send_messages[c][i]
  /\ sentAt'[c] = sentAt[c]

LEMMA SameLast ==
  ASSUME NEW c \in Clients, SameSent(c)
  PROVE  /\ LastTemplateIn(m_send_messages'[c]) = LastTemplateIn(m_send_messages[c])
         /\ \A i \in LastTemplateIn(m_send_messages[c]) : m_send_messages'[c][i] = m_send_messages[c][i]
BY Zenon DEF SameSent, LastTemplateIn

\* Time passes, and the thread stays where it is.
LEMMA SpaceFrame ==
  ASSUME Inv, SpaceInv, NEW c \in Clients, SameSent(c), now' \in {now, now + 1},
         pc'[c] = pc[c], block_template'[c] = block_template[c], check_fees'[c] = check_fees[c],
         m_last_triggered'[c] = m_last_triggered[c]
  PROVE  SpaceInvOf(c)'
<1>0. now \in Nat /\ sentAt[c] \in Nat /\ sentAt'[c] = sentAt[c] /\ Interval \in Nat
  BY ConstantsOK, Zenon DEF Inv, TypeOK, NodeTypeOK, ClientTypeOK, SameSent
<1>1. Spaced(c) => Spaced(c)'
  BY <1>0 DEF Spaced
<1>2. sentAt[c] <= now => sentAt'[c] <= now'
  BY <1>0
<1>3. Begun(c)' <=> Begun(c)
  BY Zenon DEF Begun, Before
<1> QED
  BY <1>0, <1>1, <1>2, <1>3, SameLast, ZenonT(30) DEF SpaceInv, SpaceInvOf, LastOn

\* A thread that is not past its first template, or ended.
LEMMA SpaceIdle ==
  ASSUME Inv, SpaceInv, NEW c \in Clients, sentAt'[c] = sentAt[c] \/ sentAt'[c] = now, UNCHANGED now, ~Begun(c)'
  PROVE  SpaceInvOf(c)'
<1>0. now \in Nat /\ sentAt[c] <= now
  BY Zenon DEF Inv, TypeOK, NodeTypeOK, SpaceInv, SpaceInvOf
<1>1. sentAt'[c] <= now'
  BY <1>0
<1>2. pc'[c] \notin {"wait", "cacheNext", "sendNext"}
  BY Zenon DEF Begun, Before
<1> QED
  BY <1>1, <1>2, Zenon DEF SpaceInvOf

\* SendWork to client c: its last template is the one the thread holds.
LEMMA SpaceSend ==
  ASSUME Inv, NEW c \in Clients, NEW id,
         AddsTemplate(m_send_messages[c], m_send_messages'[c], id, block_template[c]),
         sentAt'[c] = now, m_last_triggered'[c] = now, UNCHANGED <<now, block_template>>,
         pc'[c] \notin {"wait", "cacheNext", "sendNext"}
  PROVE  SpaceInvOf(c)'
<1> DEFINE q == m_send_messages[c]
           r == m_send_messages'[c]
<1>0. q \in Seq(Message) /\ Len(q) \in Nat /\ now \in Nat
  BY LenProperties, Zenon DEF Inv, TypeOK, NodeTypeOK, ClientTypeOK
<1>1. now <= now
  BY <1>0
<1> HIDE DEF q, r
<1>2. /\ TemplatesIn(r) = TemplatesIn(q) \cup {Len(q) + 1}
      /\ \A i \in TemplatesIn(q) : i \in 1..Len(q)
      /\ r[Len(q) + 1].tmpl = block_template[c]
  BY Zenon DEF AddsTemplate, q, r
<1>3. \A i \in 1..Len(q) : ~(Len(q) + 1 <= i)
  BY <1>0
<1>4. \A i \in LastTemplateIn(r) : r[i].tmpl = block_template[c]
  BY <1>2, <1>3, Zenon DEF LastTemplateIn
<1>5. LastOn(c, block_template[c].prev)'
  BY <1>4, Zenon DEF LastOn, r
<1> QED
  BY <1>1, <1>5, Zenon DEF SpaceInvOf

\* What a thread leaves alone of another thread and its client's times.
LEMMA ThreadTimes ==
  ASSUME Inv, OwnIds, NEW d \in Clients, ClientThread(d)
  PROVE  /\ UNCHANGED now
         /\ \A c \in Clients \ {d} : /\ sentAt'[c] = sentAt[c] /\ check_fees'[c] = check_fees[c]
                                     /\ m_last_triggered'[c] = m_last_triggered[c]
<1>0. /\ sentAt \in [Clients -> Nat] /\ check_fees \in [Clients -> BOOLEAN]
      /\ m_last_triggered \in [Clients -> Nat] /\ client_id[d] = d
  BY Zenon DEF Inv, TypeOK, ThreadTypeOK, ClientTypeOK, OwnIds
<1> USE DEF ClientThread, ThreadStart, ThreadExit, LoopFirst, ReserveTemplateId, PrepareBlockCreateOptions,
    CreateNewBlock, CacheInitialTemplate, SendInitialTemplate, BeginWait, WaitNextNothing, WaitNextTemplate,
    CacheNextTemplate, SendNextTemplate, ClientGone, ThreadIpcFailure, threadVars, ThreadFrame
<1>1. UNCHANGED now
  BY ZenonT(30)
<1>2. UNCHANGED sentAt \/ \E n : sentAt' = [sentAt EXCEPT ![client_id[d]] = n]
  BY ZenonT(30) DEF SendWork
<1>3. UNCHANGED check_fees \/ \E b : check_fees' = [check_fees EXCEPT ![d] = b]
  BY ZenonT(30)
<1>4. UNCHANGED m_last_triggered \/ \E n : m_last_triggered' = [m_last_triggered EXCEPT ![d] = n]
  BY Zenon DEF ResetTimer
<1> QED
  BY ONLY <1>0, <1>1, <1>2, <1>3, <1>4, d \in Clients, ZenonT(30)

\* The steps of client c's own thread.
LEMMA SpaceThread ==
  ASSUME ~Signet, Inv, OwnIds, FreshInv, SpaceInv, [Next]_vars, NEW c \in Clients, ClientThread(c)
  PROVE  SpaceInvOf(c)'
<1>0. /\ pc \in [Clients -> Labels] /\ client_id[c] = c /\ check_fees \in [Clients -> BOOLEAN]
      /\ sentAt \in [Clients -> Nat] /\ m_last_triggered \in [Clients -> Nat]
      /\ block_template \in [Clients -> Template \cup {NoTemplate}]
      /\ now \in Nat /\ Interval \in Nat /\ SpaceInvOf(c)
      /\ pc[c] \in Holding => block_template[c] \in Template
  BY ConstantsOK, Zenon DEF Inv, TypeOK, NodeTypeOK, ThreadTypeOK, ClientTypeOK, ThreadInv, OwnIds, SpaceInv
<1>1. CASE SendInitialTemplate(c) \/ SendNextTemplate(c)
  <2>1. /\ sentAt' = [sentAt EXCEPT ![c] = now] /\ m_last_triggered' = [m_last_triggered EXCEPT ![c] = now]
        /\ UNCHANGED <<now, block_template>>
    BY <1>0, <1>1, Zenon DEF SendInitialTemplate, SendNextTemplate, SendWork, ResetTimer, ThreadFrame
  <2>2. pc'[c] \notin {"wait", "cacheNext", "sendNext"}
    BY <1>0, <1>1, Zenon DEF SendInitialTemplate, SendNextTemplate, Sent, Goto
  <2>3. sentAt'[c] = now /\ m_last_triggered'[c] = now
    BY <1>0, <2>1, Zenon
  <2>4. \E id : AddsTemplate(m_send_messages[c], m_send_messages'[c], id, block_template[c])
    BY <1>0, <1>1, SentNow, Zenon
  <2> QED
    BY <2>1, <2>2, <2>3, <2>4, SpaceSend, ZenonT(30)
<1>2. CASE ~SendInitialTemplate(c) /\ ~SendNextTemplate(c)
  <2>1. UNCHANGED <<m_send_messages, sentAt, now>>
    BY <1>2, ZenonT(30) DEF ClientThread, ThreadStart, ThreadExit, LoopFirst, ReserveTemplateId, PrepareBlockCreateOptions,
       CreateNewBlock, CacheInitialTemplate, BeginWait, WaitNextNothing, WaitNextTemplate, CacheNextTemplate,
       ClientGone, ThreadIpcFailure, ThreadFrame
  <2>2. CASE ~Begun(c)'
    BY <2>1, <2>2, SpaceIdle, Zenon
  <2>3. CASE Begun(c)'
    <3>1. Begun(c)
      BY <1>2, <2>3, BegunSteps, Zenon
    <3>2. BeginWait(c) \/ WaitNextNothing(c) \/ WaitNextTemplate(c) \/ CacheNextTemplate(c)
      <4>1. CASE ClientGone(c) \/ ThreadIpcFailure(c) \/ ThreadExit(c)
        BY <1>0, <2>3, <4>1, Zenon DEF ClientGone, ThreadIpcFailure, ThreadExit, Goto, Begun
      <4>2. ~(ThreadStart(c) \/ LoopFirst(c) \/ ReserveTemplateId(c) \/ PrepareBlockCreateOptions(c)
              \/ CreateNewBlock(c) \/ CacheInitialTemplate(c))
        BY <3>1, Zenon DEF ThreadStart, LoopFirst, ReserveTemplateId, PrepareBlockCreateOptions, CreateNewBlock,
           CacheInitialTemplate, Begun, Before
      <4> QED
        BY <1>2, <4>1, <4>2, Zenon DEF ClientThread
    <3>3. Spaced(c)' <=> Spaced(c)
      BY <2>1, Zenon DEF Spaced
    <3>4. sentAt[c] <= now /\ sentAt[c] <= m_last_triggered[c]
      BY <1>0, <3>1, Zenon DEF SpaceInvOf
    <3>5. CASE BeginWait(c)
      <4> DEFINE due == now - m_last_triggered[c] >= Interval
      <4>1. /\ pc'[c] = "wait" /\ check_fees'[c] = due /\ UNCHANGED block_template
            /\ m_last_triggered'[c] \in {now, m_last_triggered[c]}
            /\ pc[c] \notin {"cacheNext", "sendNext"}
        BY <1>0, <3>5, Zenon DEF BeginWait, Goto, ResetTimer
      <4>2. due => Spaced(c)
        BY <1>0, <3>4 DEF Spaced
      <4> HIDE DEF due
      <4>3. LastOn(c, block_template[c].prev)
        BY <1>0, <3>1, <4>1, Zenon DEF SpaceInvOf
      <4> QED
        BY <2>1, <3>3, <3>4, <4>1, <4>2, <4>3, Zenon DEF SpaceInvOf, LastOn
    <3>6. CASE WaitNextNothing(c)
      <4>1. /\ pc'[c] \in {"top", "done"} /\ pc[c] = "wait"
            /\ UNCHANGED <<block_template, m_last_triggered>>
        BY <1>0, <3>6, Zenon DEF WaitNextNothing, Goto, threadVars
      <4>2. LastOn(c, block_template[c].prev)
        BY <1>0, <3>1, <4>1, Zenon DEF SpaceInvOf
      <4> QED
        BY <2>1, <3>4, <4>1, <4>2, Zenon DEF SpaceInvOf, LastOn
    <3>7. CASE WaitNextTemplate(c)
      <4>1. /\ pc[c] = "wait" /\ UNCHANGED <<m_last_triggered, check_fees>>
            /\ block_template[c].prev # tip \/ check_fees[c]
        BY <3>7, Zenon DEF WaitNextTemplate
      <4>2. pc'[c] = "cacheNext"
        <5>1. pc' = [pc EXCEPT ![c] = "cacheNext"] \/ pc' = [pc EXCEPT ![c] = "done"]
          BY <3>7, Zenon DEF WaitNextTemplate, Goto
        <5> QED
          BY <1>0, <2>3, <5>1, Zenon DEF Begun
      <4>3. block_template'[c].prev = tip
        <5>1. PICK t \in NodeTemplates(c) : block_template' = [block_template EXCEPT ![c] = t]
          BY <1>0, <3>7, <4>2, Zenon DEF WaitNextTemplate, Goto
        <5>2. t.prev = tip
          BY NodeTemplatesType, Zenon DEF Inv, TypeOK
        <5> QED
          BY <1>0, <5>1, <5>2, Zenon
      <4>4. LastOn(c, block_template[c].prev) /\ (check_fees[c] => Spaced(c))
        BY <1>0, <3>1, <4>1, Zenon DEF SpaceInvOf
      <4>5. \A i \in LastTemplateIn(m_send_messages[c]) : m_send_messages[c][i].tmpl.prev = tip => Spaced(c)
        BY <4>1, <4>4, Zenon DEF LastOn
      <4> QED
        BY <2>1, <3>3, <3>4, <4>1, <4>2, <4>3, <4>5, ZenonT(30) DEF SpaceInvOf
    <3>8. CASE CacheNextTemplate(c)
      <4>1. /\ pc[c] = "cacheNext" /\ pc'[c] = "sendNext" /\ UNCHANGED <<block_template, m_last_triggered>>
        BY <1>0, <3>8, Zenon DEF CacheNextTemplate, Goto
      <4> QED
        BY <1>0, <2>1, <3>3, <3>4, <4>1, ZenonT(30) DEF SpaceInvOf
    <3> QED
      BY <3>2, <3>5, <3>6, <3>7, <3>8, ZenonT(30)
  <2> QED
    BY <2>2, <2>3, ZenonT(30)
<1> QED
  BY <1>1, <1>2, Zenon

\* With no reused memory a thread leaves the queue of another client alone.
LEMMA OtherQueues ==
  ASSUME Inv, OwnIds, NEW d \in Clients, ClientThread(d), NEW c \in Clients, c # d
  PROVE  m_send_messages'[c] = m_send_messages[c]
<1>1. c \in Clients \ {d} /\ client_id[d] # c
  BY Zenon DEF OwnIds
<1>2. m_send_messages'[c] = m_send_messages[c] \/ (client_id[d] = c /\ pc[d] # "spawned")
  BY <1>1, ThreadOthers, Zenon
<1> QED
  BY <1>1, <1>2, Zenon

\* With no reused memory no other thread sends to client c.
LEMMA OwnSends ==
  ASSUME Inv, OwnIds, [Next]_vars, NEW c \in Clients, ~ClientThread(c)
  PROVE  SameSent(c)
<1>0. sentAt \in [Clients -> Nat]
  BY Zenon DEF Inv, TypeOK, ClientTypeOK
<1>1. ASSUME NEW d \in Clients, ClientThread(d) PROVE SameSent(c)
  <2>1. c # d
    BY <1>1, Zenon
  <2> QED
    <3>1. m_send_messages'[c] = m_send_messages[c]
      BY <1>1, <2>1, OtherQueues, Zenon
    <3>2. sentAt'[c] = sentAt[c]
      BY <1>1, <2>1, ThreadTimes, Zenon
    <3> QED
      BY <3>1, <3>2, Zenon DEF SameSent
<1>2. CASE ~\E d \in Clients : ClientThread(d)
  <2>1. sentAt' = sentAt
    <3>1. ASSUME NEW d \in Clients, NEW id \in 1..(m_template_id + 1), RequestTransactionData(d, id)
          PROVE  sentAt' = sentAt
      BY <3>1, Zenon DEF RequestTransactionData, CallFrame
    <3> QED
      BY <1>2, <3>1, OtherSteps, Zenon DEF workVars, PruneBlockTemplateCache, SpawnClientThreads, ReplyTransactionData,
         CallFrame, clientVars
  <2>2. \/ /\ TemplatesIn(m_send_messages'[c]) = TemplatesIn(m_send_messages[c])
           /\ \A i \in TemplatesIn(m_send_messages[c]) : m_send_messages'[c][i] = m_send_messages[c][i]
        \/ \E d \in Clients : ClientThread(d)
    BY QueueSteps, Zenon DEF Sends
  <2> QED
    BY <1>2, <2>1, <2>2, Zenon DEF SameSent
<1> QED
  BY <1>1, <1>2, Zenon

LEMMA SpaceStep ==
  ASSUME ~Signet
  PROVE  Inv /\ OwnIds /\ FreshInv /\ SpaceInv /\ [Next]_vars => SpaceInv'
<1> SUFFICES ASSUME Inv, OwnIds, FreshInv, SpaceInv, [Next]_vars, NEW c \in Clients PROVE SpaceInvOf(c)'
  BY Zenon DEF SpaceInv
<1>1. CASE ClientThread(c)
  BY <1>1, SpaceThread, Zenon
<1>2. CASE ~ClientThread(c)
  <2>1. SameSent(c)
    BY <1>2, OwnSends, Zenon
  <2>2. CASE UNCHANGED <<pc, block_template, check_fees, m_last_triggered>> /\ now' \in {now, now + 1}
    BY <2>1, <2>2, SpaceFrame, Zenon
  <2>3. ASSUME NEW d \in Clients, ClientThread(d) PROVE SpaceInvOf(c)'
    <3>1. c # d
      BY <1>2, <2>3, Zenon
    <3> QED
      BY <2>1, <2>3, <3>1, ThreadOthers, ThreadTimes, SpaceFrame, ZenonT(30)
  <2>4. CASE SpawnClientThreads
    <3>1. /\ UNCHANGED <<now, block_template, check_fees, m_last_triggered>>
          /\ pc'[c] = pc[c] \/ pc'[c] = "spawned"
      BY <2>4, Zenon DEF SpawnClientThreads, threadVars
    <3>2. CASE pc'[c] = "spawned"
      BY <2>1, <3>1, <3>2, SpaceIdle, Zenon DEF Begun, Before, SameSent
    <3> QED
      BY <2>1, <3>1, <3>2, SpaceFrame, Zenon
  <2>5. CASE PruneBlockTemplateCache \/ ReplyTransactionData
    BY <2>2, <2>5, Zenon DEF PruneBlockTemplateCache, ReplyTransactionData, CallFrame, threadVars
  <2>6. ASSUME NEW d \in Clients, NEW id \in 1..(m_template_id + 1), RequestTransactionData(d, id)
        PROVE  SpaceInvOf(c)'
    BY <2>2, <2>6, Zenon DEF RequestTransactionData, CallFrame, threadVars
  <2> QED
    BY <2>2, <2>3, <2>4, <2>5, <2>6, OtherSteps, ZenonT(30) DEF workVars
<1> QED
  BY <1>1, <1>2, Zenon

\* For any number of clients and any interval, with blocks, reorganisations, failures and fee
\* rises at any time: a template that only raises the fees leaves at least Interval seconds
\* after the one before it.  Off signet, and when memory of a removed client is not reused;
\* otherwise a template may have been refused since, or a second thread may serve the client.
THEOREM SpacedCorrect ==
  ASSUME ~Signet, "reuse" \notin Faults
  PROVE  Spec => FeeUpdatesSpaced
<1> DEFINE Step == \A c \in Clients : LET q == m_send_messages[c]
                                          n == Len(q) + 1 IN
             \A i \in LastTemplateIn(q) :
               (/\ n \in DOMAIN m_send_messages'[c]
                /\ m_send_messages'[c][n].type \in TemplateMsgs
                /\ m_send_messages'[c][n].tmpl.prev = q[i].tmpl.prev) => now - sentAt[c] >= Interval
<1>1. Inv /\ IdInv /\ OwnIds /\ SpaceInv /\ [Next]_vars => Step
  <2> SUFFICES ASSUME Inv, IdInv, OwnIds, SpaceInv, [Next]_vars, NEW c \in Clients,
                      NEW i \in LastTemplateIn(m_send_messages[c]),
                      Len(m_send_messages[c]) + 1 \in TemplatesIn(m_send_messages'[c]),
                      m_send_messages'[c][Len(m_send_messages[c]) + 1].tmpl.prev = m_send_messages[c][i].tmpl.prev
               PROVE  now - sentAt[c] >= Interval
    BY Zenon DEF TemplatesIn
  <2> DEFINE q == m_send_messages[c]
             r == m_send_messages'[c]
  <2>1. Len(q) + 1 \notin TemplatesIn(q)
    <3>1. Len(q) \in Nat /\ DOMAIN q = 1..Len(q)
      BY LenProperties, Zenon DEF Inv, TypeOK, ClientTypeOK
    <3>2. Len(q) + 1 \notin 1..Len(q)
      BY <3>1
    <3> QED
      BY <3>1, <3>2, Zenon DEF TemplatesIn
  <2>2. ASSUME NEW d \in Clients, client_id[d] = c, pc[d] = "send" PROVE FALSE
    BY <2>2, OwnIdsFit, Zenon DEF OwnIds, IdsFit, Before, LastTemplateIn
  <2>3. PICK d \in Clients : /\ client_id[d] = c /\ pc[d] = "sendNext"
                             /\ AddsTemplate(q, r, m_template_id, block_template[d])
    BY <2>1, <2>2, QueueSteps, Zenon DEF Sends
  <2>4. d = c /\ r[Len(q) + 1].tmpl = block_template[c]
    BY <2>3, Zenon DEF OwnIds, AddsTemplate
  <2> QED
    BY <2>3, <2>4, Zenon DEF SpaceInv, SpaceInvOf, Spaced
<1> QED
  BY <1>1, TypeInit, TypeStep, IdInit, IdStep, OwnInit, OwnStep, FirstInit, FreshStep, SpaceInit, SpaceStep, PTL
     DEF Spec, FeeUpdatesSpaced
=============================================================================
