--------------------------- MODULE ProviderProofs ---------------------------
(***************************************************************************)
(* Type correctness, the grace period and the template ids of              *)
(* Sv2TemplateProvider, for every set of clients, every number of blocks,  *)
(* any grace period and any clock.                                         *)
(***************************************************************************)
EXTENDS Sv2TemplateProvider, TLAPS

-----------------------------------------------------------------------------
(* Sequences. *)

LEMMA LenProperties ==
  ASSUME NEW S, NEW s \in Seq(S)
  PROVE  Len(s) \in Nat /\ DOMAIN s = 1..Len(s)
OBVIOUS

LEMMA ElementOfSeq ==
  ASSUME NEW S, NEW s \in Seq(S), NEW n \in 1..Len(s)
  PROVE  s[n] \in S
OBVIOUS

LEMMA EmptySeq == \A S : <<>> \in Seq(S)
OBVIOUS

LEMMA ConcatProperties ==
  ASSUME NEW S, NEW s \in Seq(S), NEW t \in Seq(S)
  PROVE  /\ s \o t \in Seq(S) /\ Len(s \o t) = Len(s) + Len(t)
         /\ \A i \in 1..(Len(s) + Len(t)) : (s \o t)[i] = IF i <= Len(s) THEN s[i] ELSE t[i - Len(s)]
OBVIOUS

LEMMA AppendIsConcat ==
  ASSUME NEW S, NEW s \in Seq(S), NEW x \in S
  PROVE  Append(s, x) = s \o <<x>>
OBVIOUS

-----------------------------------------------------------------------------
(* The data the model is built from. *)

Holding  == {"cache", "send", "trigger", "wait", "cacheNext", "sendNext"}
Reserved == {"options", "create", "cache", "send"}

\* What a client thread knows at each point: it holds a template from createNewBlock on,
\* and until it has sent its first one, an id that m_template_id has already reached.
ThreadInv ==
  \A c \in Clients :
    /\ pc[c] \in Holding => block_template[c] \in Template
    /\ pc[c] \in Reserved => template_id[c] \in 1..m_template_id

Inv == TypeOK /\ ThreadInv

\* The node's templates are templates.
LEMMA NodeTemplatesType ==
  ASSUME NodeTypeOK, NEW c \in Clients, NEW t \in NodeTemplates(c)
  PROVE  t \in Template /\ t.prev = tip
<1>1. tip \in Hash /\ fees \in 0..MaxFees
  BY ConstantsOK DEF NodeTypeOK, Hash
<1>2. (IF Signet THEN BOOLEAN ELSE {TRUE}) \subseteq BOOLEAN
  BY Zenon
<1> DEFINE commitments == IF Signet THEN BOOLEAN ELSE {TRUE}
<1>3. t \in [owner : {c}, prev : {tip}, fees : {fees}, commitment : commitments]
  BY Zenon DEF NodeTemplates
<1>4. commitments \subseteq BOOLEAN
  BY <1>2, Zenon
<1> HIDE DEF commitments
<1> QED
  BY <1>1, <1>3, <1>4, Zenon DEF Template

\* A message built by Msg is a message.
LEMMA MsgType ==
  ASSUME NEW type \in TemplateMsgs \cup {"SetNewPrevHash", "NotFound", "Stale", "TxData"},
         NEW id \in Nat, NEW t \in Template \cup {NoTemplate}
  PROVE  Msg(type, id, t) \in Message
BY Zenon DEF Msg, Message

\* A SendWork call queues one or two messages.
LEMMA WorkType ==
  ASSUME NEW id \in Nat, NEW t \in Template, NEW future \in BOOLEAN
  PROVE  Work(id, t, future) \in Seq(Message)
<1>1. Msg("NewFutureTemplate", id, t) \in Message
  BY MsgType, Zenon DEF TemplateMsgs
<1>2. Msg("NewTemplate", id, t) \in Message
  BY MsgType, Zenon DEF TemplateMsgs
<1>3. Msg("SetNewPrevHash", id, t) \in Message
  BY MsgType, Zenon
<1> QED
  BY <1>1, <1>2, <1>3 DEF Work

\* SendWork appends messages to one client's queue, and only sets disconnect flags.
LEMMA SendWorkType ==
  ASSUME ClientTypeOK, now \in Nat, UNCHANGED clients,
         NEW d \in Clients, NEW id \in Nat, NEW t \in Template, NEW future \in BOOLEAN,
         SendWork(d, id, t, future)
  PROVE  ClientTypeOK'
<1> DEFINE q == m_send_messages[d] \o Work(id, t, future)
<1>1. q \in Seq(Message)
  BY WorkType, ConcatProperties, Zenon DEF ClientTypeOK
<1>2. \/ m_disconnect_flag' = [m_disconnect_flag EXCEPT ![d] = TRUE] /\ UNCHANGED <<m_send_messages, sentAt>>
      \/ /\ m_send_messages' = [m_send_messages EXCEPT ![d] = q]
         /\ sentAt' = [sentAt EXCEPT ![d] = now]
         /\ UNCHANGED m_disconnect_flag
  BY Zenon DEF SendWork
<1> HIDE DEF q
<1> QED
  BY <1>1, <1>2, Zenon DEF ClientTypeOK

\* The same for the two actions of a client thread that call SendWork.
LEMMA SendInitialType ==
  ASSUME Inv, NEW c \in Clients, SendInitialTemplate(c)
  PROVE  ClientTypeOK'
<1>1. SendWork(client_id[c], template_id[c], block_template[c], TRUE) /\ UNCHANGED clients
  BY Zenon DEF SendInitialTemplate, InitialTemplateId, ThreadFrame
<1>2. block_template[c] \in Template
  BY Zenon DEF Inv, ThreadInv, Holding, SendInitialTemplate
<1>3. ClientTypeOK /\ now \in Nat /\ client_id[c] \in Clients /\ template_id[c] \in Nat
  BY Zenon DEF Inv, TypeOK, NodeTypeOK, ThreadTypeOK
<1> QED
  BY <1>1, <1>2, <1>3, SendWorkType, Zenon

LEMMA SendNextType ==
  ASSUME Inv, NEW c \in Clients, SendNextTemplate(c)
  PROVE  ClientTypeOK'
<1>1. SendWork(client_id[c], m_template_id, block_template[c], future_template[c]) /\ UNCHANGED clients
  BY Zenon DEF SendNextTemplate, ThreadFrame
<1>2. block_template[c] \in Template
  BY Zenon DEF Inv, ThreadInv, Holding, SendNextTemplate
<1>3. /\ ClientTypeOK /\ now \in Nat /\ client_id[c] \in Clients /\ m_template_id \in Nat
      /\ future_template[c] \in BOOLEAN
  BY Zenon DEF Inv, TypeOK, NodeTypeOK, CacheTypeOK, ThreadTypeOK
<1> QED
  BY <1>1, <1>2, <1>3, SendWorkType, Zenon

-----------------------------------------------------------------------------
(* Types *)

LEMMA TypeInit == Init => Inv
<1>1. ASSUME Init PROVE NodeTypeOK
  BY <1>1, ConstantsOK DEF Init, NodeTypeOK, Hash, Idle
<1>2. ASSUME Init PROVE CacheTypeOK
  BY <1>2, ConstantsOK, EmptySeq DEF Init, CacheTypeOK, Hash, Idle
<1>3. ASSUME Init PROVE ControlTypeOK
  BY <1>3, ConstantsOK, EmptySeq DEF Init, ControlTypeOK, Hash, Idle
<1>4. ASSUME Init PROVE ThreadTypeOK
  BY <1>4, ConstantsOK, EmptySeq DEF Init, ThreadTypeOK, Labels, Hash, Idle
<1>5. ASSUME Init PROVE ClientTypeOK
  BY <1>5, EmptySeq DEF Init, ClientTypeOK
<1>6. ASSUME Init PROVE ThreadInv
  BY <1>6 DEF Init, ThreadInv, Holding, Reserved
<1> QED BY <1>1, <1>2, <1>3, <1>4, <1>5, <1>6, Zenon DEF Inv, TypeOK

LEMMA ReusedIds ==
  ASSUME client_id \in [Clients -> Clients], NEW c \in Clients, EventNewConnectionAccepted(c)
  PROVE  client_id' \in [Clients -> Clients]
<1>1. ASSUME NEW x, client_id' = [d \in Clients |-> IF pc[d] = "spawned" /\ client_id[d] = x THEN c
                                                                                         ELSE client_id[d]]
      PROVE  client_id' \in [Clients -> Clients]
  BY <1>1, Zenon
<1> QED
  BY <1>1, Zenon DEF EventNewConnectionAccepted

\* One step for each action; those that build or store data have the facts about it first.
LEMMA TypeStep == Inv /\ [Next]_vars => Inv'
<1> SUFFICES ASSUME Inv, [Next]_vars PROVE Inv'
  BY Zenon
<1> USE ConstantsOK DEF Inv, TypeOK, NodeTypeOK, CacheTypeOK, ControlTypeOK, ThreadTypeOK, ClientTypeOK,
        ThreadInv, Labels, Holding, Reserved, nodeVars, cacheVars, controlVars, connVars, threadVars, clientVars,
        Goto, ThreadFrame, CallFrame
<1>0. CASE UNCHANGED vars
  BY <1>0 DEF vars
<1>1. CASE NewTip
  BY <1>1 DEF NewTip
<1>2. CASE Reorg
  BY <1>2 DEF Reorg
<1>3. CASE FeeRise
  BY <1>3 DEF FeeRise
<1>4. CASE LeaveIBD
  BY <1>4, ZenonT(30) DEF LeaveIBD
<1>5. CASE Tick
  BY <1>5 DEF Tick
<1>6. CASE HandlerStart
  BY <1>6, Zenon DEF HandlerStart
<1>7. CASE HandlerIBD
  BY <1>7, Zenon DEF HandlerIBD
<1>8. CASE SpawnClientThreads
  BY <1>8, Zenon DEF SpawnClientThreads
<1>9. CASE PruneBlockTemplateCache
  BY <1>9, Zenon DEF PruneBlockTemplateCache
<1>10. CASE HandlerLeave
  BY <1>10, Zenon DEF HandlerLeave
<1>11. CASE HandlerJoin
  BY <1>11, Zenon DEF HandlerJoin
<1>12. CASE ReplyTransactionData
  <2>1. job.client \in Clients /\ job.id \in Nat /\ job.tmpl \in Template
    BY <1>12 DEF ReplyTransactionData, Idle
  <2>2. Msg("TxData", job.id, job.tmpl) \in Message
    BY <2>1, MsgType, Zenon
  <2>3. Append(m_send_messages[job.client], Msg("TxData", job.id, job.tmpl)) \in Seq(Message)
    BY <2>1, <2>2
  <2> QED
    BY <1>12, <2>1, <2>3, Zenon DEF ReplyTransactionData, Reply
<1>13. CASE SubmitToNode
  <2>1. job.tmpl \in Template /\ <<calls, job.tmpl>> \in Nat \X Template
    BY <1>13 DEF SubmitToNode, Idle
  <2>2. NodeTypeOK'
    BY <1>13 DEF SubmitToNode
  <2> QED
    BY <1>13, <2>1, <2>2, Zenon DEF SubmitToNode
<1>14. CASE SubmitIpcFailure
  <2>1. job.client \in Clients
    BY <1>14 DEF SubmitIpcFailure, Idle
  <2> QED
    BY <1>14, <2>1, Zenon DEF SubmitIpcFailure
<1>15. CASE InterruptWaits
  BY <1>15 DEF InterruptWaits
<1>16. CASE SetInterruptFlag
  BY <1>16, Zenon DEF SetInterruptFlag
<1>17. CASE StopThreads
  BY <1>17, Zenon DEF StopThreads
<1>18. ASSUME NEW s \in saves, SaveBlock(s) PROVE Inv'
  BY <1>18 DEF SaveBlock
<1>19. ASSUME NEW c \in Clients, EventNewConnectionAccepted(c) PROVE Inv'
  <2>1. client_id' \in [Clients -> Clients]
    BY <1>19, ReusedIds, Zenon
  <2>2. clients' \in [Clients -> {"absent", "connected", "ready", "gone"}]
    BY <1>19, Zenon DEF EventNewConnectionAccepted
  <2> QED
    BY <1>19, <2>1, <2>2, Zenon DEF EventNewConnectionAccepted
<1>20. ASSUME NEW c \in Clients, FlagDisconnect(c) PROVE Inv'
  BY <1>20, Zenon DEF FlagDisconnect
<1>21. ASSUME NEW c \in Clients, DisconnectFlagged(c) PROVE Inv'
  BY <1>21, ZenonT(30) DEF DisconnectFlagged
<1>22. ASSUME NEW c \in Clients, NEW id \in 1..(m_template_id + 1), RequestTransactionData(c, id) PROVE Inv'
  <2>0. /\ NodeTypeOK' /\ CacheTypeOK' /\ ThreadTypeOK' /\ ThreadInv'
        /\ calls' \in Nat /\ UNCHANGED <<saves, m_flag_interrupt_sv2, handler, main>>
        /\ UNCHANGED <<clients, m_disconnect_flag, sentAt>>
    BY <1>22, SMTT(30) DEF RequestTransactionData
  <2>1. Msg("NotFound", id, NoTemplate) \in Message
    <3>1. id \in Nat /\ NoTemplate \in Template \cup {NoTemplate}
      OBVIOUS
    <3> QED
      BY <3>1, MsgType, Zenon
  <2>2. CASE id \notin DOMAIN m_block_template_cache
    <3>1. Append(m_send_messages[c], Msg("NotFound", id, NoTemplate)) \in Seq(Message)
      BY <2>1
    <3>2. UNCHANGED job /\ Reply(c, Msg("NotFound", id, NoTemplate))
      BY <1>22, <2>2, Zenon DEF RequestTransactionData
    <3>3. ControlTypeOK'
      BY <2>0, <3>2, Zenon
    <3>4. ClientTypeOK'
      BY <2>0, <3>1, <3>2, Zenon DEF Reply
    <3> QED
      BY <2>0, <3>3, <3>4, Zenon
  <2>3. CASE id \in DOMAIN m_block_template_cache
    <3> DEFINE t == m_block_template_cache[id]
    <3>1. t \in Template /\ id \in Nat
      BY <2>3
    <3>2. Msg("Stale", id, t) \in Message
      BY <3>1, MsgType, Zenon
    <3>3. Append(m_send_messages[c], Msg("Stale", id, t)) \in Seq(Message)
      BY <3>2
    <3>4. \/ Reply(c, Msg("Stale", id, t)) /\ UNCHANGED job
          \/ job' = [op |-> "txdata", client |-> c, id |-> id, tmpl |-> t] /\ UNCHANGED m_send_messages
      BY <1>22, <2>3, Zenon DEF RequestTransactionData
    <3> HIDE DEF t
    <3>5. CASE Reply(c, Msg("Stale", id, t)) /\ UNCHANGED job
      BY <2>0, <3>3, <3>5, Zenon DEF Reply
    <3>6. CASE job' = [op |-> "txdata", client |-> c, id |-> id, tmpl |-> t] /\ UNCHANGED m_send_messages
      BY <2>0, <3>1, <3>6, Zenon
    <3> QED
      BY <3>4, <3>5, <3>6, Zenon
  <2> QED
    BY <2>2, <2>3, Zenon
<1>23. ASSUME NEW c \in Clients, NEW id \in 1..(m_template_id + 1), SubmitSolution(c, id) PROVE Inv'
  <2>1. ControlTypeOK'
    BY <1>23 DEF SubmitSolution, MayCall
  <2> QED
    BY <1>23, <2>1, Zenon DEF SubmitSolution
<1>24. ASSUME NEW c \in Clients, RequestIpcFailure(c) PROVE Inv'
  <2>0. calls' \in Nat
    BY <1>24 DEF RequestIpcFailure
  <2>1. NodeTypeOK' /\ CacheTypeOK' /\ ControlTypeOK' /\ ThreadTypeOK' /\ ThreadInv'
    BY <1>24, <2>0, SMTT(30) DEF RequestIpcFailure
  <2>2. ClientTypeOK'
    BY <1>24, Zenon DEF RequestIpcFailure
  <2> QED
    BY <2>1, <2>2, Zenon
<1>25. ASSUME NEW c \in Clients, ThreadStart(c) PROVE Inv'
  BY <1>25, SMTT(30) DEF ThreadStart
<1>26. ASSUME NEW c \in Clients, ThreadExit(c) PROVE Inv'
  BY <1>26, SMTT(30) DEF ThreadExit
<1>27. ASSUME NEW c \in Clients, LoopFirst(c) PROVE Inv'
  BY <1>27, SMTT(30) DEF LoopFirst
<1>28. ASSUME NEW c \in Clients, ReserveTemplateId(c) PROVE Inv'
  <2>1. m_template_id' = m_template_id + 1
    BY <1>28, Zenon DEF ReserveTemplateId, NextTemplateId
  <2>2. template_id' \in [Clients -> Nat] /\ template_id'[c] = m_template_id + 1
    BY <1>28 DEF ReserveTemplateId, NextTemplateId
  <2>3. \A d \in Clients \ {c} : template_id'[d] = template_id[d] /\ pc'[d] = pc[d]
    BY <1>28, Zenon DEF ReserveTemplateId
  <2>4. ThreadInv'
    BY <1>28, <2>1, <2>2, <2>3 DEF ReserveTemplateId
  <2> QED
    BY <1>28, <2>1, <2>2, <2>4, SMTT(30) DEF ReserveTemplateId
<1>29. ASSUME NEW c \in Clients, PrepareBlockCreateOptions(c) PROVE Inv'
  BY <1>29, ZenonT(30) DEF PrepareBlockCreateOptions
<1>30. ASSUME NEW c \in Clients, CreateNewBlock(c) PROVE Inv'
  <2>1. PICK t \in NodeTemplates(c) : block_template' = [block_template EXCEPT ![c] = t]
    BY <1>30, Zenon DEF CreateNewBlock
  <2>2. t \in Template
    BY NodeTemplatesType, Zenon
  <2>3. tip \in Hash
    BY DEF Hash
  <2> QED
    BY <1>30, <2>1, <2>2, <2>3, SMTT(30) DEF CreateNewBlock
<1>31. ASSUME NEW c \in Clients, CacheInitialTemplate(c) PROVE Inv'
  <2>1. block_template[c] \in Template /\ template_id[c] \in 1..m_template_id
    BY <1>31, Zenon DEF CacheInitialTemplate
  <2>2. CacheTypeOK'
    <3>1. prev_hash[c] \in Hash
      BY Zenon
    <3>2. /\ m_best_prev_hash' \in Hash /\ m_last_block_time' \in Nat
          /\ bestUntil' \in [Hash -> Nat]
      BY <1>31, <3>1, ZenonT(30) DEF CacheInitialTemplate, SetBestPrevHash, KeepBestPrevHash
    <3> QED
      BY <1>31, <2>1, <3>2, Zenon DEF CacheInitialTemplate, Insert
  <2> QED
    BY <1>31, <2>2 DEF CacheInitialTemplate
<1>32. ASSUME NEW c \in Clients, SendInitialTemplate(c) PROVE Inv'
  <2>1. block_template[c] \in Template /\ template_id[c] \in Nat
    BY <1>32, Zenon DEF SendInitialTemplate
  <2>2. ClientTypeOK'
    BY <1>32, SendInitialType, Zenon
  <2>3. NodeTypeOK' /\ CacheTypeOK' /\ ControlTypeOK'
    BY <1>32, Zenon DEF SendInitialTemplate
  <2>4. ThreadTypeOK'
    <3>1. pc' = [pc EXCEPT ![c] = "trigger"] \/ pc' = [pc EXCEPT ![c] = "done"]
      BY <1>32, Zenon DEF SendInitialTemplate, Sent
    <3>2. m_last_triggered' \in [Clients -> Nat]
      BY <1>32, Zenon DEF SendInitialTemplate, ResetTimer
    <3>3. pc' \in [Clients -> Labels]
      BY <3>1, Zenon
    <3>4. UNCHANGED <<client_id, template_id, prev_hash, block_template, check_fees, future_template>>
      BY <1>32, Zenon DEF SendInitialTemplate
    <3> QED
      BY <3>2, <3>3, <3>4, Zenon
  <2>5. ThreadInv'
    BY <1>32, <2>1, ZenonT(30) DEF SendInitialTemplate, Sent
  <2> QED
    BY <2>2, <2>3, <2>4, <2>5, Zenon
<1>33. ASSUME NEW c \in Clients, BeginWait(c) PROVE Inv'
  <2>1. check_fees' \in [Clients -> BOOLEAN] /\ future_template' \in [Clients -> BOOLEAN]
    BY <1>33 DEF BeginWait
  <2>2. m_last_triggered' \in [Clients -> Nat]
    BY <1>33, Zenon DEF BeginWait, ResetTimer
  <2>3. pc' \in [Clients -> Labels] /\ ThreadInv'
    BY <1>33, Zenon DEF BeginWait
  <2> QED
    BY <1>33, <2>1, <2>2, <2>3, ZenonT(30) DEF BeginWait
<1>34. ASSUME NEW c \in Clients, WaitNextNothing(c) PROVE Inv'
  BY <1>34, ZenonT(30) DEF WaitNextNothing
<1>35. ASSUME NEW c \in Clients, WaitNextTemplate(c) PROVE Inv'
  <2>1. NodeTypeOK' /\ CacheTypeOK' /\ ControlTypeOK' /\ ClientTypeOK'
    BY <1>35, Zenon DEF WaitNextTemplate
  <2>2. CASE ~Connected(client_id[c])
    <3>1. pc' = [pc EXCEPT ![c] = "done"] /\ UNCHANGED <<threadVars, m_template_id>>
      BY <1>35, <2>2, Zenon DEF WaitNextTemplate
    <3> QED
      BY <2>1, <3>1, Zenon
  <2>3. CASE Connected(client_id[c])
    <3>1. PICK t \in NodeTemplates(c) : block_template' = [block_template EXCEPT ![c] = t]
      BY <1>35, <2>3, Zenon DEF WaitNextTemplate
    <3>2. t \in Template
      BY NodeTemplatesType, Zenon
    <3>3. pc' = [pc EXCEPT ![c] = "cacheNext"]
      BY <1>35, <2>3, Zenon DEF WaitNextTemplate
    <3>4. ThreadTypeOK'
      BY <1>35, <3>1, <3>2, <3>3, Zenon DEF WaitNextTemplate
    <3>5. ThreadInv'
      BY <1>35, <3>1, <3>2, <3>3, Zenon DEF WaitNextTemplate
    <3> QED
      BY <2>1, <3>4, <3>5, Zenon
  <2> QED
    BY <2>2, <2>3, Zenon
<1>36. ASSUME NEW c \in Clients, CacheNextTemplate(c) PROVE Inv'
  <2>1. block_template[c] \in Template /\ block_template[c].prev \in Hash
    BY <1>36, ZenonT(30) DEF CacheNextTemplate, Template
  <2>2. CacheTypeOK'
    BY <1>36, <2>1 DEF CacheNextTemplate, SetBestPrevHash, KeepBestPrevHash, Insert, NextTemplateId
  <2>3. m_template_id' = m_template_id + 1
    BY <1>36, Zenon DEF CacheNextTemplate, NextTemplateId
  <2>4. future_template' \in [Clients -> BOOLEAN]
    BY <1>36, Zenon DEF CacheNextTemplate
  <2>5. NodeTypeOK' /\ ControlTypeOK' /\ ClientTypeOK'
    BY <1>36, ZenonT(30) DEF CacheNextTemplate
  <2>6. ThreadTypeOK'
    BY <1>36, <2>4, Zenon DEF CacheNextTemplate
  <2>7. ThreadInv'
    BY <1>36, <2>3 DEF CacheNextTemplate
  <2> QED
    BY <2>2, <2>5, <2>6, <2>7, Zenon
<1>37. ASSUME NEW c \in Clients, SendNextTemplate(c) PROVE Inv'
  <2>2. ClientTypeOK'
    BY <1>37, SendNextType, Zenon
  <2>3. NodeTypeOK' /\ CacheTypeOK' /\ ControlTypeOK'
    BY <1>37, ZenonT(30) DEF SendNextTemplate
  <2>4. ThreadTypeOK'
    <3>1. pc' = [pc EXCEPT ![c] = "top"] \/ pc' = [pc EXCEPT ![c] = "done"]
      BY <1>37, Zenon DEF SendNextTemplate, Sent
    <3>2. m_last_triggered' \in [Clients -> Nat]
      BY <1>37, Zenon DEF SendNextTemplate, ResetTimer
    <3>3. pc' \in [Clients -> Labels]
      BY <3>1, ZenonT(30)
    <3>4. UNCHANGED <<client_id, template_id, prev_hash, block_template, check_fees, future_template>>
      BY <1>37, Zenon DEF SendNextTemplate
    <3> QED
      BY <3>2, <3>3, <3>4, Zenon
  <2>5. ThreadInv'
    BY <1>37, ZenonT(30) DEF SendNextTemplate, Sent
  <2> QED
    BY <2>2, <2>3, <2>4, <2>5, Zenon
<1>38. ASSUME NEW c \in Clients, ClientGone(c) PROVE Inv'
  BY <1>38, SMTT(30) DEF ClientGone
<1>39. ASSUME NEW c \in Clients, ThreadIpcFailure(c) PROVE Inv'
  BY <1>39 DEF ThreadIpcFailure
<1>40. ASSUME NEW c \in Clients, CoinbaseOutputConstraints(c) PROVE Inv'
  <2>1. clients' \in [Clients -> {"absent", "connected", "ready", "gone"}]
    BY <1>40, Zenon DEF CoinbaseOutputConstraints
  <2> QED
    BY <1>40, <2>1, Zenon DEF CoinbaseOutputConstraints
<1> QED
  BY <1>0, <1>1, <1>2, <1>3, <1>4, <1>5, <1>6, <1>7, <1>8, <1>9, <1>10, <1>11, <1>12, <1>13, <1>14, <1>15, <1>16, <1>17, <1>18, <1>19, <1>20, <1>21, <1>22, <1>23, <1>24, <1>25, <1>26, <1>27, <1>28, <1>29, <1>30, <1>31, <1>32, <1>33, <1>34, <1>35, <1>36, <1>37, <1>38, <1>39, <1>40, ZenonT(30)
     DEF Next, Node, Handler, Jobs, Main, Sockets, Call, ClientThread

\* Every variable keeps its type, and the cache never holds an id the counter has not
\* reached, whatever the threads do.
THEOREM TypeCorrect == Spec => []TypeOK
<1>1. Inv => TypeOK
  BY Zenon DEF Inv
<1> QED
  BY <1>1, TypeInit, TypeStep, PTL DEF Spec

-----------------------------------------------------------------------------
(* Which actions touch what. *)

\* The cache is changed by pruning and where a template is inserted.
CacheChange ==
  \/ UNCHANGED m_block_template_cache
  \/ PruneBlockTemplateCache
  \/ \E c \in Clients : CacheInitialTemplate(c) \/ CacheNextTemplate(c)

\* Queues grow in SendWork and in the replies to RequestTransactionData.
QueueChange ==
  \/ UNCHANGED m_send_messages
  \/ ReplyTransactionData
  \/ \E c \in Clients : \/ SendInitialTemplate(c) \/ SendNextTemplate(c)
                        \/ \E id \in 1..(m_template_id + 1) : RequestTransactionData(c, id)

\* The clock and the time of the last block.
TimeChange ==
  \/ UNCHANGED <<now, m_last_block_time, bestUntil>>
  \/ Tick
  \/ HandlerStart
  \/ \E c \in Clients : CacheInitialTemplate(c) \/ CacheNextTemplate(c)

LEMMA Changes == [Next]_vars => CacheChange /\ QueueChange /\ TimeChange
<1> SUFFICES ASSUME [Next]_vars PROVE CacheChange /\ QueueChange /\ TimeChange
  BY Zenon
<1> USE DEF CacheChange, QueueChange, TimeChange, nodeVars, cacheVars, clientVars, ThreadFrame, CallFrame
<1>1. CASE UNCHANGED vars
  BY <1>1, Zenon DEF vars
<1>2. CASE Node
  BY <1>2, Zenon DEF Node, NewTip, Reorg, FeeRise, LeaveIBD, Tick
<1>3. CASE Handler
  BY Zenon, <1>3 DEF Handler, HandlerStart, HandlerIBD, SpawnClientThreads, PruneBlockTemplateCache, HandlerLeave,
     HandlerJoin
<1>4. CASE Jobs
  BY <1>4, Zenon DEF Jobs, ReplyTransactionData, SubmitToNode, SubmitIpcFailure, SaveBlock
<1>5. CASE Main
  BY <1>5, Zenon DEF Main, InterruptWaits, SetInterruptFlag, StopThreads
<1>6. ASSUME NEW c \in Clients, Sockets(c) PROVE CacheChange /\ QueueChange /\ TimeChange
  <2>1. ASSUME NEW id \in 1..(m_template_id + 1), RequestTransactionData(c, id)
        PROVE  CacheChange /\ QueueChange /\ TimeChange
    <3>1. UNCHANGED <<m_block_template_cache, now, m_last_block_time, bestUntil>>
      BY <2>1, Zenon DEF RequestTransactionData
    <3> QED
      BY <2>1, <3>1, Zenon
  <2> QED
    BY <1>6, <2>1, Zenon DEF Sockets, Call, EventNewConnectionAccepted, CoinbaseOutputConstraints, FlagDisconnect,
       DisconnectFlagged, SubmitSolution, RequestIpcFailure
<1>7. ASSUME NEW c \in Clients, ClientThread(c) PROVE CacheChange /\ QueueChange /\ TimeChange
  <2>1. CASE SendInitialTemplate(c) \/ SendNextTemplate(c)
    BY <2>1, Zenon DEF SendInitialTemplate, SendNextTemplate
  <2>2. CASE CacheInitialTemplate(c) \/ CacheNextTemplate(c)
    BY <2>2, Zenon DEF CacheInitialTemplate, CacheNextTemplate
  <2>3. CASE ~(SendInitialTemplate(c) \/ SendNextTemplate(c) \/ CacheInitialTemplate(c) \/ CacheNextTemplate(c))
    BY Zenon, <1>7, <2>3 DEF ClientThread, ThreadStart, ThreadExit, LoopFirst, ReserveTemplateId,
       PrepareBlockCreateOptions, CreateNewBlock, BeginWait, WaitNextNothing, WaitNextTemplate, ClientGone,
       ThreadIpcFailure
  <2> QED
    BY <2>1, <2>2, <2>3, Zenon
<1> QED
  BY <1>1, <1>2, <1>3, <1>4, <1>5, <1>6, <1>7, Zenon DEF Next

-----------------------------------------------------------------------------
(* The grace period. *)

\* No prevhash lost its place after the last block was recorded, and that is not in the
\* future.
GraceInv ==
  /\ m_last_block_time <= now
  /\ \A h \in Hash : bestUntil[h] <= m_last_block_time

LEMMA GraceInvStep == Inv /\ GraceInv /\ [Next]_vars => GraceInv'
<1> SUFFICES ASSUME Inv, GraceInv, [Next]_vars PROVE GraceInv'
  BY Zenon
<1>0. /\ now \in Nat /\ m_last_block_time \in Nat /\ bestUntil \in [Hash -> Nat]
      /\ m_best_prev_hash \in Hash
  BY Zenon DEF Inv, TypeOK, NodeTypeOK, CacheTypeOK
<1>1. CASE UNCHANGED <<now, m_last_block_time, bestUntil>>
  BY <1>1, Zenon DEF GraceInv
<1>2. CASE Tick
  BY <1>0, <1>2 DEF GraceInv, Tick, cacheVars
<1>3. CASE HandlerStart
  BY <1>0, <1>3 DEF GraceInv, HandlerStart
<1>4. ASSUME NEW c \in Clients, CacheInitialTemplate(c) \/ CacheNextTemplate(c) PROVE GraceInv'
  <2>1. UNCHANGED now
    BY <1>4, Zenon DEF CacheInitialTemplate, CacheNextTemplate, ThreadFrame
  <2>2. \/ UNCHANGED <<m_last_block_time, bestUntil>>
        \/ m_last_block_time' = now /\ bestUntil' = [bestUntil EXCEPT ![m_best_prev_hash] = now]
    BY <1>4, Zenon DEF CacheInitialTemplate, CacheNextTemplate, SetBestPrevHash, KeepBestPrevHash
  <2> QED
    BY <1>0, <2>1, <2>2 DEF GraceInv
<1> QED
  BY <1>1, <1>2, <1>3, <1>4, Changes, Zenon DEF TimeChange

\* The message SendWork appends first is a template.
LEMMA WorkNotStale ==
  ASSUME NEW q \in Seq(Message), NEW id \in Nat, NEW t \in Template, NEW future \in BOOLEAN
  PROVE  (q \o Work(id, t, future))[Len(q) + 1].type \in TemplateMsgs
<1>1. Work(id, t, future) \in Seq(Message)
  BY WorkType, Zenon
<1>2. Len(Work(id, t, future)) \in {1, 2} /\ Work(id, t, future)[1].type \in TemplateMsgs
  BY Zenon DEF Work, Msg, TemplateMsgs
<1>3. Len(q) \in Nat
  BY LenProperties, Zenon
<1>4. (q \o Work(id, t, future))[Len(q) + 1] = Work(id, t, future)[1]
  BY <1>1, <1>2, <1>3, ConcatProperties
<1> QED
  BY <1>2, <1>4, Zenon

\* What a step that calls SendWork does to the queues.
LEMMA SendStep ==
  ASSUME Inv, NEW c \in Clients, SendInitialTemplate(c) \/ SendNextTemplate(c)
  PROVE  \E id \in Nat, t \in Template, future \in BOOLEAN :
           \/ UNCHANGED m_send_messages
           \/ m_send_messages' = [m_send_messages EXCEPT ![client_id[c]] = @ \o Work(id, t, future)]
<1>1. block_template[c] \in Template /\ template_id[c] \in Nat /\ m_template_id \in Nat
      /\ future_template[c] \in BOOLEAN
  BY Zenon DEF Inv, TypeOK, CacheTypeOK, ThreadTypeOK, ThreadInv, SendInitialTemplate, SendNextTemplate, Holding
<1>2. CASE SendInitialTemplate(c)
  BY <1>1, <1>2, Zenon DEF SendInitialTemplate, InitialTemplateId, SendWork
<1>3. CASE SendNextTemplate(c)
  BY <1>1, <1>3, Zenon DEF SendNextTemplate, SendWork
<1> QED
  BY <1>2, <1>3, Zenon

LEMMA GraceActions == Inv /\ GraceInv /\ [Next]_vars => GraceStep
<1> SUFFICES ASSUME Inv, GraceInv, [Next]_vars PROVE GraceStep
  BY Zenon
<1> DEFINE Kept == \A i \in DOMAIN m_block_template_cache \ DOMAIN m_block_template_cache' :
                     Displaced(m_block_template_cache[i])
           Fresh(c) == (/\ Len(m_send_messages[c]) + 1 \in DOMAIN m_send_messages'[c]
                        /\ m_send_messages'[c][Len(m_send_messages[c]) + 1].type = "Stale")
                       => Displaced(m_send_messages'[c][Len(m_send_messages[c]) + 1].tmpl)
<1>0. /\ now \in Nat /\ m_last_block_time \in Nat /\ bestUntil \in [Hash -> Nat]
      /\ \A i \in DOMAIN m_block_template_cache : m_block_template_cache[i].prev \in Hash
      /\ m_send_messages \in [Clients -> Seq(Message)] /\ client_id \in [Clients -> Clients]
  BY Zenon DEF Inv, TypeOK, NodeTypeOK, CacheTypeOK, ClientTypeOK, ThreadTypeOK, Template
<1>1. Kept
  <2>1. CASE UNCHANGED m_block_template_cache
    BY <2>1, Zenon
  <2>2. CASE PruneBlockTemplateCache
    BY <1>0, <2>2, ConstantsOK DEF PruneBlockTemplateCache, GraceInv, Displaced
  <2>3. ASSUME NEW c \in Clients, CacheInitialTemplate(c) \/ CacheNextTemplate(c) PROVE Kept
    BY <2>3, Zenon DEF CacheInitialTemplate, CacheNextTemplate, Insert
  <2> QED
    BY <2>1, <2>2, <2>3, Changes, Zenon DEF CacheChange
<1>2. ASSUME NEW c \in Clients PROVE Fresh(c)
  <2> DEFINE q == m_send_messages[c]
             n == Len(q) + 1
  <2>0. q \in Seq(Message) /\ Len(q) \in Nat /\ DOMAIN q = 1..Len(q)
    BY <1>0, LenProperties, Zenon
  <2>1. CASE m_send_messages'[c] = q
    BY <2>0, <2>1
  <2>2. CASE ReplyTransactionData
    <3> DEFINE m == Msg("TxData", job.id, job.tmpl)
    <3>1. m_send_messages'[c] = q \/ m_send_messages'[c] = Append(q, m)
      BY <1>0, <2>2, Zenon DEF ReplyTransactionData, Reply
    <3>2. Append(q, m)[n].type = "TxData"
      BY <2>0 DEF Msg
    <3> QED
      BY <2>1, <3>1, <3>2, Zenon
  <2>3. ASSUME NEW d \in Clients, SendInitialTemplate(d) \/ SendNextTemplate(d) PROVE Fresh(c)
    <3>1. PICK id \in Nat, t \in Template, future \in BOOLEAN :
            \/ UNCHANGED m_send_messages
            \/ m_send_messages' = [m_send_messages EXCEPT ![client_id[d]] = @ \o Work(id, t, future)]
      BY <2>3, SendStep, Zenon
    <3>2. (q \o Work(id, t, future))[n].type \in TemplateMsgs
      BY <2>0, WorkNotStale, Zenon
    <3>3. m_send_messages'[c] = q \/ m_send_messages'[c] = q \o Work(id, t, future)
      BY <1>0, <3>1, Zenon
    <3> QED
      BY <2>1, <3>2, <3>3, Zenon DEF TemplateMsgs
  <2>4. ASSUME NEW d \in Clients, NEW id \in 1..(m_template_id + 1), RequestTransactionData(d, id)
        PROVE  Fresh(c)
    <3>1. CASE id \notin DOMAIN m_block_template_cache
      BY <1>0, <2>0, <2>1, <2>4, <3>1 DEF RequestTransactionData, Reply, Msg
    <3>2. CASE id \in DOMAIN m_block_template_cache
      <4> DEFINE t == m_block_template_cache[id]
      <4>1. CASE t.prev # m_best_prev_hash /\ m_last_block_time < now - Grace
        <5>1. Displaced(t)
          BY <1>0, <3>2, <4>1, ConstantsOK DEF Displaced, GraceInv
        <5>2. m_send_messages' = [m_send_messages EXCEPT ![d] = Append(@, Msg("Stale", id, t))]
          BY <2>4, <3>2, <4>1, Zenon DEF RequestTransactionData, Reply
        <5>3. m_send_messages'[c] = q \/ m_send_messages'[c] = Append(q, Msg("Stale", id, t))
          BY <1>0, <5>2, Zenon
        <5>4. Append(q, Msg("Stale", id, t))[n].tmpl = t
          BY <2>0 DEF Msg
        <5> QED
          BY <2>1, <5>1, <5>3, <5>4, Zenon
      <4>2. CASE ~(t.prev # m_best_prev_hash /\ m_last_block_time < now - Grace)
        BY <2>1, <2>4, <3>2, <4>2, Zenon DEF RequestTransactionData
      <4> QED
        BY <4>1, <4>2, Zenon
    <3> QED
      BY <3>1, <3>2, Zenon
  <2> HIDE DEF Fresh
  <2>5. CASE UNCHANGED m_send_messages
    BY <2>1, <2>5, Zenon
  <2> QED
    BY <2>2, <2>3, <2>4, <2>5, Changes, Zenon DEF QueueChange
<1> QED
  BY <1>1, <1>2, Zenon DEF GraceStep

\* For every grace period, clock and number of clients, and also when the node goes back to
\* an earlier tip: pruning and the staleness test of RequestTransactionData spare a template
\* until Grace seconds after its prevhash stopped being m_best_prev_hash.
THEOREM GraceCorrect == Spec => GraceRespected
<1>1. Init => GraceInv
  BY DEF Init, GraceInv
<1>2. Inv /\ GraceInv /\ [Next]_vars => [GraceStep]_vars
  BY GraceActions, Zenon
<1> QED
  BY <1>1, <1>2, TypeInit, TypeStep, GraceInvStep, PTL DEF Spec, GraceRespected

-----------------------------------------------------------------------------
(* Template ids. *)

\* r is q with one more template, at the first place after q.
AddsTemplate(q, r, id, t) ==
  /\ TemplatesIn(r) = TemplatesIn(q) \cup {Len(q) + 1}
  /\ \A i \in TemplatesIn(q) : i \in 1..Len(q) /\ r[i] = q[i]
  /\ r[Len(q) + 1].id = id /\ r[Len(q) + 1].tmpl = t

\* Appending the messages of a SendWork call adds one template, at the end.
LEMMA WorkTemplates ==
  ASSUME NEW q \in Seq(Message), NEW id \in Nat, NEW t \in Template, NEW future \in BOOLEAN
  PROVE  AddsTemplate(q, q \o Work(id, t, future), id, t)
<1> DEFINE w == Work(id, t, future)
           r == q \o w
<1>1. w \in Seq(Message)
  BY WorkType, Zenon
<1>2. /\ Len(w) \in {1, 2} /\ w[1].type \in TemplateMsgs /\ w[1].id = id /\ w[1].tmpl = t
      /\ Len(w) = 2 => w[2].type \notin TemplateMsgs
  BY DEF Work, Msg, TemplateMsgs
<1>3. Len(q) \in Nat /\ DOMAIN q = 1..Len(q)
  BY LenProperties, Zenon
<1>4. /\ r \in Seq(Message) /\ Len(r) = Len(q) + Len(w)
      /\ \A i \in 1..(Len(q) + Len(w)) : r[i] = IF i <= Len(q) THEN q[i] ELSE w[i - Len(q)]
  BY <1>1, ConcatProperties, Zenon
<1>5. DOMAIN r = 1..(Len(q) + Len(w))
  BY <1>4, LenProperties, Zenon
<1> HIDE DEF w, r
<1>6. r[Len(q) + 1] = w[1]
  BY <1>2, <1>3, <1>4, SMTT(30)
<1>7. Len(w) = 2 => r[Len(q) + 2] = w[2]
  BY <1>2, <1>3, <1>4
<1>8. \A i \in 1..Len(q) : r[i] = q[i]
  BY <1>2, <1>3, <1>4
<1>9. ASSUME NEW i \in DOMAIN r
      PROVE  i \in 1..Len(q) \/ i = Len(q) + 1 \/ (Len(w) = 2 /\ i = Len(q) + 2)
  <2>1. i \in 1..(Len(q) + Len(w)) /\ (Len(w) = 1 \/ Len(w) = 2)
    BY <1>2, <1>5, Zenon
  <2>2. \A k \in Nat : \A j \in 1..(k + 1) : j \in 1..k \/ j = k + 1
    OBVIOUS
  <2>3. \A k \in Nat : \A j \in 1..(k + 2) : j \in 1..k \/ j = k + 1 \/ j = k + 2
    OBVIOUS
  <2>4. CASE Len(w) = 1
    BY <1>3, <2>1, <2>2, <2>4, Zenon
  <2>5. CASE Len(w) = 2
    BY <1>3, <2>1, <2>3, <2>5, Zenon
  <2> QED
    BY <2>1, <2>4, <2>5, Zenon
<1>10. \A i \in 1..Len(q) : i \in DOMAIN r
  BY <1>2, <1>3, <1>5
<1>11. Len(q) + 1 \in DOMAIN r
  BY <1>2, <1>3, <1>5
<1>12. TemplatesIn(r) = TemplatesIn(q) \cup {Len(q) + 1}
  BY <1>2, <1>3, <1>6, <1>7, <1>8, <1>9, <1>10, <1>11, Zenon DEF TemplatesIn
<1>13. \A i \in TemplatesIn(q) : i \in 1..Len(q) /\ r[i] = q[i]
  BY <1>3, <1>8, Zenon DEF TemplatesIn
<1>14. AddsTemplate(q, r, id, t)
  BY <1>2, <1>6, <1>12, <1>13, Zenon DEF AddsTemplate
<1> QED
  BY <1>14, Zenon DEF r, w

\* A reply to RequestTransactionData is not a template.
LEMMA ReplyTemplates ==
  ASSUME NEW q \in Seq(Message), NEW m, m.type \notin TemplateMsgs,
         NEW r, r = Append(q, m)
  PROVE  /\ TemplatesIn(r) = TemplatesIn(q)
         /\ \A i \in TemplatesIn(q) : r[i] = q[i]
<1>1. Len(q) \in Nat /\ DOMAIN q = 1..Len(q)
  BY LenProperties, Zenon
<1>2. DOMAIN r = 1..(Len(q) + 1) /\ r[Len(q) + 1] = m
  BY <1>1
<1>3. \A i \in 1..Len(q) : r[i] = q[i]
  BY <1>1
<1>4. \A i \in DOMAIN r : i \in 1..Len(q) \/ i = Len(q) + 1
  BY <1>1, <1>2
<1>5. \A i \in 1..Len(q) : i \in DOMAIN r
  BY <1>1, <1>2
<1> QED
  BY <1>1, <1>2, <1>3, <1>4, <1>5, Zenon DEF TemplatesIn

\* Client c has not been sent a template yet.
Before(c) ==
  \/ pc[c] \in {"none", "spawned", "reserve", "options", "create", "cache", "send"}
  \/ pc[c] = "top" /\ block_template[c] = NoTemplate

\* The ids in q are increasing and bounded by n.
IdsUpTo(q, n) ==
  /\ \A i \in TemplatesIn(q) : q[i].id <= n
  /\ \A i, j \in TemplatesIn(q) : i < j => q[i].id < q[j].id

\* No id is ahead of the counter, and the counter is ahead of every id sent when the next
\* template is about to be.
IdsFit(c) ==
  /\ IdsUpTo(m_send_messages[c], m_template_id)
  /\ pc[c] = "sendNext" => IdsUpTo(m_send_messages[c], m_template_id - 1)
  /\ Before(c) => TemplatesIn(m_send_messages[c]) = {}

\* A thread is spawned with the id of its own client, and the queues that it alone writes
\* to are in order.
IdInv ==
  /\ \A c \in Clients : pc[c] = "none" => client_id[c] = c
  /\ \A c \in Clients : ServedAlone(c) => IdsFit(c)

\* Threads serve the clients they were started for; true when no memory is reused.
OwnIds == \A c \in Clients : client_id[c] = c

LEMMA OwnIdsFit ==
  ASSUME IdInv, OwnIds, NEW c \in Clients
  PROVE  IdsFit(c)
BY Zenon DEF IdInv, OwnIds, ServedAlone

LEMMA IdInit == Init => IdInv
<1>1. TemplatesIn(<<>>) = {}
  BY DEF TemplatesIn
<1> QED
  <2> SUFFICES ASSUME Init, NEW c \in Clients PROVE client_id[c] = c /\ IdsFit(c)
    BY Zenon DEF IdInv
  <2>1. m_send_messages[c] = <<>> /\ client_id[c] = c /\ pc[c] = "none"
    BY Zenon DEF Init
  <2> QED
    BY <1>1, <2>1, Zenon DEF IdsFit, IdsUpTo

\* Ids in queues are numbers.
LEMMA QueueIds ==
  ASSUME Inv, NEW c \in Clients, NEW i \in TemplatesIn(m_send_messages[c])
  PROVE  m_send_messages[c][i].id \in Nat
<1>1. m_send_messages[c] \in Seq(Message)
  BY Zenon DEF Inv, TypeOK, ClientTypeOK
<1>2. i \in 1..Len(m_send_messages[c])
  BY <1>1, LenProperties, Zenon DEF TemplatesIn
<1>3. m_send_messages[c][i] \in Message
  BY <1>1, <1>2, ElementOfSeq, Zenon
<1> QED
  BY <1>3, Zenon DEF Message

\* A step that leaves c's queue, and what matters of its thread, alone.
Quiet(c) ==
  /\ m_send_messages'[c] = m_send_messages[c]
  /\ m_template_id' \in Nat /\ m_template_id' >= m_template_id
  /\ Before(c)' => Before(c)
  /\ pc'[c] = "sendNext" => pc[c] = "sendNext" \/ m_template_id' = m_template_id + 1

LEMMA IdFrame ==
  ASSUME Inv, NEW c \in Clients, IdsFit(c), Quiet(c)
  PROVE  IdsFit(c)'
<1> USE DEF Quiet
<1> DEFINE q == m_send_messages[c]
<1>1. m_template_id \in Nat /\ \A i \in TemplatesIn(q) : q[i].id \in Nat
  BY QueueIds, Zenon DEF Inv, TypeOK, CacheTypeOK
<1>2. q' = q
  BY Zenon
<1>3. IdsUpTo(q, m_template_id)
  BY Zenon DEF IdsFit
<1>4. IdsUpTo(q, m_template_id')
  BY <1>1, <1>3 DEF IdsUpTo
<1>5. pc'[c] = "sendNext" => IdsUpTo(q, m_template_id' - 1)
  <2>1. CASE pc[c] = "sendNext"
    <3>1. IdsUpTo(q, m_template_id - 1)
      BY <2>1, Zenon DEF IdsFit
    <3> QED
      BY <1>1, <3>1 DEF IdsUpTo
  <2>2. CASE m_template_id' = m_template_id + 1
    BY <1>1, <1>3, <2>2 DEF IdsUpTo
  <2> QED
    BY <2>1, <2>2, Zenon
<1>6. Before(c)' => TemplatesIn(q) = {}
  BY Zenon DEF IdsFit
<1> HIDE DEF q
<1> QED
  BY <1>2, <1>4, <1>5, <1>6, Zenon DEF IdsFit, q

\* SendWork to client c under an id that none of its templates has reached.
LEMMA IdSend ==
  ASSUME Inv, NEW c \in Clients, NEW id \in Nat, NEW t \in Template, NEW future \in BOOLEAN,
         m_send_messages'[c] = m_send_messages[c] \o Work(id, t, future),
         id <= m_template_id, IdsUpTo(m_send_messages[c], id - 1),
         UNCHANGED m_template_id, pc'[c] # "sendNext", ~Before(c)'
  PROVE  IdsFit(c)'
<1> DEFINE q == m_send_messages[c]
           r == q \o Work(id, t, future)
           n == Len(q) + 1
<1>1. q \in Seq(Message) /\ Len(q) \in Nat /\ m_template_id \in Nat
  BY LenProperties, Zenon DEF Inv, TypeOK, ClientTypeOK, CacheTypeOK
<1>2. /\ TemplatesIn(r) = TemplatesIn(q) \cup {n}
      /\ \A i \in TemplatesIn(q) : i \in 1..Len(q) /\ r[i] = q[i]
      /\ r[n].id = id
  <2>1. AddsTemplate(q, r, id, t)
    BY <1>1, WorkTemplates, Zenon
  <2> QED
    BY <2>1, Zenon DEF AddsTemplate
<1>3. \A i \in TemplatesIn(q) : q[i].id \in Nat
  BY QueueIds, Zenon
<1>4. m_send_messages'[c] = r
  BY Zenon
<1>5. IdsUpTo(q, id - 1)
  BY Zenon
<1> HIDE DEF q, r
<1>6. IdsUpTo(r, m_template_id)
  <2>1. \A i \in TemplatesIn(r) : r[i].id <= m_template_id
    BY <1>1, <1>2, <1>3, <1>5 DEF IdsUpTo
  <2>2. ASSUME NEW i \in TemplatesIn(r), NEW j \in TemplatesIn(r), i < j PROVE r[i].id < r[j].id
    <3>1. CASE j = n
      <4>1. i \in TemplatesIn(q)
        BY <1>1, <1>2, <2>2, <3>1
      <4>2. q[i].id \in Nat /\ q[i].id <= id - 1 /\ r[i].id = q[i].id /\ r[j].id = id
        BY <1>2, <1>3, <1>5, <3>1, <4>1, Zenon DEF IdsUpTo
      <4> QED
        BY <4>2
    <3>2. CASE i = n /\ j # n
      <4>1. j \in 1..Len(q)
        BY <1>2, <3>2, Zenon
      <4> QED
        BY <1>1, <2>2, <3>2, <4>1
    <3>3. CASE i # n /\ j # n
      BY <1>2, <1>5, <2>2, <3>3, Zenon DEF IdsUpTo
    <3> QED
      BY <3>1, <3>2, <3>3, Zenon
  <2> QED
    BY <2>1, <2>2, Zenon DEF IdsUpTo
<1> QED
  BY <1>4, <1>6, Zenon DEF IdsFit

\* A message that is not a template does not matter.
LEMMA IdReply ==
  ASSUME Inv, NEW c \in Clients, IdsFit(c), NEW m, m.type \notin TemplateMsgs,
         m_send_messages'[c] = Append(m_send_messages[c], m),
         UNCHANGED <<m_template_id, pc, block_template>>
  PROVE  IdsFit(c)'
<1> DEFINE q == m_send_messages[c]
           r == Append(q, m)
<1>1. q \in Seq(Message)
  BY Zenon DEF Inv, TypeOK, ClientTypeOK
<1>2. TemplatesIn(r) = TemplatesIn(q) /\ \A i \in TemplatesIn(q) : r[i] = q[i]
  BY <1>1, ReplyTemplates
<1>3. \A n : IdsUpTo(q, n) => IdsUpTo(r, n)
  BY <1>2, Zenon DEF IdsUpTo
<1>4. m_send_messages'[c] = r
  BY Zenon
<1> QED
  BY <1>2, <1>3, <1>4, Zenon DEF IdsFit, Before

\* A thread leaves the other threads alone; all it may do is count, and send to the client
\* whose id it has read.
LEMMA ThreadOthers ==
  ASSUME Inv, NEW d \in Clients, ClientThread(d), NEW c \in Clients \ {d}
  PROVE  /\ pc'[c] = pc[c] /\ block_template'[c] = block_template[c] /\ client_id'[c] = client_id[c]
         /\ template_id'[c] = template_id[c]
         /\ m_send_messages'[c] = m_send_messages[c] \/ (client_id[d] = c /\ pc[d] # "spawned")
         /\ m_template_id' \in {m_template_id, m_template_id + 1}
<1>0. /\ m_template_id \in Nat /\ pc \in [Clients -> Labels] /\ client_id \in [Clients -> Clients]
      /\ template_id \in [Clients -> Nat] /\ block_template \in [Clients -> Template \cup {NoTemplate}]
      /\ m_send_messages \in [Clients -> Seq(Message)]
  BY Zenon DEF Inv, TypeOK, CacheTypeOK, ThreadTypeOK, ClientTypeOK
<1> USE <1>0 DEF Goto, ThreadFrame, cacheVars, threadVars
<1>1. CASE ThreadStart(d) \/ ThreadExit(d) \/ LoopFirst(d) \/ ClientGone(d) \/ ThreadIpcFailure(d)
  BY <1>1, Zenon DEF ThreadStart, ThreadExit, LoopFirst, ClientGone, ThreadIpcFailure
<1>2. CASE ReserveTemplateId(d) \/ PrepareBlockCreateOptions(d) \/ CreateNewBlock(d)
  BY <1>2, Zenon DEF ReserveTemplateId, NextTemplateId, PrepareBlockCreateOptions, CreateNewBlock
<1>3. CASE CacheInitialTemplate(d) \/ CacheNextTemplate(d)
  BY <1>3, Zenon DEF CacheInitialTemplate, CacheNextTemplate, NextTemplateId
<1>4. CASE BeginWait(d) \/ WaitNextNothing(d) \/ WaitNextTemplate(d)
  BY <1>4, Zenon DEF BeginWait, WaitNextNothing, WaitNextTemplate
<1>5. CASE SendInitialTemplate(d) \/ SendNextTemplate(d)
  BY <1>5, ZenonT(30) DEF SendInitialTemplate, SendNextTemplate, Sent, SendWork
<1> QED
  BY <1>1, <1>2, <1>3, <1>4, <1>5, Zenon DEF ClientThread

\* Only the id of a thread that was spawned and has not started may change, a thread is
\* spawned once, and without reused memory no id changes.
LEMMA IdsRead ==
  ASSUME Inv, [Next]_vars, NEW d \in Clients
  PROVE  /\ pc[d] # "spawned" => client_id'[d] = client_id[d]
         /\ pc'[d] = "spawned" => pc[d] \in {"none", "spawned"}
         /\ pc'[d] = "none" => pc[d] = "none"
         /\ "reuse" \notin Faults => UNCHANGED client_id
<1>0. pc \in [Clients -> Labels] /\ client_id \in [Clients -> Clients]
  BY Zenon DEF Inv, TypeOK, ThreadTypeOK
<1>1. CASE UNCHANGED <<pc, client_id>>
  BY <1>1, Zenon
<1>2. ASSUME NEW e \in Clients, EventNewConnectionAccepted(e)
      PROVE  /\ UNCHANGED pc /\ (pc[d] # "spawned" => client_id'[d] = client_id[d])
             /\ "reuse" \notin Faults => UNCHANGED client_id
  BY <1>0, <1>2, Zenon DEF EventNewConnectionAccepted
<1>3. CASE SpawnClientThreads
  BY <1>0, <1>3, Zenon DEF SpawnClientThreads, threadVars
<1>4. ASSUME NEW e \in Clients, ClientThread(e)
      PROVE  UNCHANGED client_id /\ (pc'[d] = pc[d] \/ pc'[d] \notin {"none", "spawned"})
  <2> USE <1>0 DEF Goto, threadVars
  <2>1. CASE ThreadStart(e) \/ ThreadExit(e) \/ LoopFirst(e) \/ ClientGone(e) \/ ThreadIpcFailure(e)
    BY <2>1, Zenon DEF ThreadStart, ThreadExit, LoopFirst, ClientGone, ThreadIpcFailure
  <2>2. CASE ReserveTemplateId(e) \/ PrepareBlockCreateOptions(e) \/ CreateNewBlock(e)
    BY <2>2, Zenon DEF ReserveTemplateId, PrepareBlockCreateOptions, CreateNewBlock
  <2>3. CASE CacheInitialTemplate(e) \/ CacheNextTemplate(e)
    BY <2>3, Zenon DEF CacheInitialTemplate, CacheNextTemplate
  <2>4. CASE BeginWait(e) \/ WaitNextNothing(e) \/ WaitNextTemplate(e)
    BY <2>4, Zenon DEF BeginWait, WaitNextNothing, WaitNextTemplate
  <2>5. CASE SendInitialTemplate(e) \/ SendNextTemplate(e)
    BY <2>5, Zenon DEF SendInitialTemplate, SendNextTemplate, Sent
  <2> QED
    BY <1>4, <2>1, <2>2, <2>3, <2>4, <2>5, Zenon DEF ClientThread
<1>5. \/ UNCHANGED <<pc, client_id>> \/ SpawnClientThreads
      \/ \E e \in Clients : ClientThread(e) \/ EventNewConnectionAccepted(e)
  <2> USE DEF threadVars, CallFrame
  <2>1. CASE UNCHANGED vars
    BY <2>1, Zenon DEF vars
  <2>2. CASE Node
    BY <2>2, Zenon DEF Node, NewTip, Reorg, FeeRise, LeaveIBD, Tick
  <2>3. CASE Handler
    BY <2>3, Zenon DEF Handler, HandlerStart, HandlerIBD, PruneBlockTemplateCache, HandlerLeave, HandlerJoin
  <2>4. CASE Jobs
    BY <2>4, Zenon DEF Jobs, ReplyTransactionData, SubmitToNode, SubmitIpcFailure, SaveBlock
  <2>5. CASE Main
    BY <2>5, Zenon DEF Main, InterruptWaits, SetInterruptFlag, StopThreads
  <2>6. ASSUME NEW e \in Clients, Sockets(e), ~EventNewConnectionAccepted(e)
        PROVE  UNCHANGED <<pc, client_id>>
    BY <2>6, Zenon DEF Sockets, Call, CoinbaseOutputConstraints, FlagDisconnect, DisconnectFlagged,
       RequestTransactionData, SubmitSolution, RequestIpcFailure
  <2> QED
    BY <2>1, <2>2, <2>3, <2>4, <2>5, <2>6, Zenon DEF Next
<1> QED
  BY <1>1, <1>2, <1>3, <1>4, <1>5, Zenon

LEMMA OwnInit == Init => OwnIds
<1> SUFFICES ASSUME Init, NEW c \in Clients PROVE client_id[c] = c
  BY Zenon DEF OwnIds
<1> QED
  BY Zenon DEF Init

LEMMA OwnStep ==
  ASSUME "reuse" \notin Faults
  PROVE  Inv /\ OwnIds /\ [Next]_vars => OwnIds'
BY IdsRead, Zenon DEF OwnIds

\* One step for each action that changes a queue, the counter or a thread's place.
LEMMA IdStep == Inv /\ IdInv /\ [Next]_vars => IdInv'
<1>a. ASSUME Inv, IdInv, [Next]_vars, NEW c \in Clients
      PROVE  pc'[c] = "none" => client_id'[c] = c
  BY <1>a, IdsRead DEF IdInv
<1> SUFFICES ASSUME Inv, IdInv, [Next]_vars, NEW c \in Clients, ServedAlone(c)' PROVE IdsFit(c)'
  BY <1>a, Zenon DEF IdInv
<1>b. ServedAlone(c)
  <2> SUFFICES ASSUME NEW d \in Clients, client_id[d] = c, pc[d] # "spawned" PROVE d = c
    BY Zenon DEF ServedAlone
  <2>1. client_id'[d] = c /\ (pc'[d] = "spawned" => pc[d] = "none")
    BY IdsRead, Zenon
  <2> QED
    BY <2>1, Zenon DEF ServedAlone, IdInv
<1>c. IdsFit(c)
  BY <1>b, Zenon DEF IdInv
<1>0. /\ m_template_id \in Nat /\ pc \in [Clients -> Labels] /\ client_id \in [Clients -> Clients]
      /\ template_id \in [Clients -> Nat] /\ block_template \in [Clients -> Template \cup {NoTemplate}]
      /\ m_send_messages \in [Clients -> Seq(Message)] /\ future_template \in [Clients -> BOOLEAN]
      /\ \A d \in Clients : pc[d] \in Holding => block_template[d] \in Template
  BY Zenon DEF Inv, TypeOK, CacheTypeOK, ThreadTypeOK, ClientTypeOK, ThreadInv
<1>1. CASE UNCHANGED <<m_send_messages, m_template_id, pc, block_template>>
  <2>1. Quiet(c)
    BY <1>0, <1>1 DEF Quiet, Before
  <2> QED
    BY <2>1, <1>c, IdFrame, Zenon
<1>2. CASE SpawnClientThreads
  <2>1. Quiet(c)
    BY <1>0, <1>2 DEF Quiet, SpawnClientThreads, Before, cacheVars, clientVars, threadVars
  <2> QED
    BY <2>1, <1>c, IdFrame, Zenon
<1>3. CASE ReplyTransactionData
  <2> DEFINE m == Msg("TxData", job.id, job.tmpl)
  <2>1. m.type \notin TemplateMsgs
    BY Zenon DEF Msg, TemplateMsgs
  <2>2. /\ m_send_messages'[c] = m_send_messages[c] \/ m_send_messages'[c] = Append(m_send_messages[c], m)
        /\ UNCHANGED <<m_template_id, pc, block_template>>
    BY <1>0, <1>3, Zenon DEF ReplyTransactionData, Reply, CallFrame, cacheVars, threadVars
  <2>3. CASE m_send_messages'[c] = m_send_messages[c]
    BY <1>0, <2>2, <2>3, <1>c, IdFrame DEF Quiet, Before
  <2> QED
    BY <2>1, <2>2, <2>3, <1>c, IdReply, Zenon
<1>4. ASSUME NEW d \in Clients, NEW id \in 1..(m_template_id + 1), RequestTransactionData(d, id)
      PROVE  IdsFit(c)'
  <2>1. UNCHANGED <<m_template_id, pc, block_template>>
    BY <1>4, Zenon DEF RequestTransactionData, CallFrame, cacheVars, threadVars
  <2>2. \/ UNCHANGED m_send_messages
        \/ Reply(d, Msg("NotFound", id, NoTemplate))
        \/ Reply(d, Msg("Stale", id, m_block_template_cache[id]))
    BY <1>4, Zenon DEF RequestTransactionData
  <2>3. \/ m_send_messages'[c] = m_send_messages[c]
        \/ m_send_messages'[c] = Append(m_send_messages[c], Msg("NotFound", id, NoTemplate))
        \/ m_send_messages'[c] = Append(m_send_messages[c], Msg("Stale", id, m_block_template_cache[id]))
    BY <1>0, <2>2, ZenonT(30) DEF Reply
  <2>4. \A t : Msg("NotFound", id, t).type \notin TemplateMsgs /\ Msg("Stale", id, t).type \notin TemplateMsgs
    BY Zenon DEF Msg, TemplateMsgs
  <2>5. CASE m_send_messages'[c] = m_send_messages[c]
    BY <1>0, <2>1, <2>5, <1>c, IdFrame DEF Quiet, Before
  <2> QED
    BY <2>1, <2>3, <2>4, <2>5, <1>c, IdReply, Zenon
<1>5. ASSUME NEW d \in Clients, ClientThread(d), c # d PROVE IdsFit(c)'
  <2>0. ~(client_id[d] = c /\ pc[d] # "spawned")
    BY <1>b, <1>5, Zenon DEF ServedAlone
  <2>1. Quiet(c)
    BY <1>0, <1>5, <2>0, ThreadOthers DEF Quiet, Before
  <2> QED
    BY <2>1, <1>c, IdFrame, Zenon
<1>6. CASE ThreadStart(c) \/ ThreadExit(c) \/ LoopFirst(c) \/ ClientGone(c) \/ ThreadIpcFailure(c)
  <2>1. UNCHANGED <<m_send_messages, m_template_id, block_template>>
    BY <1>6, Zenon DEF ThreadStart, ThreadExit, LoopFirst, ClientGone, ThreadIpcFailure, cacheVars, threadVars
  <2>2. \/ pc'[c] = "done"
        \/ pc[c] = "spawned" /\ pc'[c] = "top"
        \/ pc[c] = "top" /\ block_template[c] = NoTemplate /\ pc'[c] = "reserve"
    BY <1>0, <1>6, Zenon DEF ThreadStart, ThreadExit, LoopFirst, ClientGone, ThreadIpcFailure, Goto
  <2>3. Quiet(c)
    BY <1>0, <2>1, <2>2 DEF Quiet, Before
  <2> QED
    BY <2>3, <1>c, IdFrame, Zenon
<1>7. CASE ReserveTemplateId(c) \/ PrepareBlockCreateOptions(c) \/ CreateNewBlock(c)
  <2>1. /\ UNCHANGED m_send_messages
        /\ m_template_id' \in {m_template_id, m_template_id + 1}
    BY <1>7, Zenon DEF ReserveTemplateId, PrepareBlockCreateOptions, CreateNewBlock, NextTemplateId, cacheVars, threadVars
  <2>2. pc'[c] \in {"options", "create", "cache", "done"} /\ pc[c] \in {"reserve", "options", "create"}
    BY <1>0, <1>7, Zenon DEF ReserveTemplateId, PrepareBlockCreateOptions, CreateNewBlock, Goto
  <2>3. Quiet(c)
    BY <1>0, <2>1, <2>2 DEF Quiet, Before
  <2> QED
    BY <2>3, <1>c, IdFrame, Zenon
<1>8. CASE CacheInitialTemplate(c) \/ CacheNextTemplate(c)
  <2>1. UNCHANGED m_send_messages
    BY <1>8, Zenon DEF CacheInitialTemplate, CacheNextTemplate, threadVars
  <2>2. \/ pc[c] = "cache" /\ pc'[c] = "send" /\ m_template_id' = m_template_id
        \/ pc'[c] = "sendNext" /\ m_template_id' = m_template_id + 1
    BY <1>0, <1>8, Zenon DEF CacheInitialTemplate, CacheNextTemplate, NextTemplateId, Goto
  <2>3. Quiet(c)
    BY <1>0, <2>1, <2>2 DEF Quiet, Before
  <2> QED
    BY <2>3, <1>c, IdFrame, Zenon
<1>9. CASE BeginWait(c) \/ WaitNextNothing(c) \/ WaitNextTemplate(c)
  <2>1. UNCHANGED <<m_send_messages, m_template_id>>
    BY <1>9, Zenon DEF BeginWait, WaitNextNothing, WaitNextTemplate, cacheVars, threadVars
  <2>2. \/ pc'[c] \in {"wait", "cacheNext", "done"}
        \/ pc[c] = "wait" /\ pc'[c] = "top" /\ UNCHANGED block_template
    BY <1>0, <1>9, Zenon DEF BeginWait, WaitNextNothing, WaitNextTemplate, Goto, threadVars
  <2>3. pc[c] = "wait" => block_template[c] # NoTemplate
    BY <1>0, ConstantsOK, Zenon DEF Holding
  <2>4. Quiet(c)
    BY <1>0, <2>1, <2>2, <2>3 DEF Quiet, Before
  <2> QED
    BY <2>4, <1>c, IdFrame, Zenon
<1>10. CASE SendInitialTemplate(c) \/ SendNextTemplate(c)
  <2> DEFINE id == IF pc[c] = "send" THEN template_id[c] ELSE m_template_id
             future == IF pc[c] = "send" THEN TRUE ELSE future_template[c]
             t == block_template[c]
  <2>1. /\ pc[c] = "send" \/ pc[c] = "sendNext"
        /\ SendWork(client_id[c], id, t, future)
    BY <1>0, <1>10, Zenon DEF SendInitialTemplate, SendNextTemplate, InitialTemplateId
  <2>2. /\ pc'[c] \in {"trigger", "top", "done"}
        /\ UNCHANGED <<m_template_id, block_template>>
    BY <1>0, <1>10, Zenon DEF SendInitialTemplate, SendNextTemplate, Sent, Goto, cacheVars
  <2>3. pc'[c] = "top" => pc[c] = "sendNext"
    BY <1>0, <1>10, Zenon DEF SendInitialTemplate, SendNextTemplate, Sent, Goto
  <2>4. t \in Template /\ t # NoTemplate /\ id \in Nat /\ id <= m_template_id
    BY <1>0, <2>1, ConstantsOK DEF Holding, Reserved, Inv, ThreadInv
  <2>5. future \in BOOLEAN
    BY <1>0, Zenon
  <2>6. IdsUpTo(m_send_messages[c], id - 1)
    BY <1>c, <2>1, Zenon DEF IdsFit, IdsUpTo, Before
  <2>7. ~Before(c)'
    BY <2>2, <2>3, <2>4, Zenon DEF Before
  <2>8. m_send_messages'[c] = m_send_messages[c] \/ m_send_messages'[c] = m_send_messages[c] \o Work(id, t, future)
    <3>1. \/ UNCHANGED m_send_messages
          \/ m_send_messages' = [m_send_messages EXCEPT ![client_id[c]] = @ \o Work(id, t, future)]
      BY <2>1, Zenon DEF SendWork
    <3> HIDE DEF id, t, future
    <3> QED
      BY <1>0, <3>1, Zenon
  <2> HIDE DEF id, t, future
  <2>9. CASE m_send_messages'[c] = m_send_messages[c]
    <3>1. Quiet(c)
      BY <1>0, <2>2, <2>7, <2>9 DEF Quiet
    <3> QED
      BY <1>c, <3>1, IdFrame, Zenon
  <2> QED
    BY <1>0, <2>2, <2>4, <2>5, <2>6, <2>7, <2>8, <2>9, IdSend, Zenon
<1>11. CASE \E d \in Clients : ClientThread(d)
  BY <1>5, <1>6, <1>7, <1>8, <1>9, <1>10, <1>11, Zenon DEF ClientThread
<1>12. \/ UNCHANGED <<m_send_messages, m_template_id, pc, block_template>>
       \/ SpawnClientThreads \/ ReplyTransactionData
       \/ \E d \in Clients : \/ ClientThread(d)
                             \/ \E id \in 1..(m_template_id + 1) : RequestTransactionData(d, id)
  <2> USE DEF nodeVars, cacheVars, threadVars, clientVars, CallFrame
  <2>1. CASE UNCHANGED vars
    BY <2>1, Zenon DEF vars
  <2>2. CASE Node
    BY <2>2, Zenon DEF Node, NewTip, Reorg, FeeRise, LeaveIBD, Tick
  <2>3. CASE Handler
    BY <2>3, Zenon DEF Handler, HandlerStart, HandlerIBD, PruneBlockTemplateCache, HandlerLeave, HandlerJoin
  <2>4. CASE Jobs
    BY <2>4, Zenon DEF Jobs, SubmitToNode, SubmitIpcFailure, SaveBlock
  <2>5. CASE Main
    BY <2>5, Zenon DEF Main, InterruptWaits, SetInterruptFlag, StopThreads
  <2>6. ASSUME NEW d \in Clients, Sockets(d), \A id \in 1..(m_template_id + 1) : ~RequestTransactionData(d, id)
        PROVE  UNCHANGED <<m_send_messages, m_template_id, pc, block_template>>
    BY <2>6, Zenon DEF Sockets, Call, EventNewConnectionAccepted, CoinbaseOutputConstraints, FlagDisconnect,
       DisconnectFlagged, SubmitSolution, RequestIpcFailure
  <2> QED
    BY <2>1, <2>2, <2>3, <2>4, <2>5, <2>6, Zenon DEF Next
<1> QED
  BY <1>1, <1>2, <1>3, <1>4, <1>11, <1>12, Zenon

\* For any number of clients, blocks and fee updates, and whatever fails: the ids of the
\* templates a client is sent strictly increase, although SendWork reads the counter again
\* after other threads may have incremented it.  That another client was given the memory
\* of a removed one disturbs only the client which two threads then serve.
THEOREM TemplateIdsCorrect == Spec => []TemplateIdsIncrease
<1>1. IdInv => TemplateIdsIncrease
  BY Zenon DEF IdInv, IdsFit, IdsUpTo, TemplateIdsIncrease
<1> QED
  BY <1>1, TypeInit, TypeStep, IdInit, IdStep, PTL DEF Spec
=============================================================================
