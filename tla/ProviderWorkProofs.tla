------------------------- MODULE ProviderWorkProofs -------------------------
(***************************************************************************)
(* What a client can do with its work, for any number of clients and       *)
(* blocks and any clock: a job that is not a future one is for the last    *)
(* prevhash the client was sent.                                           *)
(***************************************************************************)
EXTENDS ProviderServiceProofs

-----------------------------------------------------------------------------
(* Hashes. *)

\* What a client thread knows of blocks.
hashVars == <<m_best_prev_hash, prev_hash, future_template>>

\* Without reorganisations the tip only grows; only client threads note it.
LEMMA TipSteps ==
  ASSUME Inv, "reorg" \notin Faults, [Next]_vars
  PROVE  /\ tip \in Nat /\ tip' \in Nat /\ tip <= tip'
         /\ \/ UNCHANGED hashVars
            \/ \E d \in Clients : ClientThread(d) /\ UNCHANGED tip
<1>0. tip \in Nat /\ top \in Nat /\ tip <= top
  BY ConstantsOK DEF Inv, TypeOK, NodeTypeOK
<1>1. /\ UNCHANGED tip \/ tip' = top + 1
      /\ \/ UNCHANGED hashVars
         \/ \E d \in Clients : ClientThread(d) /\ UNCHANGED tip
  <2> USE DEF nodeVars, cacheVars, threadVars, CallFrame, hashVars
  <2>1. CASE UNCHANGED vars
    BY <2>1, Zenon DEF vars
  <2>2. CASE Node
    BY <2>2, Zenon DEF Node, NewTip, Reorg, FeeRise, LeaveIBD, Tick
  <2>3. CASE Handler
    BY <2>3, Zenon DEF Handler, HandlerStart, HandlerIBD, SpawnClientThreads, PruneBlockTemplateCache, HandlerLeave,
       HandlerJoin
  <2>4. CASE Jobs
    BY <2>4, Zenon DEF Jobs, ReplyTransactionData, SubmitToNode, SubmitIpcFailure, SaveBlock
  <2>5. CASE Main
    BY <2>5, Zenon DEF Main, InterruptWaits, SetInterruptFlag, StopThreads
  <2>6. ASSUME NEW d \in Clients, Sockets(d) PROVE UNCHANGED tip /\ UNCHANGED hashVars
    BY <2>6, Zenon DEF Sockets, Call, EventNewConnectionAccepted, CoinbaseOutputConstraints, FlagDisconnect,
       DisconnectFlagged, SubmitSolution, RequestIpcFailure, RequestTransactionData
  <2>7. ASSUME NEW d \in Clients, ClientThread(d) PROVE UNCHANGED tip
    BY <2>7, Zenon DEF ClientThread, ThreadStart, ThreadExit, LoopFirst, ReserveTemplateId, PrepareBlockCreateOptions,
       CreateNewBlock, CacheInitialTemplate, SendInitialTemplate, BeginWait, WaitNextNothing, WaitNextTemplate,
       CacheNextTemplate, SendNextTemplate, ClientGone, ThreadIpcFailure, ThreadFrame
  <2> QED
    BY <2>1, <2>2, <2>3, <2>4, <2>5, <2>6, <2>7, Zenon DEF Next
<1> QED
  BY <1>0, <1>1

\* A thread's place does not change, or it is started.
LEMMA PlaceSteps ==
  ASSUME [Next]_vars, NEW c \in Clients
  PROVE  \/ /\ pc'[c] = pc[c] \/ (pc[c] = "none" /\ pc'[c] = "spawned")
            /\ UNCHANGED block_template
         \/ \E d \in Clients : ClientThread(d)
<1>1. CASE SpawnClientThreads
  BY <1>1, Zenon DEF SpawnClientThreads, threadVars
<1>2. CASE PruneBlockTemplateCache \/ ReplyTransactionData
  BY <1>2, Zenon DEF PruneBlockTemplateCache, ReplyTransactionData, CallFrame, threadVars
<1>3. ASSUME NEW e \in Clients, NEW id \in 1..(m_template_id + 1), RequestTransactionData(e, id)
      PROVE  UNCHANGED <<pc, block_template>>
  BY <1>3, Zenon DEF RequestTransactionData, CallFrame, threadVars
<1> QED
  BY <1>1, <1>2, <1>3, OtherSteps, Zenon DEF workVars

\* The hashes of one thread.
LEMMA HashTypes ==
  ASSUME Inv, NEW c \in Clients
  PROVE  /\ m_best_prev_hash \in Nat /\ prev_hash[c] \in Nat /\ tip \in Nat
         /\ pc[c] \in Holding => block_template[c].prev \in Nat
         /\ ~Before(c) /\ pc[c] # "done" => block_template[c] \in Template /\ block_template[c].prev \in Nat
         /\ \A i \in DOMAIN m_block_template_cache : m_block_template_cache[i].prev \in Nat
<1>1. Hash \subseteq Nat /\ tip \in Nat
  BY ConstantsOK DEF Inv, TypeOK, NodeTypeOK, Hash
<1>2. /\ m_best_prev_hash \in Hash /\ prev_hash[c] \in Hash
      /\ block_template[c] \in Template \cup {NoTemplate} /\ pc[c] \in Labels
      /\ pc[c] \in Holding => block_template[c] \in Template
      /\ \A i \in DOMAIN m_block_template_cache : m_block_template_cache[i] \in Template
  BY Zenon DEF Inv, TypeOK, CacheTypeOK, ThreadTypeOK, ThreadInv
<1>3. \A t \in Template : t.prev \in Hash
  BY Zenon DEF Template
<1>4. ~Before(c) /\ pc[c] # "done" => block_template[c] \in Template
  BY <1>2, Zenon DEF Before, Holding, Labels
<1> QED
  BY <1>1, <1>2, <1>3, <1>4, Zenon

-----------------------------------------------------------------------------
(* Jobs and prevhashes. *)

\* Every job in q that is not a future one is for the last prevhash before it.
JobsMatch(q) ==
  \A i \in DOMAIN q : q[i].type = "NewTemplate" =>
    \E j \in PrevHashesIn(q) : /\ j < i /\ q[j].tmpl.prev = q[i].tmpl.prev
                               /\ \A k \in PrevHashesIn(q) : k < i => k <= j

\* The last prevhash in q is h.
LastHash(q, h) == \E j \in PrevHashesIn(q) : q[j].tmpl.prev = h /\ \A k \in PrevHashesIn(q) : k <= j

\* r is q, possibly with more messages that are neither jobs nor prevhashes.
SameJobs(q, r) ==
  /\ PrevHashesIn(q) = {} => PrevHashesIn(r) = {}
  /\ JobsMatch(q) => JobsMatch(r)
  /\ \A h : LastHash(q, h) => LastHash(r, h)

\* Before its first template a client has no prevhash.  From then on, the last one it was
\* sent lies between the block the thread started on and the one of the template it
\* holds; so it is the latter when the two are the same, and only then is a job not sent
\* as a future one.
JobsInvOf(c) ==
  /\ Before(c) => PrevHashesIn(m_send_messages[c]) = {}
  /\ JobsMatch(m_send_messages[c])
  /\ pc[c] \in {"cache", "send"} => prev_hash[c] = block_template[c].prev /\ block_template[c].prev <= tip
  /\ pc[c] = "sendNext" /\ ~future_template[c] => block_template[c].prev = prev_hash[c]
  /\ Begun(c) =>
       /\ block_template[c].prev <= tip
       /\ \E h \in Hash : /\ LastHash(m_send_messages[c], h)
                          /\ prev_hash[c] <= h /\ h <= block_template[c].prev

JobsInv == \A c \in Clients : JobsInvOf(c)

LEMMA AppendAny ==
  ASSUME NEW q \in Seq(Message), NEW m, NEW r, r = Append(q, m)
  PROVE  /\ Len(q) \in Nat /\ DOMAIN q = 1..Len(q) /\ r[Len(q) + 1] = m
         /\ \A i \in DOMAIN q : r[i] = q[i] /\ i \in DOMAIN r /\ i < Len(q) + 1 /\ i # Len(q) + 1
         /\ \A i \in DOMAIN r : i \in DOMAIN q \/ i = Len(q) + 1
         /\ Len(q) + 1 \in DOMAIN r /\ ~(Len(q) + 1 < Len(q) + 1)
<1>1. Len(q) \in Nat /\ DOMAIN q = 1..Len(q)
  BY LenProperties, Zenon
<1>2. DOMAIN r = 1..(Len(q) + 1) /\ r[Len(q) + 1] = m
  BY <1>1
<1>3. \A i \in 1..Len(q) : r[i] = q[i]
  BY <1>1
<1>4. \A i \in DOMAIN r : i \in 1..Len(q) \/ i = Len(q) + 1
  BY <1>1, <1>2
<1>5. \A i \in 1..Len(q) : i \in DOMAIN r /\ i < Len(q) + 1 /\ i # Len(q) + 1
  BY <1>1, <1>2
<1>6. Len(q) + 1 \in DOMAIN r /\ ~(Len(q) + 1 < Len(q) + 1)
  BY <1>1, <1>2
<1> QED
  BY <1>1, <1>2, <1>3, <1>4, <1>5, <1>6, Zenon

\* Appending a message that is neither.
LEMMA AppendOther ==
  ASSUME NEW q \in Seq(Message), NEW m, m.type \notin {"NewTemplate", "SetNewPrevHash"},
         NEW r, r = Append(q, m)
  PROVE  SameJobs(q, r)
<1>1. /\ \A i \in DOMAIN q : r[i] = q[i] /\ i \in DOMAIN r
      /\ \A i \in DOMAIN r : i \in DOMAIN q \/ (i = Len(q) + 1 /\ r[i] = m)
  BY AppendAny
<1>2. PrevHashesIn(r) = PrevHashesIn(q) /\ \A i \in PrevHashesIn(q) : r[i] = q[i]
  BY <1>1, Zenon DEF PrevHashesIn
<1>3. JobsMatch(q) => JobsMatch(r)
  <2> SUFFICES ASSUME JobsMatch(q), NEW i \in DOMAIN r, r[i].type = "NewTemplate"
               PROVE  \E j \in PrevHashesIn(r) : /\ j < i /\ r[j].tmpl.prev = r[i].tmpl.prev
                                                 /\ \A k \in PrevHashesIn(r) : k < i => k <= j
    BY Zenon DEF JobsMatch
  <2>1. i \in DOMAIN q /\ r[i] = q[i]
    BY <1>1, Zenon
  <2>2. PICK j \in PrevHashesIn(q) : /\ j < i /\ q[j].tmpl.prev = q[i].tmpl.prev
                                     /\ \A k \in PrevHashesIn(q) : k < i => k <= j
    BY <2>1, Zenon DEF JobsMatch
  <2> QED
    BY <1>2, <2>1, <2>2, Zenon
<1> QED
  BY <1>2, <1>3, Zenon DEF SameJobs, LastHash

\* Appending a job for the last prevhash.
LEMMA AppendJob ==
  ASSUME NEW q \in Seq(Message), NEW m, m.type = "NewTemplate", LastHash(q, m.tmpl.prev),
         NEW r, r = Append(q, m)
  PROVE  SameJobs(q, r)
<1>1. /\ \A i \in DOMAIN q : r[i] = q[i] /\ i \in DOMAIN r /\ i < Len(q) + 1
      /\ \A i \in DOMAIN r : i \in DOMAIN q \/ (i = Len(q) + 1 /\ r[i] = m)
  BY AppendAny
<1>2. PrevHashesIn(r) = PrevHashesIn(q) /\ \A i \in PrevHashesIn(q) : r[i] = q[i] /\ i \in DOMAIN q
  BY <1>1, Zenon DEF PrevHashesIn
<1>3. JobsMatch(q) => JobsMatch(r)
  <2> SUFFICES ASSUME JobsMatch(q), NEW i \in DOMAIN r, r[i].type = "NewTemplate"
               PROVE  \E j \in PrevHashesIn(r) : /\ j < i /\ r[j].tmpl.prev = r[i].tmpl.prev
                                                 /\ \A k \in PrevHashesIn(r) : k < i => k <= j
    BY Zenon DEF JobsMatch
  <2>1. CASE i \in DOMAIN q
    <3>1. PICK j \in PrevHashesIn(q) : /\ j < i /\ q[j].tmpl.prev = q[i].tmpl.prev
                                       /\ \A k \in PrevHashesIn(q) : k < i => k <= j
      BY <1>1, <2>1, Zenon DEF JobsMatch
    <3> QED
      BY <1>1, <1>2, <2>1, <3>1, Zenon
  <2>2. CASE i = Len(q) + 1 /\ r[i] = m
    <3>1. PICK j \in PrevHashesIn(q) : q[j].tmpl.prev = m.tmpl.prev /\ \A k \in PrevHashesIn(q) : k <= j
      BY Zenon DEF LastHash
    <3> QED
      BY <1>1, <1>2, <2>2, <3>1, Zenon
  <2> QED
    BY <1>1, <2>1, <2>2, Zenon
<1> QED
  BY <1>2, <1>3, Zenon DEF SameJobs, LastHash

\* Appending a prevhash.
LEMMA AppendHash ==
  ASSUME NEW q \in Seq(Message), NEW m, m.type = "SetNewPrevHash", NEW r, r = Append(q, m)
  PROVE  LastHash(r, m.tmpl.prev) /\ (JobsMatch(q) => JobsMatch(r))
<1> DEFINE n == Len(q) + 1
<1>1. /\ \A i \in DOMAIN q : r[i] = q[i] /\ i \in DOMAIN r /\ i # n
      /\ \A i \in DOMAIN r : i \in DOMAIN q \/ i = n
      /\ n \in DOMAIN r /\ r[n] = m
  BY AppendAny
<1>2. DOMAIN q = 1..Len(q) /\ Len(q) \in Nat
  BY AppendAny, Zenon
<1>3. n <= n /\ \A i \in DOMAIN q : i <= n /\ ~(n < i)
  BY <1>2
<1> HIDE DEF n
<1>4. /\ PrevHashesIn(r) = PrevHashesIn(q) \cup {n} /\ \A i \in PrevHashesIn(q) : i \in DOMAIN q /\ r[i] = q[i]
  BY <1>1, Zenon DEF PrevHashesIn
<1>5. LastHash(r, m.tmpl.prev)
  BY <1>1, <1>3, <1>4, Zenon DEF LastHash
<1>6. JobsMatch(q) => JobsMatch(r)
  <2> SUFFICES ASSUME JobsMatch(q), NEW i \in DOMAIN r, r[i].type = "NewTemplate"
               PROVE  \E j \in PrevHashesIn(r) : /\ j < i /\ r[j].tmpl.prev = r[i].tmpl.prev
                                                 /\ \A k \in PrevHashesIn(r) : k < i => k <= j
    BY Zenon DEF JobsMatch
  <2>1. i \in DOMAIN q /\ r[i] = q[i]
    BY <1>1, Zenon
  <2>2. PICK j \in PrevHashesIn(q) : /\ j < i /\ q[j].tmpl.prev = q[i].tmpl.prev
                                     /\ \A k \in PrevHashesIn(q) : k < i => k <= j
    BY <2>1, Zenon DEF JobsMatch
  <2> QED
    BY <1>3, <1>4, <2>1, <2>2, Zenon
<1> QED
  BY <1>5, <1>6, Zenon

\* The messages of one SendWork call.
LEMMA AppendWork ==
  ASSUME NEW q \in Seq(Message), NEW id \in Nat, NEW t \in Template, NEW future \in BOOLEAN,
         ~future => LastHash(q, t.prev), NEW r, r = q \o Work(id, t, future)
  PROVE  /\ JobsMatch(q) => JobsMatch(r)
         /\ future => LastHash(r, t.prev)
         /\ ~future => \A h : LastHash(q, h) => LastHash(r, h)
<1>1. CASE future
  <2> DEFINE a == Msg("NewFutureTemplate", id, t)
             b == Msg("SetNewPrevHash", id, t)
             p == Append(q, a)
  <2>1. a \in Message /\ b \in Message
    BY MsgType, Zenon DEF TemplateMsgs
  <2>2. a.type \notin {"NewTemplate", "SetNewPrevHash"} /\ b.type = "SetNewPrevHash" /\ b.tmpl = t
    BY Zenon DEF Msg
  <2>3. r = q \o <<a, b>>
    BY <1>1, Zenon DEF Work
  <2> HIDE DEF a, b
  <2>4. p \in Seq(Message) /\ r = Append(p, b)
    BY <2>1, <2>3
  <2>5. SameJobs(q, p)
    BY <2>2, AppendOther, Zenon
  <2>6. LastHash(r, b.tmpl.prev) /\ (JobsMatch(p) => JobsMatch(r))
    <3> HIDE DEF p
    <3> QED
      BY <2>2, <2>4, AppendHash, Zenon
  <2> QED
    BY <1>1, <2>2, <2>5, <2>6, Zenon DEF SameJobs
<1>2. CASE ~future
  <2> DEFINE a == Msg("NewTemplate", id, t)
  <2>1. a.type = "NewTemplate" /\ a.tmpl = t /\ r = q \o <<a>>
    BY <1>2, Zenon DEF Msg, Work
  <2> HIDE DEF a
  <2>2. r = Append(q, a)
    BY <2>1
  <2>3. LastHash(q, a.tmpl.prev)
    BY <1>2, <2>1, Zenon
  <2>4. SameJobs(q, r)
    BY <2>1, <2>2, <2>3, AppendJob, Zenon
  <2> QED
    BY <1>2, <2>4, Zenon DEF SameJobs
<1> QED
  BY <1>1, <1>2, Zenon

\* A step that leaves what matters for c's jobs alone.
JobQuiet(c) ==
  /\ SameJobs(m_send_messages[c], m_send_messages'[c])
  /\ prev_hash'[c] = prev_hash[c] /\ block_template'[c] = block_template[c]
  /\ tip' \in Nat /\ tip <= tip'
  /\ Before(c)' => Before(c)
  /\ Begun(c)' => Begun(c)
  /\ pc'[c] \in {"cache", "send"} => pc[c] \in {"cache", "send"}
  /\ pc'[c] = "sendNext" => pc[c] = "sendNext" /\ future_template'[c] = future_template[c]

LEMMA JobFrame ==
  ASSUME Inv, JobsInv, NEW c \in Clients, JobQuiet(c)
  PROVE  JobsInvOf(c)'
<1>0. /\ tip \in Nat
      /\ pc[c] \in {"cache", "send"} => block_template[c].prev \in Nat
      /\ Begun(c) => block_template[c].prev \in Nat
  BY HashTypes, Zenon DEF Holding, Begun
<1>1. \A n \in Nat : n <= tip => n <= tip'
  BY <1>0 DEF JobQuiet
<1>2. JobsInvOf(c)
  BY Zenon DEF JobsInv
<1>3. Before(c)' => PrevHashesIn(m_send_messages'[c]) = {}
  BY <1>2, Zenon DEF JobsInvOf, JobQuiet, SameJobs
<1>4. JobsMatch(m_send_messages'[c])
  BY <1>2, Zenon DEF JobsInvOf, JobQuiet, SameJobs
<1>5. /\ pc'[c] \in {"cache", "send"} =>
           prev_hash'[c] = block_template'[c].prev /\ block_template'[c].prev <= tip'
      /\ pc'[c] = "sendNext" /\ ~future_template'[c] => block_template'[c].prev = prev_hash'[c]
  BY <1>0, <1>1, <1>2, Zenon DEF JobsInvOf, JobQuiet
<1>6. Begun(c)' => /\ block_template'[c].prev <= tip'
                   /\ \E h \in Hash : /\ LastHash(m_send_messages'[c], h)
                                      /\ prev_hash'[c] <= h /\ h <= block_template'[c].prev
  BY <1>0, <1>1, <1>2, Zenon DEF JobsInvOf, JobQuiet, SameJobs
<1> QED
  BY <1>3, <1>4, <1>5, <1>6, Zenon DEF JobsInvOf

\* Only a thread sends jobs and prevhashes.
LEMMA JobQueues ==
  ASSUME Inv, [Next]_vars, NEW c \in Clients
  PROVE  SameJobs(m_send_messages[c], m_send_messages'[c]) \/ \E d \in Clients : ClientThread(d)
<1>0. m_send_messages \in [Clients -> Seq(Message)]
  BY Zenon DEF Inv, TypeOK, ClientTypeOK
<1>1. ASSUME m_send_messages'[c] = m_send_messages[c] PROVE SameJobs(m_send_messages[c], m_send_messages'[c])
  BY <1>1, Zenon DEF SameJobs
<1>2. ASSUME NEW type \in {"TxData", "NotFound", "Stale"}, NEW id, NEW t,
             m_send_messages'[c] = Append(m_send_messages[c], Msg(type, id, t))
      PROVE  SameJobs(m_send_messages[c], m_send_messages'[c])
  <2>1. Msg(type, id, t).type \notin {"NewTemplate", "SetNewPrevHash"} /\ m_send_messages[c] \in Seq(Message)
    BY <1>0, Zenon DEF Msg
  <2> QED
    BY <1>2, <2>1, AppendOther, Zenon
<1>3. CASE ReplyTransactionData
  <2>1. \/ m_send_messages'[c] = m_send_messages[c]
        \/ m_send_messages'[c] = Append(m_send_messages[c], Msg("TxData", job.id, job.tmpl))
    BY <1>0, <1>3, Zenon DEF ReplyTransactionData, Reply
  <2> QED
    BY <1>1, <1>2, <2>1, Zenon
<1>4. ASSUME NEW d \in Clients, NEW id \in 1..(m_template_id + 1), RequestTransactionData(d, id)
      PROVE  SameJobs(m_send_messages[c], m_send_messages'[c])
  <2>1. \/ UNCHANGED m_send_messages
        \/ Reply(d, Msg("NotFound", id, NoTemplate))
        \/ Reply(d, Msg("Stale", id, m_block_template_cache[id]))
    BY <1>4, Zenon DEF RequestTransactionData
  <2>2. \/ m_send_messages'[c] = m_send_messages[c]
        \/ m_send_messages'[c] = Append(m_send_messages[c], Msg("NotFound", id, NoTemplate))
        \/ m_send_messages'[c] = Append(m_send_messages[c], Msg("Stale", id, m_block_template_cache[id]))
    BY <1>0, <2>1, ZenonT(30) DEF Reply
  <2> QED
    BY <1>1, <1>2, <2>2, Zenon
<1>5. CASE PruneBlockTemplateCache \/ SpawnClientThreads \/ UNCHANGED workVars
  BY <1>1, <1>5, Zenon DEF PruneBlockTemplateCache, SpawnClientThreads, clientVars, workVars
<1> QED
  BY <1>3, <1>4, <1>5, OtherSteps, Zenon

\* SendWork to client c.
LEMMA JobSend ==
  ASSUME Inv, OwnIds, JobsInv, ~Signet, NEW c \in Clients, SendInitialTemplate(c) \/ SendNextTemplate(c)
  PROVE  JobsInvOf(c)'
<1> DEFINE q == m_send_messages[c]
           r == m_send_messages'[c]
           t == block_template[c]
           future == IF pc[c] = "send" THEN TRUE ELSE future_template[c]
<1>0. /\ m_send_messages \in [Clients -> Seq(Message)] /\ client_id[c] = c /\ pc \in [Clients -> Labels]
      /\ template_id[c] \in Nat /\ m_template_id \in Nat /\ t \in Template /\ future \in BOOLEAN
      /\ pc[c] = "send" \/ pc[c] = "sendNext"
  BY Zenon DEF Inv, TypeOK, CacheTypeOK, ThreadTypeOK, ClientTypeOK, ThreadInv, SendInitialTemplate, SendNextTemplate,
     Holding, OwnIds
<1>1. \E id \in Nat : m_send_messages' = [m_send_messages EXCEPT ![c] = @ \o Work(id, t, future)]
  BY <1>0, Zenon DEF SendInitialTemplate, SendNextTemplate, SendWork, InitialTemplateId
<1>2. PICK id \in Nat : r = q \o Work(id, t, future)
  <2> HIDE DEF future, t
  <2> QED
    BY <1>0, <1>1, Zenon
<1>3. /\ UNCHANGED <<prev_hash, block_template, tip>> /\ pc'[c] \in {"trigger", "top", "done"}
  BY <1>0, Zenon DEF SendInitialTemplate, SendNextTemplate, Sent, Goto, ThreadFrame, nodeVars
<1>4. JobsInvOf(c) /\ t.prev \in Hash /\ t.prev \in Nat /\ prev_hash[c] \in Nat /\ tip \in Nat
  <2>1. t.prev \in Hash
    BY <1>0, Zenon DEF Template
  <2> QED
    BY <1>0, <2>1, HashTypes, Zenon DEF JobsInv, Holding
<1>5. prev_hash[c] <= t.prev /\ t.prev <= tip
  <2>1. CASE pc[c] = "send"
    BY <1>4, <2>1 DEF JobsInvOf
  <2>2. CASE pc[c] = "sendNext"
    <3>1. Begun(c)
      BY <2>2, Zenon DEF Begun, Before
    <3>2. PICK h \in Hash : prev_hash[c] <= h /\ h <= t.prev /\ t.prev <= tip
      BY <1>4, <3>1, Zenon DEF JobsInvOf
    <3>3. h \in Nat
      BY ConstantsOK DEF Hash
    <3> QED
      BY <1>4, <3>2, <3>3
  <2> QED
    BY <1>0, <2>1, <2>2, Zenon
<1>6. ~future => LastHash(q, t.prev) /\ t.prev = prev_hash[c]
  <2> SUFFICES ASSUME ~future PROVE LastHash(q, t.prev) /\ t.prev = prev_hash[c]
    OBVIOUS
  <2>1. pc[c] = "sendNext" /\ t.prev = prev_hash[c] /\ Begun(c)
    BY <1>0, <1>4, Zenon DEF JobsInvOf, Begun, Before
  <2>2. PICK h \in Hash : LastHash(q, h) /\ prev_hash[c] <= h /\ h <= t.prev
    BY <1>4, <2>1, Zenon DEF JobsInvOf
  <2>3. h \in Nat
    BY ConstantsOK DEF Hash
  <2>4. h = t.prev
    BY <1>4, <2>1, <2>2, <2>3
  <2> QED
    BY <2>1, <2>2, <2>4, Zenon
<1> HIDE DEF future
<1>7. /\ JobsMatch(r) /\ LastHash(r, t.prev)
  <2>1. JobsMatch(q) => JobsMatch(r)
    BY <1>0, <1>2, <1>6, AppendWork, Zenon
  <2>2. LastHash(r, t.prev)
    BY <1>0, <1>2, <1>6, AppendWork, Zenon
  <2> QED
    BY <1>4, <2>1, <2>2, Zenon DEF JobsInvOf
<1>8. ~Before(c)'
  <2>1. t # NoTemplate
    BY <1>0, ConstantsOK, Zenon
  <2> QED
    BY <1>3, <2>1, Zenon DEF Before
<1>9. t.prev <= t.prev
  BY <1>4
<1> QED
  BY <1>3, <1>4, <1>5, <1>7, <1>8, <1>9, Zenon DEF JobsInvOf

\* The other steps of c's thread.
LEMMA JobThread ==
  ASSUME Inv, FreshInv, JobsInv, NEW c \in Clients, ClientThread(c),
         ~SendInitialTemplate(c), ~SendNextTemplate(c)
  PROVE  JobsInvOf(c)'
<1>0. /\ pc \in [Clients -> Labels] /\ block_template \in [Clients -> Template \cup {NoTemplate}]
      /\ prev_hash \in [Clients -> Hash] /\ future_template \in [Clients -> BOOLEAN]
      /\ pc[c] \in Holding => block_template[c] \in Template
      /\ m_send_messages \in [Clients -> Seq(Message)]
  BY Zenon DEF Inv, TypeOK, ThreadTypeOK, ClientTypeOK, ThreadInv
<1>1. /\ UNCHANGED <<tip, m_send_messages>> /\ tip \in Nat /\ tip <= tip
  <2>1. UNCHANGED <<tip, m_send_messages>>
    BY Zenon DEF ClientThread, ThreadStart, ThreadExit, LoopFirst, ReserveTemplateId, PrepareBlockCreateOptions,
       CreateNewBlock, CacheInitialTemplate, BeginWait, WaitNextNothing, WaitNextTemplate,
       CacheNextTemplate, ClientGone, ThreadIpcFailure, ThreadFrame, nodeVars
  <2>2. tip \in Nat
    BY HashTypes, Zenon
  <2>3. tip <= tip
    BY <2>2
  <2> QED
    BY <2>1, <2>2, <2>3, Zenon
<1>2. SameJobs(m_send_messages[c], m_send_messages'[c])
  BY <1>1, Zenon DEF SameJobs
<1>3. CASE /\ UNCHANGED <<prev_hash, block_template>>
           /\ \/ pc'[c] = "done"
              \/ pc[c] = "spawned" /\ pc'[c] = "top"
              \/ pc[c] = "top" /\ block_template[c] = NoTemplate /\ pc'[c] = "reserve"
              \/ pc[c] \in {"reserve", "options"} /\ pc'[c] \in {"options", "create"}
              \/ pc[c] = "cache" /\ pc'[c] = "send"
              \/ pc[c] \in {"trigger", "wait", "top"} /\ block_template[c] # NoTemplate /\ pc'[c] \in {"wait", "top"}
  <2>1. /\ Before(c)' => Before(c)
        /\ Begun(c)' => Begun(c)
    BY <1>3, Zenon DEF Before, Begun, FreshInv
  <2>2. JobQuiet(c)
    BY <1>1, <1>2, <1>3, <2>1, Zenon DEF JobQuiet
  <2> QED
    BY <2>2, JobFrame, Zenon
<1>4. CASE ThreadStart(c) \/ ThreadExit(c) \/ LoopFirst(c) \/ ReserveTemplateId(c) \/ PrepareBlockCreateOptions(c)
           \/ ClientGone(c) \/ ThreadIpcFailure(c) \/ CacheInitialTemplate(c)
  <2>1. UNCHANGED <<prev_hash, block_template>>
    BY <1>4, Zenon DEF ThreadStart, ThreadExit, LoopFirst, ReserveTemplateId, PrepareBlockCreateOptions, ClientGone,
       ThreadIpcFailure, CacheInitialTemplate, threadVars
  <2>2. \/ pc'[c] = "done"
        \/ pc[c] = "spawned" /\ pc'[c] = "top"
        \/ pc[c] = "top" /\ block_template[c] = NoTemplate /\ pc'[c] = "reserve"
        \/ pc[c] \in {"reserve", "options"} /\ pc'[c] \in {"options", "create"}
        \/ pc[c] = "cache" /\ pc'[c] = "send"
    BY <1>0, <1>4, Zenon DEF ThreadStart, ThreadExit, LoopFirst, ReserveTemplateId, PrepareBlockCreateOptions, ClientGone,
       ThreadIpcFailure, CacheInitialTemplate, Goto
  <2> QED
    BY <1>3, <2>1, <2>2, Zenon
<1>5. CASE BeginWait(c) \/ WaitNextNothing(c)
  <2>1. UNCHANGED <<prev_hash, block_template>>
    BY <1>5, Zenon DEF BeginWait, WaitNextNothing, threadVars
  <2>2. /\ \/ pc[c] \in {"trigger", "wait"}
           \/ pc[c] = "top" /\ block_template[c] # NoTemplate
        /\ pc'[c] \in {"wait", "top", "done"}
    BY <1>0, <1>5, Zenon DEF BeginWait, WaitNextNothing, Goto
  <2>3. block_template[c] # NoTemplate
    BY <1>0, <2>2, ConstantsOK, Zenon DEF Holding
  <2> QED
    BY <1>3, <2>1, <2>2, <2>3, Zenon
<1>6. CASE CreateNewBlock(c)
  <2>1. PICK t \in NodeTemplates(c) : block_template' = [block_template EXCEPT ![c] = t]
    BY <1>6, Zenon DEF CreateNewBlock
  <2>2. t.prev = tip
    BY NodeTemplatesType, Zenon DEF Inv, TypeOK
  <2>3. pc[c] = "create" /\ pc'[c] = "cache" /\ prev_hash'[c] = tip /\ block_template'[c] = t
    BY <1>0, <1>6, <2>1, Zenon DEF CreateNewBlock, Goto
  <2>4. Before(c) /\ ~Begun(c)'
    BY <2>3, Zenon DEF Before, Begun
  <2> QED
    BY <1>1, <2>2, <2>3, <2>4, Zenon DEF JobsInv, JobsInvOf
<1>7. CASE WaitNextTemplate(c)
  <2>0. UNCHANGED prev_hash /\ pc[c] = "wait"
    BY <1>7, Zenon DEF WaitNextTemplate
  <2>1. CASE Connected(client_id[c])
    <3>1. PICK t \in NodeTemplates(c) : block_template' = [block_template EXCEPT ![c] = t]
      BY <1>7, <2>1, Zenon DEF WaitNextTemplate
    <3>2. t.prev = tip
      BY NodeTemplatesType, Zenon DEF Inv, TypeOK
    <3>3. pc'[c] = "cacheNext" /\ block_template'[c] = t
      BY <1>0, <1>7, <2>1, <3>1, Zenon DEF WaitNextTemplate, Goto
    <3>4. Begun(c) /\ ~Before(c)'
      BY <2>0, <3>3, Zenon DEF Begun, Before
    <3>5. PICK h \in Hash : /\ LastHash(m_send_messages[c], h) /\ prev_hash[c] <= h /\ h <= block_template[c].prev
                            /\ block_template[c].prev <= tip
      BY <3>4, Zenon DEF JobsInv, JobsInvOf
    <3>6. h <= tip
      <4>1. h \in Nat
        BY ConstantsOK DEF Hash
      <4>2. block_template[c].prev \in Nat
        BY <2>0, HashTypes, Zenon DEF Holding
      <4> QED
        BY <1>1, <3>5, <4>1, <4>2
    <3>7. JobsMatch(m_send_messages[c])
      BY Zenon DEF JobsInv, JobsInvOf
    <3> QED
      BY <1>1, <2>0, <3>2, <3>3, <3>4, <3>5, <3>6, <3>7, Zenon DEF JobsInvOf
  <2>2. CASE ~Connected(client_id[c])
    <3>1. pc'[c] = "done" /\ UNCHANGED block_template
      BY <1>0, <1>7, <2>2, Zenon DEF WaitNextTemplate, Goto
    <3> QED
      BY <1>3, <2>0, <3>1, Zenon
  <2> QED
    BY <2>1, <2>2, Zenon
<1>8. CASE CacheNextTemplate(c)
  <2>1. /\ pc[c] = "cacheNext" /\ pc'[c] = "sendNext" /\ UNCHANGED <<prev_hash, block_template>>
        /\ future_template'[c] = TRUE \/ block_template[c].prev = prev_hash[c]
    BY <1>0, <1>8, Zenon DEF CacheNextTemplate, Goto, TipChanged
  <2>2. Begun(c) /\ ~Before(c)'
    BY <2>1, Zenon DEF Begun, Before
  <2>3. JobsInvOf(c)
    BY Zenon DEF JobsInv
  <2> QED
    BY <1>1, <2>1, <2>2, <2>3, Zenon DEF JobsInvOf
<1> QED
  BY <1>4, <1>5, <1>6, <1>7, <1>8, Zenon DEF ClientThread

LEMMA JobsKept ==
  ASSUME ~Signet, "reorg" \notin Faults
  PROVE  Inv /\ OwnIds /\ FreshInv /\ JobsInv /\ [Next]_vars => JobsInv'
<1> SUFFICES ASSUME Inv, OwnIds, FreshInv, JobsInv, [Next]_vars, NEW c \in Clients PROVE JobsInvOf(c)'
  BY Zenon DEF JobsInv
<1>1. tip' \in Nat /\ tip <= tip'
  BY TipSteps, Zenon
<1>2. CASE ~\E d \in Clients : ClientThread(d)
  <2>1. UNCHANGED hashVars
    BY <1>2, TipSteps, Zenon
  <2>2. UNCHANGED block_template /\ (pc'[c] = pc[c] \/ (pc[c] = "none" /\ pc'[c] = "spawned"))
    BY <1>2, PlaceSteps, Zenon
  <2>3. SameJobs(m_send_messages[c], m_send_messages'[c])
    BY <1>2, JobQueues, Zenon
  <2>4. JobQuiet(c)
    BY <1>1, <2>1, <2>2, <2>3, Zenon DEF JobQuiet, hashVars, Begun, Before
  <2> QED
    BY <2>4, JobFrame, Zenon
<1>3. ASSUME NEW d \in Clients, ClientThread(d), d # c PROVE JobsInvOf(c)'
  <2>0. prev_hash \in [Clients -> Hash] /\ future_template \in [Clients -> BOOLEAN]
    BY Zenon DEF Inv, TypeOK, ThreadTypeOK
  <2>1. /\ pc'[c] = pc[c] /\ block_template'[c] = block_template[c] /\ m_send_messages'[c] = m_send_messages[c]
    <3>1. c \in Clients \ {d}
      BY <1>3, Zenon
    <3> QED
      BY <1>3, <3>1, ThreadOthers, OtherQueues, Zenon
  <2>2. /\ UNCHANGED prev_hash \/ \E h : prev_hash' = [prev_hash EXCEPT ![d] = h]
        /\ UNCHANGED future_template \/ \E b : future_template' = [future_template EXCEPT ![d] = b]
    BY <1>3, Zenon DEF ClientThread, ThreadStart, ThreadExit, LoopFirst, ReserveTemplateId, PrepareBlockCreateOptions,
       CreateNewBlock, CacheInitialTemplate, SendInitialTemplate, BeginWait, WaitNextNothing, WaitNextTemplate,
       CacheNextTemplate, SendNextTemplate, ClientGone, ThreadIpcFailure, threadVars
  <2>3. prev_hash'[c] = prev_hash[c] /\ future_template'[c] = future_template[c]
    BY <1>3, <2>0, <2>2, Zenon
  <2>4. SameJobs(m_send_messages[c], m_send_messages'[c])
    BY <2>1, Zenon DEF SameJobs
  <2>5. JobQuiet(c)
    BY <1>1, <2>1, <2>3, <2>4, Zenon DEF JobQuiet, Begun, Before
  <2> QED
    BY <2>5, JobFrame, Zenon
<1>4. CASE ClientThread(c)
  BY <1>4, JobSend, JobThread, Zenon
<1> QED
  BY <1>2, <1>3, <1>4, Zenon

\* For any number of clients, off signet, without reused memory and with a node that does
\* not go back to an earlier tip: a template that is not a future one is for the block of
\* the last SetNewPrevHash, although the thread compares with the block it started on.
THEOREM JobsCorrect ==
  ASSUME ~Signet, "reuse" \notin Faults, "reorg" \notin Faults
  PROVE  Spec => []JobMatchesLastPrevHash
<1>1. Init => JobsInv
  <2>1. PrevHashesIn(<<>>) = {} /\ DOMAIN <<>> = {}
    BY DEF PrevHashesIn
  <2> SUFFICES ASSUME Init, NEW c \in Clients PROVE JobsInvOf(c)
    BY Zenon DEF JobsInv
  <2>2. pc[c] = "none" /\ m_send_messages[c] = <<>>
    BY Zenon DEF Init
  <2> QED
    BY <2>1, <2>2, Zenon DEF JobsInvOf, JobsMatch, Begun, Before
<1>2. JobsInv => JobMatchesLastPrevHash
  BY Zenon DEF JobsInv, JobsInvOf, JobsMatch, JobMatchesLastPrevHash
<1> QED
  BY <1>1, <1>2, TypeInit, TypeStep, OwnInit, OwnStep, FirstInit, FreshStep, JobsKept, PTL DEF Spec
=============================================================================
