------------------------ MODULE Sv2TemplateProvider ------------------------
(***************************************************************************)
(* The template provider of src/sv2/template_provider.cpp: its handler     *)
(* thread, one thread per connected client, the calls the connection       *)
(* manager's thread makes into it, and the interrupt of the main thread.   *)
(*                                                                         *)
(* Atomicity.  A step is what the code does between taking and releasing   *)
(* a lock (m_tp_mutex or m_clients_mutex), or one call to the node.        *)
(*                                                                         *)
(* Data.  Block hashes are numbered in the order in which the node first   *)
(* makes them its tip; 0 is uint256(0).  Fees count multiples of           *)
(* -sv2feedelta.  Time is GetTime<seconds>().  A block template is what    *)
(* tells two of them apart: the thread that asked for it, the block it     *)
(* builds on, its fees, and whether it has a witness commitment.           *)
(***************************************************************************)
EXTENDS Integers, Sequences

CONSTANTS
  Clients,     \* connections, each accepted at most once (SockMan ids are unique)
  Grace,       \* STALE_TEMPLATE_GRACE_PERIOD
  Interval,    \* -sv2interval, the fee check interval
  Signet,      \* TRUE on signet, where a witness commitment is required
  Faults,      \* what may go wrong: see FaultKinds
  MaxBlocks,   \* bound: blocks the node makes its tip
  MaxFees,     \* bound: fee rises on top of one block
  MaxTime,     \* bound: the clock
  MaxCalls,    \* bound: RequestTransactionData and SubmitSolution messages
  MaxTemplates,\* bound: templates numbered before the last reorganisation
  NoTemplate   \* a null BlockTemplate pointer

FaultKinds == {"ipc",        \* a call to the node throws, or the node shuts down
               "reorg",      \* the node goes back to an earlier tip
               "interrupt",  \* the process is told to stop
               "reuse"}      \* freed memory of a client is reused for a new one

Hash == 0..MaxBlocks

Template == [owner : Clients, prev : Hash, fees : 0..MaxFees, commitment : BOOLEAN]

ASSUME ConstantsOK ==
  /\ Grace \in Nat /\ Interval \in Nat \ {0} /\ Signet \in BOOLEAN
  /\ Faults \subseteq FaultKinds
  /\ MaxBlocks \in Nat \ {0} /\ MaxFees \in Nat /\ MaxTime \in Nat /\ MaxCalls \in Nat
  /\ MaxTemplates \in Nat
  /\ NoTemplate \notin Template

VARIABLES
  \* the node behind interfaces::Mining, and the clock
  tip,                      \* its best block
  top,                      \* the newest block it ever had as its tip
  fees,                     \* what the mempool adds to a template now
  ibd,                      \* isInitialBlockDownload()
  interrupted,              \* templates with an unconsumed interruptWait()
  now,
  \* members of Sv2TemplateProvider
  m_template_id, m_best_prev_hash, m_last_block_time,
  m_block_template_cache,   \* template id -> template, whose prev is the cached hash
  m_flag_interrupt_sv2,
  \* control of the handler thread, of the main thread and of the sockets thread
  handler, main, job, calls,
  saves,                    \* sv2-saveblk threads that have not finished
  \* locals of the client threads
  pc,
  client_id,                \* the thread's argument; until it starts, m_id where the client was
  template_id, block_template, prev_hash, future_template,
  check_fees, m_last_triggered,
  \* the connection manager, as the provider sees it
  clients,                  \* "absent", "connected" when accepted, "ready" when it has sent
                            \* CoinbaseOutputConstraints, "gone" when removed from m_sv2_clients
  m_disconnect_flag,
  m_send_messages,          \* everything ever appended to the client's queue
  \* history
  bestUntil,                \* when a hash was last m_best_prev_hash
  sentAt                    \* when the client was last sent a template

nodeVars    == <<tip, top, fees, ibd>>
cacheVars   == <<m_template_id, m_best_prev_hash, m_last_block_time, m_block_template_cache, bestUntil>>
controlVars == <<m_flag_interrupt_sv2, handler, main>>
connVars    == <<job, calls, saves>>
threadVars  == <<client_id, template_id, block_template, prev_hash, future_template,
                 check_fees, m_last_triggered>>
clientVars  == <<clients, m_disconnect_flag, m_send_messages, sentAt>>
vars == <<nodeVars, interrupted, now, cacheVars, controlVars, connVars, pc, threadVars, clientVars>>

Msg(type, id, t) == [type |-> type, id |-> id, tmpl |-> t]
Idle == [op |-> "idle"]

\* Messages that carry a template to the client.
TemplateMsgs == {"NewTemplate", "NewFutureTemplate"}

Init ==
  /\ tip = 1 /\ top = 1 /\ fees = 0 /\ ibd \in BOOLEAN /\ interrupted = {} /\ now = 0
  /\ m_template_id = 0 /\ m_best_prev_hash = 0 /\ m_last_block_time = 0
  /\ m_block_template_cache = [i \in {} |-> NoTemplate]
  /\ m_flag_interrupt_sv2 = FALSE
  /\ handler = "init" /\ main = "running" /\ job = Idle /\ calls = 0 /\ saves = {}
  /\ pc = [c \in Clients |-> "none"]
  /\ client_id = [c \in Clients |-> c]
  /\ template_id = [c \in Clients |-> 0]
  /\ block_template = [c \in Clients |-> NoTemplate]
  /\ prev_hash = [c \in Clients |-> 0]
  /\ future_template = [c \in Clients |-> FALSE]
  /\ check_fees = [c \in Clients |-> FALSE]
  /\ m_last_triggered = [c \in Clients |-> 0]
  /\ clients = [c \in Clients |-> "absent"]
  /\ m_disconnect_flag = [c \in Clients |-> FALSE]
  /\ m_send_messages = [c \in Clients |-> <<>>]
  /\ bestUntil = [h \in Hash |-> 0]
  /\ sentAt = [c \in Clients |-> 0]

-----------------------------------------------------------------------------
(* The node (external) and the clock. *)

NewTip ==
  /\ top < MaxBlocks
  /\ tip' = top + 1 /\ top' = top + 1 /\ fees' = 0
  /\ UNCHANGED <<ibd, interrupted, now, cacheVars, controlVars, connVars, pc, threadVars, clientVars>>

Reorg ==
  /\ "reorg" \in Faults /\ m_template_id < MaxTemplates
  /\ tip' \in 1..top \ {tip} /\ fees' = 0
  /\ UNCHANGED <<top, ibd, interrupted, now, cacheVars, controlVars, connVars, pc, threadVars, clientVars>>

FeeRise ==
  /\ fees < MaxFees /\ fees' = fees + 1
  /\ UNCHANGED <<tip, top, ibd, interrupted, now, cacheVars, controlVars, connVars, pc, threadVars, clientVars>>

LeaveIBD ==
  /\ ibd /\ ibd' = FALSE
  /\ UNCHANGED <<tip, top, fees, interrupted, now, cacheVars, controlVars, connVars, pc, threadVars, clientVars>>

Tick ==
  /\ now < MaxTime /\ now' = now + 1
  /\ UNCHANGED <<nodeVars, interrupted, cacheVars, controlVars, connVars, pc, threadVars, clientVars>>

\* A template the node may hand to thread c at this moment.
NodeTemplates(c) ==
  [owner : {c}, prev : {tip}, fees : {fees}, commitment : IF Signet THEN BOOLEAN ELSE {TRUE}]

-----------------------------------------------------------------------------
(* The connection manager: a client is accepted, asks for templates, is     *)
(* flagged and is removed.                                                  *)

\* MUTANT of Connected: the client is not looked up again.
ConnectedOrGone(c) == clients[c] # "absent"

\* GetClientById(c) is not null.
Connected(c) == clients[c] \in {"connected", "ready"}

\* The new client's object may be given the memory of a removed client x, to which threads
\* that were spawned and have not started still hold a reference.
EventNewConnectionAccepted(c) ==
  /\ clients[c] = "absent" /\ job = Idle
  /\ clients' = [clients EXCEPT ![c] = "connected"]
  /\ \/ UNCHANGED client_id
     \/ "reuse" \in Faults /\ \E x \in Clients :
          /\ clients[x] = "gone"
          /\ client_id' = [d \in Clients |-> IF pc[d] = "spawned" /\ client_id[d] = x THEN c
                                                                                   ELSE client_id[d]]
  /\ UNCHANGED <<nodeVars, interrupted, now, cacheVars, controlVars, connVars, pc, template_id,
                 block_template, prev_hash, future_template, check_fees, m_last_triggered,
                 m_disconnect_flag, m_send_messages, sentAt>>

\* The client finished SetupConnection and CoinbaseOutputConstraints.
CoinbaseOutputConstraints(c) ==
  /\ clients[c] = "connected" /\ ~m_disconnect_flag[c] /\ job = Idle
  /\ clients' = [clients EXCEPT ![c] = "ready"]
  /\ UNCHANGED <<nodeVars, interrupted, now, cacheVars, controlVars, connVars, pc, threadVars,
                 m_disconnect_flag, m_send_messages, sentAt>>

FlagDisconnect(c) ==
  /\ Connected(c) /\ job = Idle /\ ~m_disconnect_flag[c]
  /\ m_disconnect_flag' = [m_disconnect_flag EXCEPT ![c] = TRUE]
  /\ UNCHANGED <<nodeVars, interrupted, now, cacheVars, controlVars, connVars, pc, threadVars,
                 clients, m_send_messages, sentAt>>

DisconnectFlagged(c) ==
  /\ Connected(c) /\ job = Idle /\ m_disconnect_flag[c]
  /\ clients' = [clients EXCEPT ![c] = "gone"]
  /\ UNCHANGED <<nodeVars, interrupted, now, cacheVars, controlVars, connVars, pc, threadVars,
                 m_disconnect_flag, m_send_messages, sentAt>>

-----------------------------------------------------------------------------
(* ThreadSv2Handler *)

HandlerStart ==
  /\ handler = "init" /\ handler' = "ibd"
  /\ m_last_block_time' = now
  /\ UNCHANGED <<nodeVars, interrupted, now, m_template_id, m_best_prev_hash, m_block_template_cache,
                 bestUntil, m_flag_interrupt_sv2, main, connVars, pc, threadVars, clientVars>>

HandlerIBD ==
  /\ handler = "ibd" /\ handler' = "foreach"
  /\ m_flag_interrupt_sv2 \/ Signet \/ ~ibd
  /\ UNCHANGED <<nodeVars, interrupted, now, cacheVars, m_flag_interrupt_sv2, main, connVars,
                 pc, threadVars, clientVars>>

\* ForEachClient, under m_clients_mutex: pc[c] # "none" is client_threads.contains(c).
SpawnClientThreads ==
  /\ handler = "foreach" /\ ~m_flag_interrupt_sv2 /\ handler' = "prune"
  /\ pc' = [c \in Clients |-> IF clients[c] = "ready" /\ ~m_disconnect_flag[c] /\ pc[c] = "none"
                              THEN "spawned" ELSE pc[c]]
  /\ UNCHANGED <<nodeVars, interrupted, now, cacheVars, m_flag_interrupt_sv2, main, connVars,
                 threadVars, clientVars>>

PruneBlockTemplateCache ==
  /\ handler = "prune" /\ handler' = "foreach"
  /\ LET kept == IF m_last_block_time > now - Grace
                 THEN DOMAIN m_block_template_cache
                 ELSE {i \in DOMAIN m_block_template_cache :
                         m_block_template_cache[i].prev = m_best_prev_hash}
     IN  m_block_template_cache' = [i \in kept |-> m_block_template_cache[i]]
  /\ UNCHANGED <<nodeVars, interrupted, now, m_template_id, m_best_prev_hash, m_last_block_time,
                 bestUntil, m_flag_interrupt_sv2, main, connVars, pc, threadVars, clientVars>>

HandlerLeave ==
  /\ handler = "foreach" /\ m_flag_interrupt_sv2 /\ handler' = "join"
  /\ UNCHANGED <<nodeVars, interrupted, now, cacheVars, m_flag_interrupt_sv2, main, connVars,
                 pc, threadVars, clientVars>>

HandlerJoin ==
  /\ handler = "join" /\ handler' = "done"
  /\ \A c \in Clients : pc[c] \in {"none", "done"}
  /\ UNCHANGED <<nodeVars, interrupted, now, cacheVars, m_flag_interrupt_sv2, main, connVars,
                 pc, threadVars, clientVars>>

-----------------------------------------------------------------------------
(* ThreadSv2ClientHandler(client_id) *)

\* Where thread c goes; what it leaves alone in every step.
Goto(c, label) == pc' = [pc EXCEPT ![c] = label]
ThreadFrame == UNCHANGED <<nodeVars, now, controlVars, connVars, clients>>

\* The lambda reads client.m_id through the reference it captured in SpawnClientThreads.
ThreadStart(c) ==
  /\ pc[c] = "spawned" /\ Goto(c, "top")
  /\ m_last_triggered' = [m_last_triggered EXCEPT ![c] = now]
  /\ ThreadFrame
  /\ UNCHANGED <<interrupted, cacheVars, client_id, template_id, block_template, prev_hash,
                 future_template, check_fees, m_disconnect_flag, m_send_messages, sentAt>>

\* MUTANT of MayLoop: the flag is only looked at before the first template.
MayLoopOnceServed(c) == ~m_flag_interrupt_sv2 \/ block_template[c] # NoTemplate

\* The condition of the client thread's loop.
MayLoop(c) == ~m_flag_interrupt_sv2

ThreadExit(c) ==
  /\ pc[c] = "top" /\ ~MayLoop(c) /\ Goto(c, "done")
  /\ ThreadFrame
  /\ UNCHANGED <<interrupted, cacheVars, threadVars, m_disconnect_flag, m_send_messages, sentAt>>

LoopFirst(c) ==
  /\ pc[c] = "top" /\ MayLoop(c) /\ block_template[c] = NoTemplate /\ Goto(c, "reserve")
  /\ ThreadFrame
  /\ UNCHANGED <<interrupted, cacheVars, threadVars, m_disconnect_flag, m_send_messages, sentAt>>

\* ++m_template_id
NextTemplateId == m_template_id + 1

ReserveTemplateId(c) ==
  /\ pc[c] = "reserve" /\ Goto(c, "options")
  /\ m_template_id' = NextTemplateId
  /\ template_id' = [template_id EXCEPT ![c] = NextTemplateId]
  /\ ThreadFrame
  /\ UNCHANGED <<interrupted, m_best_prev_hash, m_last_block_time, m_block_template_cache, bestUntil,
                 client_id, block_template, prev_hash, future_template, check_fees, m_last_triggered,
                 m_disconnect_flag, m_send_messages, sentAt>>

PrepareBlockCreateOptions(c) ==
  /\ pc[c] = "options"
  /\ Goto(c, IF Connected(client_id[c]) THEN "create" ELSE "done")
  /\ ThreadFrame
  /\ UNCHANGED <<interrupted, cacheVars, threadVars, m_disconnect_flag, m_send_messages, sentAt>>

CreateNewBlock(c) ==
  /\ pc[c] = "create" /\ Goto(c, "cache")
  /\ \E t \in NodeTemplates(c) : block_template' = [block_template EXCEPT ![c] = t]
  /\ prev_hash' = [prev_hash EXCEPT ![c] = tip]
  /\ ThreadFrame
  /\ UNCHANGED <<interrupted, cacheVars, client_id, template_id, future_template, check_fees,
                 m_last_triggered, m_disconnect_flag, m_send_messages, sentAt>>

\* MUTANT of Insert: the template is cached under the id after its own.
InsertOffByOne(id, t) ==
  m_block_template_cache' = [i \in DOMAIN m_block_template_cache \cup {id + 1} |->
      IF i \in DOMAIN m_block_template_cache THEN m_block_template_cache[i] ELSE t]

\* m_block_template_cache.insert: an existing entry is kept.
Insert(id, t) ==
  m_block_template_cache' = [i \in DOMAIN m_block_template_cache \cup {id} |->
      IF i \in DOMAIN m_block_template_cache THEN m_block_template_cache[i] ELSE t]

\* MUTANT of SetBestPrevHash: the time of the block is not recorded.
SetBestPrevHashNoTime(h) ==
  /\ m_best_prev_hash' = h /\ UNCHANGED m_last_block_time
  /\ bestUntil' = [bestUntil EXCEPT ![m_best_prev_hash] = now]

SetBestPrevHash(h) ==
  /\ m_best_prev_hash' = h /\ m_last_block_time' = now
  /\ bestUntil' = [bestUntil EXCEPT ![m_best_prev_hash] = now]

KeepBestPrevHash == UNCHANGED <<m_best_prev_hash, m_last_block_time, bestUntil>>

CacheInitialTemplate(c) ==
  /\ pc[c] = "cache" /\ Goto(c, "send")
  /\ IF prev_hash[c] # m_best_prev_hash THEN SetBestPrevHash(prev_hash[c]) ELSE KeepBestPrevHash
  /\ Insert(template_id[c], block_template[c])
  /\ ThreadFrame
  /\ UNCHANGED <<interrupted, m_template_id, threadVars, m_disconnect_flag, m_send_messages, sentAt>>

\* MUTANT of Work: SetNewPrevHash is never sent.
WorkNoPrevHash(id, t, future) ==
  <<Msg(IF future THEN "NewFutureTemplate" ELSE "NewTemplate", id, t)>>

\* The messages of one SendWork call.
Work(id, t, future) ==
  IF future THEN <<Msg("NewFutureTemplate", id, t), Msg("SetNewPrevHash", id, t)>>
            ELSE <<Msg("NewTemplate", id, t)>>

\* SendWork to client d and, when it refuses, the flag its callers set.
SendWork(d, id, t, future) ==
  IF Signet /\ ~t.commitment
  THEN /\ m_disconnect_flag' = [m_disconnect_flag EXCEPT ![d] = TRUE]
       /\ UNCHANGED <<m_send_messages, sentAt>>
  ELSE /\ m_send_messages' = [m_send_messages EXCEPT ![d] = @ \o Work(id, t, future)]
       /\ sentAt' = [sentAt EXCEPT ![d] = now]
       /\ UNCHANGED m_disconnect_flag

\* The client left while the thread was busy: GetClientById returns null.
ClientGone(c) ==
  /\ pc[c] \in {"send", "sendNext"} /\ ~Connected(client_id[c]) /\ Goto(c, "done")
  /\ ThreadFrame
  /\ UNCHANGED <<interrupted, cacheVars, threadVars, m_disconnect_flag, m_send_messages, sentAt>>

\* MUTANT of ResetTimer: the timer keeps running.
LeaveTimer(c) == UNCHANGED m_last_triggered

ResetTimer(c) == m_last_triggered' = [m_last_triggered EXCEPT ![c] = now]

\* SendWork goes through or, after it queued the messages, throws in getTxFees().
Sent(c, label) ==
  \/ Goto(c, label)
  \/ "ipc" \in Faults /\ m_send_messages' # m_send_messages /\ Goto(c, "done")

\* MUTANT of InitialTemplateId: the counter is read again instead.
InitialTemplateIdReread(c) == m_template_id

\* The id that was reserved for the initial template.
InitialTemplateId(c) == template_id[c]

SendInitialTemplate(c) ==
  /\ pc[c] = "send" /\ Connected(client_id[c])
  /\ SendWork(client_id[c], InitialTemplateId(c), block_template[c], TRUE)
  /\ Sent(c, "trigger")
  /\ ResetTimer(c)
  /\ ThreadFrame
  /\ UNCHANGED <<interrupted, cacheVars, client_id, template_id, block_template, prev_hash,
                 future_template, check_fees>>

\* Timer::trigger, and the start of waitNext.
BeginWait(c) ==
  /\ \/ pc[c] = "trigger"
     \/ pc[c] = "top" /\ MayLoop(c) /\ block_template[c] # NoTemplate
  /\ Goto(c, "wait")
  /\ LET due == now - m_last_triggered[c] >= Interval
     IN  /\ check_fees' = [check_fees EXCEPT ![c] = due]
         /\ IF due THEN ResetTimer(c) ELSE UNCHANGED m_last_triggered
  /\ future_template' = [future_template EXCEPT ![c] = FALSE]
  /\ ThreadFrame
  /\ UNCHANGED <<interrupted, cacheVars, client_id, template_id, block_template, prev_hash,
                 m_disconnect_flag, m_send_messages, sentAt>>

\* waitNext returns null: the timeout passed, interruptWait() was called, or the node
\* is shutting down.
WaitNextNothing(c) ==
  /\ pc[c] = "wait"
  /\ block_template[c].prev = tip \/ block_template[c] \in interrupted \/ "ipc" \in Faults
  /\ interrupted' = interrupted \ {block_template[c]}
  /\ Goto(c, IF Connected(client_id[c]) THEN "top" ELSE "done")
  /\ ThreadFrame
  /\ UNCHANGED <<cacheVars, threadVars, m_disconnect_flag, m_send_messages, sentAt>>

WaitNextTemplate(c) ==
  /\ pc[c] = "wait"
  /\ block_template[c].prev # tip \/ (check_fees[c] /\ fees > block_template[c].fees)
  /\ IF Connected(client_id[c])
     THEN /\ \E t \in NodeTemplates(c) : block_template' = [block_template EXCEPT ![c] = t]
          /\ Goto(c, "cacheNext")
     ELSE Goto(c, "done") /\ UNCHANGED block_template
  /\ ThreadFrame
  /\ UNCHANGED <<interrupted, cacheVars, client_id, template_id, prev_hash, future_template,
                 check_fees, m_last_triggered, m_disconnect_flag, m_send_messages, sentAt>>

\* MUTANT of TipChanged: the comparison is with the hash shared by all threads.
TipChangedForAll(c) == block_template[c].prev # m_best_prev_hash

\* new_prev_hash != prev_hash, where prev_hash is still that of the initial template.
TipChanged(c) == block_template[c].prev # prev_hash[c]

\* MUTANT of CacheNextTemplate: the counter is read but not incremented.
CacheNextTemplateSameId(c) ==
  /\ pc[c] = "cacheNext" /\ Goto(c, "sendNext")
  /\ IF TipChanged(c)
     THEN /\ future_template' = [future_template EXCEPT ![c] = TRUE]
          /\ SetBestPrevHash(block_template[c].prev)
     ELSE UNCHANGED future_template /\ KeepBestPrevHash
  /\ UNCHANGED m_template_id
  /\ Insert(m_template_id, block_template[c])
  /\ ThreadFrame
  /\ UNCHANGED <<interrupted, client_id, template_id, block_template, prev_hash, check_fees,
                 m_last_triggered, m_disconnect_flag, m_send_messages, sentAt>>

CacheNextTemplate(c) ==
  /\ pc[c] = "cacheNext" /\ Goto(c, "sendNext")
  /\ IF TipChanged(c)
     THEN /\ future_template' = [future_template EXCEPT ![c] = TRUE]
          /\ SetBestPrevHash(block_template[c].prev)
     ELSE UNCHANGED future_template /\ KeepBestPrevHash
  /\ m_template_id' = NextTemplateId
  /\ Insert(NextTemplateId, block_template[c])
  /\ ThreadFrame
  /\ UNCHANGED <<interrupted, client_id, template_id, block_template, prev_hash, check_fees,
                 m_last_triggered, m_disconnect_flag, m_send_messages, sentAt>>

\* The id is read again, after m_tp_mutex was released in CacheNextTemplate.
SendNextTemplate(c) ==
  /\ pc[c] = "sendNext" /\ Connected(client_id[c])
  /\ SendWork(client_id[c], m_template_id, block_template[c], future_template[c])
  /\ Sent(c, "top")
  /\ ResetTimer(c)
  /\ ThreadFrame
  /\ UNCHANGED <<interrupted, cacheVars, client_id, template_id, block_template, prev_hash,
                 future_template, check_fees>>

\* createNewBlock returns null, or a call to the node throws: the thread ends.
ThreadIpcFailure(c) ==
  /\ "ipc" \in Faults
  /\ pc[c] \in {"create", "send", "wait", "cacheNext", "sendNext"} /\ Goto(c, "done")
  /\ ThreadFrame
  /\ UNCHANGED <<interrupted, cacheVars, threadVars, m_disconnect_flag, m_send_messages, sentAt>>

ClientThread(c) ==
  \/ ThreadStart(c) \/ ThreadExit(c) \/ LoopFirst(c) \/ ReserveTemplateId(c)
  \/ PrepareBlockCreateOptions(c) \/ CreateNewBlock(c) \/ CacheInitialTemplate(c)
  \/ SendInitialTemplate(c) \/ BeginWait(c) \/ WaitNextNothing(c) \/ WaitNextTemplate(c)
  \/ CacheNextTemplate(c) \/ SendNextTemplate(c) \/ ClientGone(c) \/ ThreadIpcFailure(c)

-----------------------------------------------------------------------------
(* Calls of the sockets thread, for a message of client c.                 *)

\* ProcessSv2Message drops the messages of a client that is being disconnected; it does
\* not ask for CoinbaseOutputConstraints first.
MayCall(c) == Connected(c) /\ ~m_disconnect_flag[c] /\ job = Idle /\ calls < MaxCalls

CallFrame == UNCHANGED <<nodeVars, interrupted, now, cacheVars, controlVars, pc, threadVars,
                         clients, sentAt>>

Reply(c, m) == m_send_messages' = [m_send_messages EXCEPT ![c] = Append(@, m)]

\* Under m_tp_mutex: the template is not cached, is stale, or is taken out of the cache.
RequestTransactionData(c, id) ==
  /\ MayCall(c) /\ calls' = calls + 1
  /\ IF id \notin DOMAIN m_block_template_cache
     THEN Reply(c, Msg("NotFound", id, NoTemplate)) /\ UNCHANGED job
     ELSE LET t == m_block_template_cache[id]
          IN  IF t.prev # m_best_prev_hash /\ m_last_block_time < now - Grace
              THEN Reply(c, Msg("Stale", id, t)) /\ UNCHANGED job
              ELSE /\ job' = [op |-> "txdata", client |-> c, id |-> id, tmpl |-> t]
                   /\ UNCHANGED m_send_messages
  /\ CallFrame /\ UNCHANGED <<saves, m_disconnect_flag>>

ReplyTransactionData ==
  /\ job.op = "txdata" /\ job' = Idle
  /\ Reply(job.client, Msg("TxData", job.id, job.tmpl))
  /\ CallFrame /\ UNCHANGED <<calls, saves, m_disconnect_flag>>

\* getBlock() throws: EventGotData catches it and flags the client.
RequestIpcFailure(c) ==
  /\ "ipc" \in Faults /\ MayCall(c) /\ calls' = calls + 1
  /\ DOMAIN m_block_template_cache # {}
  /\ m_disconnect_flag' = [m_disconnect_flag EXCEPT ![c] = TRUE]
  /\ CallFrame /\ UNCHANGED <<job, saves, m_send_messages>>

\* Under m_tp_mutex: find the template; it is submitted after the mutex is released.
SubmitSolution(c, id) ==
  /\ MayCall(c) /\ calls' = calls + 1
  /\ job' = IF id \in DOMAIN m_block_template_cache
            THEN [op |-> "submit", client |-> c, id |-> id, tmpl |-> m_block_template_cache[id]]
            ELSE Idle
  /\ CallFrame /\ UNCHANGED <<saves, m_disconnect_flag, m_send_messages>>

\* submitSolution() makes the node adopt the block if it extends the tip, or not if it
\* is invalid; SaveBlockAsync starts a detached thread in both cases.
SubmitToNode ==
  /\ job.op = "submit" /\ job' = Idle
  /\ saves' = saves \cup {<<calls, job.tmpl>>}
  /\ \/ /\ job.tmpl.prev = tip /\ top < MaxBlocks
        /\ tip' = top + 1 /\ top' = top + 1 /\ fees' = 0
     \/ UNCHANGED <<tip, top, fees>>
  /\ UNCHANGED <<ibd, interrupted, now, cacheVars, controlVars, calls, pc, threadVars, clientVars>>

\* submitSolution() throws: nothing is saved, the client is flagged.
SubmitIpcFailure ==
  /\ "ipc" \in Faults /\ job.op = "submit" /\ job' = Idle
  /\ m_disconnect_flag' = [m_disconnect_flag EXCEPT ![job.client] = TRUE]
  /\ CallFrame /\ UNCHANGED <<calls, saves, m_send_messages>>

\* The sv2-saveblk thread wakes up and writes the file, or logs why it could not.
SaveBlock(s) ==
  /\ s \in saves /\ saves' = saves \ {s}
  /\ CallFrame /\ UNCHANGED <<job, calls, m_disconnect_flag, m_send_messages>>

-----------------------------------------------------------------------------
(* Interrupt and StopThreads, on the main thread.                          *)

\* Under m_tp_mutex.  The templates are visited in the order of their ids; a node
\* that does not implement interruptWait(), or fails, ends the visit early.
InterruptWaits ==
  /\ "interrupt" \in Faults /\ main = "running" /\ main' = "interrupting"
  /\ \E n \in 0..m_template_id :
       interrupted' = interrupted \cup
         {m_block_template_cache[i] : i \in {j \in DOMAIN m_block_template_cache : j <= n}}
  /\ UNCHANGED <<nodeVars, now, cacheVars, m_flag_interrupt_sv2, handler, connVars, pc, threadVars,
                 clientVars>>

SetInterruptFlag ==
  /\ main = "interrupting" /\ main' = "stopping"
  /\ m_flag_interrupt_sv2' = TRUE
  /\ UNCHANGED <<nodeVars, interrupted, now, cacheVars, handler, connVars, pc, threadVars, clientVars>>

StopThreads ==
  /\ main = "stopping" /\ handler = "done" /\ main' = "stopped"
  /\ UNCHANGED <<nodeVars, interrupted, now, cacheVars, m_flag_interrupt_sv2, handler, connVars,
                 pc, threadVars, clientVars>>

-----------------------------------------------------------------------------

Node == NewTip \/ Reorg \/ FeeRise \/ LeaveIBD \/ Tick

Handler == HandlerStart \/ HandlerIBD \/ SpawnClientThreads \/ PruneBlockTemplateCache
           \/ HandlerLeave \/ HandlerJoin

Call(c) == \E id \in 1..(m_template_id + 1) : RequestTransactionData(c, id) \/ SubmitSolution(c, id)

Sockets(c) == \/ EventNewConnectionAccepted(c) \/ CoinbaseOutputConstraints(c)
              \/ FlagDisconnect(c) \/ DisconnectFlagged(c) \/ Call(c) \/ RequestIpcFailure(c)

Jobs == ReplyTransactionData \/ SubmitToNode \/ SubmitIpcFailure \/ \E s \in saves : SaveBlock(s)

Main == InterruptWaits \/ SetInterruptFlag \/ StopThreads

Next == Node \/ Handler \/ Jobs \/ Main \/ \E c \in Clients : Sockets(c) \/ ClientThread(c)

Spec == Init /\ [][Next]_vars

\* The operating system runs every thread that can run; calls to the node return.
\* Nothing is assumed of the node's tip and mempool, of the clock or of the clients.
Fairness ==
  /\ WF_vars(Handler) /\ WF_vars(Jobs)
  /\ WF_vars(SetInterruptFlag \/ StopThreads)
  /\ \A c \in Clients : WF_vars(ClientThread(c))

FairSpec == Spec /\ Fairness

-----------------------------------------------------------------------------
(* Properties *)

Labels == {"none", "spawned", "top", "reserve", "options", "create", "cache", "send", "trigger",
           "wait", "cacheNext", "sendNext", "done"}

Message == [type : TemplateMsgs \cup {"SetNewPrevHash", "NotFound", "Stale", "TxData"},
            id : Nat, tmpl : Template \cup {NoTemplate}]

NodeTypeOK ==
  /\ tip \in 1..MaxBlocks /\ top \in tip..MaxBlocks /\ fees \in 0..MaxFees /\ ibd \in BOOLEAN
  /\ interrupted \subseteq Template /\ now \in Nat

CacheTypeOK ==
  /\ m_template_id \in Nat /\ m_best_prev_hash \in Hash /\ m_last_block_time \in Nat
  /\ bestUntil \in [Hash -> Nat]
  /\ DOMAIN m_block_template_cache \subseteq 1..m_template_id
  /\ \A i \in DOMAIN m_block_template_cache : m_block_template_cache[i] \in Template

ControlTypeOK ==
  /\ m_flag_interrupt_sv2 \in BOOLEAN
  /\ handler \in {"init", "ibd", "foreach", "prune", "join", "done"}
  /\ main \in {"running", "interrupting", "stopping", "stopped"}
  /\ job \in {Idle} \cup [op : {"txdata", "submit"}, client : Clients, id : Nat, tmpl : Template]
  /\ calls \in Nat /\ saves \subseteq Nat \X Template

ThreadTypeOK ==
  /\ pc \in [Clients -> Labels]
  /\ client_id \in [Clients -> Clients] /\ template_id \in [Clients -> Nat]
  /\ block_template \in [Clients -> Template \cup {NoTemplate}]
  /\ prev_hash \in [Clients -> Hash] /\ m_last_triggered \in [Clients -> Nat]
  /\ future_template \in [Clients -> BOOLEAN] /\ check_fees \in [Clients -> BOOLEAN]

ClientTypeOK ==
  /\ clients \in [Clients -> {"absent", "connected", "ready", "gone"}]
  /\ m_disconnect_flag \in [Clients -> BOOLEAN]
  /\ m_send_messages \in [Clients -> Seq(Message)]
  /\ sentAt \in [Clients -> Nat]

\* Every variable has its type; the cache holds templates under ids already given out.
TypeOK == NodeTypeOK /\ CacheTypeOK /\ ControlTypeOK /\ ThreadTypeOK /\ ClientTypeOK

\* Where a queue holds templates, and where it holds the last one / the last prevhash.
TemplatesIn(q) == {i \in DOMAIN q : q[i].type \in TemplateMsgs}
LastTemplateIn(q) == {i \in TemplatesIn(q) : \A j \in TemplatesIn(q) : j <= i}
PrevHashesIn(q) == {i \in DOMAIN q : q[i].type = "SetNewPrevHash"}

\* No thread but its own has read c's id: c was not given the memory of another thread's
\* client before that thread started.
ServedAlone(c) == \A d \in Clients : (client_id[d] = c /\ pc[d] # "spawned") => d = c

\* The ids of the templates a client is sent strictly increase, whatever the other
\* clients' threads do between ++m_template_id and SendWork (messages.h:254), as long as
\* no other thread sends to this client.
TemplateIdsIncrease ==
  \A c \in Clients : ServedAlone(c) =>
    \A i, j \in TemplatesIn(m_send_messages[c]) :
      i < j => m_send_messages[c][i].id < m_send_messages[c][j].id

\* A template id in a message means the template the cache holds under it, the one
\* RequestTransactionData and SubmitSolution will use (messages.h:244).
IdMatchesCache(m) == m.id \in DOMAIN m_block_template_cache => m_block_template_cache[m.id] = m.tmpl

\* The first template a client is sent, under the id reserved for it before
\* createNewBlock, is the one cached under that id.
FirstTemplateMatchesCache ==
  \A c \in Clients : \A i \in TemplatesIn(m_send_messages[c]) :
    (\A j \in TemplatesIn(m_send_messages[c]) : i <= j) => IdMatchesCache(m_send_messages[c][i])

\* Every template a client is sent is the one cached under its id.
EveryTemplateMatchesCache ==
  \A c \in Clients : \A i \in TemplatesIn(m_send_messages[c]) : IdMatchesCache(m_send_messages[c][i])

\* A template with future_template unset relates to the last SetNewPrevHash the client
\* was sent (messages.h:258-260): both name the same block.
JobMatchesLastPrevHash ==
  \A c \in Clients : LET q == m_send_messages[c] IN
    \A i \in DOMAIN q : q[i].type = "NewTemplate" =>
      \E j \in PrevHashesIn(q) : /\ j < i /\ q[j].tmpl.prev = q[i].tmpl.prev
                                 /\ \A k \in PrevHashesIn(q) : k < i => k <= j

\* future_template is set when there is a new prevhash, not when there is only a fee
\* increase (template_provider.cpp:326-327).
FeeUpdateIsNotFuture ==
  \A c \in Clients : LET q == m_send_messages[c] IN
    \A i, j \in TemplatesIn(q) :
      (i < j /\ q[i].tmpl.prev = q[j].tmpl.prev /\ \A k \in TemplatesIn(q) : k <= i \/ k >= j)
        => q[j].type = "NewTemplate"

\* The prevhash of t was replaced as m_best_prev_hash at least Grace seconds ago.
Displaced(t) == t.prev # m_best_prev_hash /\ now - bestUntil[t.prev] >= Grace

\* Nothing is dropped from the cache, or refused as stale, that is not displaced.
GraceStep ==
  /\ \A i \in DOMAIN m_block_template_cache \ DOMAIN m_block_template_cache' :
       Displaced(m_block_template_cache[i])
  /\ \A c \in Clients : LET q == m_send_messages[c]
                            n == Len(q) + 1 IN
       (n \in DOMAIN m_send_messages'[c] /\ m_send_messages'[c][n].type = "Stale")
         => Displaced(m_send_messages'[c][n].tmpl)

\* A template is neither dropped from the cache nor refused as stale until the grace
\* period after the block that replaced it is over (template_provider.h:101,172).
GraceRespected == [][GraceStep]_vars

\* Pruning forgets only templates from before the node's last block (template_provider.h:172),
\* at whatever times the client threads learn of that block.
PruneKeepsTip ==
  [][\A i \in DOMAIN m_block_template_cache \ DOMAIN m_block_template_cache' :
       m_block_template_cache[i].prev # tip]_vars

\* -sv2interval: a template that only raises the fees is sent at least Interval seconds
\* after the previous template (template_provider.cpp:330-332).
FeeUpdatesSpaced ==
  [][\A c \in Clients : LET q == m_send_messages[c]
                            n == Len(q) + 1 IN
       \A i \in LastTemplateIn(q) :
         (/\ n \in DOMAIN m_send_messages'[c]
          /\ m_send_messages'[c][n].type \in TemplateMsgs
          /\ m_send_messages'[c][n].tmpl.prev = q[i].tmpl.prev) => now - sentAt[c] >= Interval]_vars

\* The client is set up, stays, and templates are being served.
Served(c) == clients[c] = "ready" /\ ~m_disconnect_flag[c] /\ (Signet \/ ~ibd) /\ main = "running"

\* The last SetNewPrevHash the client was sent is for block h.
WorksOn(c, h) == LET q == m_send_messages[c] IN
  \E j \in PrevHashesIn(q) : q[j].tmpl.prev = h /\ \A k \in PrevHashesIn(q) : k <= j

\* A client that stays connected ends up on the node's tip once that is stable, whatever
\* its thread was doing when the tip changed.
TipReachesClient ==
  \A c \in Clients : \A h \in 1..MaxBlocks :
    <>[](Served(c) /\ tip = h) => <>[]WorksOn(c, h)

\* Interrupt and StopThreads come to an end, even if interruptWait() missed a thread.
ShutdownCompletes == main = "interrupting" ~> main = "stopped"

\* The provider's view of the connection manager.
Service == INSTANCE ClientService WITH
  state <- [c \in Clients |-> IF clients[c] = "connected" THEN "absent" ELSE clients[c]],
  flagged <- m_disconnect_flag, out <- m_send_messages,
  WorkMsgs <- [type : TemplateMsgs \cup {"SetNewPrevHash"}, id : Nat, tmpl : Template]

\* Whatever the client threads and the calls of the sockets thread do to the queues and
\* the flags is within what ClientService allows: work only for a client that asked for
\* it and was not removed since, although client_id and job are used long after they
\* were looked up; as long as no freed memory is reused.
ServesClients == Service!Spec
=============================================================================
