------------------------------ MODULE Sv2Main -------------------------------
(* The sv2-tp process from its start to its exit: the connection to the node,  *)
(* the key files, the threads of the template provider as users of the node's  *)
(* objects, the detached thread that saves a block, signals, and the order in  *)
(* which everything is destroyed.  What the threads compute is in              *)
(* Sv2TemplateProvider; here a template is the object itself, one at a time,   *)
(* with the shared_ptrs that own it, and a call is a call through EventLoop.   *)
EXTENDS EventLoop

CONSTANTS
  Signet,             \* gArgs.GetChainType() == ChainType::SIGNET
  ServeAfterError,    \* bound: whether a start whose key files failed is followed further
  RequestWhileSaving  \* bound: whether clients ask for transactions after a solution

ASSUME MainAssumption ==
  /\ Threads = {"main", "handler", "client", "sockets", "saver"}
  /\ Proxies = {"init", "mining", "tmpl"} /\ InitProxy = "init" /\ WithDestroy = {"tmpl"}
  /\ Signet \in BOOLEAN /\ ServeAfterError \in BOOLEAN /\ RequestWhileSaving \in BOOLEAN

VARIABLES
  at,          \* where each thread is in the code of sv2-tp
  owners,      \* the shared_ptrs to the template: the cache's and the threads'
  m_tp_mutex,  \* the thread that holds it, or Null
  g_interrupt,
  m_flag_interrupt_sv2,
  key,         \* the keys of this process: "first" if generated before any start listened
  file,        \* the key in each file; "none" if there is none that can be read
  served,      \* history: some start listened
  diskError    \* history: a key file could not be read or written

lifeVars == <<at, owners, m_tp_mutex, g_interrupt, m_flag_interrupt_sv2>>
keyVars == <<key, file, served, diskError>>
mainVars == <<lifeVars, keyVars>>

Keys == {"static", "authority"}

MainInit ==
  /\ Init
  /\ at = [t \in Threads |-> IF t = "main" THEN "connect" ELSE "none"]
  /\ owners = {} /\ m_tp_mutex = Null /\ g_interrupt = FALSE /\ m_flag_interrupt_sv2 = FALSE
  /\ key = [k \in Keys |-> "none"] /\ file = [k \in Keys |-> "none"]
  /\ served = FALSE /\ diskError = FALSE

\* Thread t, in no call and no destructor, goes on from a to b.
Goes(t, a, b) == Idle(t) /\ at[t] = a /\ at' = [at EXCEPT ![t] = b]

\* Nothing but at changes in this module.
OnlyAt == UNCHANGED <<owners, m_tp_mutex, g_interrupt, m_flag_interrupt_sv2, keyVars>>

\* o gives up its shared_ptr; the last one destroys the template on its thread.
Release(t, o) ==
  /\ owners' = owners \ {o}
  /\ IF owners = {o} THEN Destroy(t, "tmpl") ELSE UNCHANGED vars

-----------------------------------------------------------------------------
(* main() and the constructor of Sv2TemplateProvider.                      *)

\* connectAddress, retried until the node is there.
ConnectAddress ==
  \/ Goes("main", "connect", "connect") /\ StartLoop("main") /\ OnlyAt
  \/ Goes("main", "connect", "make") /\ loop # "none" /\ Connect("main") /\ OnlyAt

MakeMining ==
  \/ Goes("main", "make", "made") /\ Call("main", "init", "mining") /\ OnlyAt
  \/ Goes("main", "made", "read_static") /\ proxy("mining") \in refs /\ UNCHANGED vars /\ OnlyAt
  \/ Goes("main", "made", "made") /\ proxy("mining") \notin refs /\ Terminate("main") /\ OnlyAt

ReadAt == [static |-> "read_static", authority |-> "read_authority"]
OpenAt == [static |-> "open_static", authority |-> "open_authority"]
WriteAt == [static |-> "write_static", authority |-> "write_authority"]
KeyDone == [static |-> "read_authority", authority |-> "start"]

\* MUTANT: the key read from the file is not used.
ReadKeyIgnored(k) ==
  /\ Goes("main", ReadAt[k], OpenAt[k])
  /\ key' = [key EXCEPT ![k] = IF served THEN "later" ELSE "first"]
  /\ UNCHANGED <<vars, owners, m_tp_mutex, g_interrupt, m_flag_interrupt_sv2, file, served, diskError>>

\* A file that is missing, empty or cut short raises like one that cannot be read.
ReadKey(k) ==
  /\ \/ /\ Goes("main", ReadAt[k], KeyDone[k]) /\ file[k] # "none"
        /\ key' = [key EXCEPT ![k] = file[k]] /\ UNCHANGED diskError
     \/ /\ Goes("main", ReadAt[k], OpenAt[k])
        /\ key' = [key EXCEPT ![k] = IF served THEN "later" ELSE "first"]
        /\ diskError' = (diskError \/ file[k] # "none")
  /\ UNCHANGED <<vars, owners, m_tp_mutex, g_interrupt, m_flag_interrupt_sv2, file, served>>

\* fopen(..., "wb") empties the file.
OpenKey(k) ==
  /\ \/ /\ Goes("main", OpenAt[k], WriteAt[k])
        /\ file' = [file EXCEPT ![k] = "none"] /\ UNCHANGED diskError
     \/ Goes("main", OpenAt[k], KeyDone[k]) /\ diskError' = TRUE /\ UNCHANGED file
  /\ UNCHANGED <<vars, owners, m_tp_mutex, g_interrupt, m_flag_interrupt_sv2, key, served>>

WriteKey(k) ==
  /\ Goes("main", WriteAt[k], KeyDone[k])
  /\ \/ file' = [file EXCEPT ![k] = key[k]] /\ UNCHANGED diskError
     \/ diskError' = TRUE /\ UNCHANGED file
  /\ UNCHANGED <<vars, owners, m_tp_mutex, g_interrupt, m_flag_interrupt_sv2, key, served>>

\* Start: without the port main() returns, and the provider is destroyed.
Start ==
  /\ Idle("main") /\ at["main"] = "start"
  /\ \/ /\ at' = [at EXCEPT !["main"] = "register", !["handler"] = "ibd", !["sockets"] = "run"]
        /\ (diskError => ServeAfterError)
        /\ served' = TRUE
     \/ at' = [at EXCEPT !["main"] = "join_sockets"] /\ UNCHANGED served
  /\ UNCHANGED <<vars, owners, m_tp_mutex, g_interrupt, m_flag_interrupt_sv2, key, file, diskError>>

RegisterSignalHandlers == Goes("main", "register", "serve") /\ UNCHANGED vars /\ OnlyAt

\* Before that a signal kills the process.
HandleSIGTERM ==
  /\ at["main"] = "serve" /\ ~aborted /\ g_interrupt' = TRUE
  /\ UNCHANGED <<vars, at, owners, m_tp_mutex, m_flag_interrupt_sv2, keyVars>>

Interrupted == Goes("main", "serve", "interrupt") /\ g_interrupt /\ UNCHANGED vars /\ OnlyAt

-----------------------------------------------------------------------------
(* Interrupt, StopThreads and the destructors, in their order.             *)

\* MUTANT: the mutex is not released when interruptWait returns.
InterruptKeepsLock(a, b, c) ==
  \/ /\ Goes("main", a, b) /\ m_tp_mutex = Null /\ "cache" \in owners
     /\ Call("main", "tmpl", Null) /\ m_tp_mutex' = "main"
     /\ UNCHANGED <<owners, g_interrupt, m_flag_interrupt_sv2, keyVars>>
  \/ /\ \/ Goes("main", a, c) /\ m_tp_mutex = Null /\ "cache" \notin owners
        \/ Goes("main", b, c)
     /\ m_flag_interrupt_sv2' = TRUE
     /\ UNCHANGED <<vars, owners, m_tp_mutex, g_interrupt, keyVars>>

\* Interrupt is called by main() and again by the destructor; a is where, b where the
\* call of interruptWait returns to, and c what follows.
Interrupt(a, b, c) ==
  \/ /\ Goes("main", a, b) /\ m_tp_mutex = Null /\ "cache" \in owners
     /\ Call("main", "tmpl", Null) /\ m_tp_mutex' = "main"
     /\ UNCHANGED <<owners, g_interrupt, m_flag_interrupt_sv2, keyVars>>
  \/ /\ \/ Goes("main", a, c) /\ m_tp_mutex = Null /\ "cache" \notin owners
        \/ Goes("main", b, c)
     /\ m_tp_mutex' = Null /\ m_flag_interrupt_sv2' = TRUE
     /\ UNCHANGED <<vars, owners, g_interrupt, keyVars>>

\* MUTANT: the handler thread is not joined.
StopThreadsDetached == Goes("main", "join_handler", "join_sockets") /\ UNCHANGED vars /\ OnlyAt

StopThreads ==
  /\ Goes("main", "join_handler", "join_sockets") /\ at["handler"] = "done"
  /\ UNCHANGED vars /\ OnlyAt

ConnmanStopThreads ==
  /\ Goes("main", "join_sockets", "interrupt_again") /\ at["sockets"] \in {"none", "done"}
  /\ UNCHANGED vars /\ OnlyAt

DropCache ==
  /\ Goes("main", "drop_cache", "drop_mining") /\ Release("main", "cache")
  /\ UNCHANGED <<m_tp_mutex, g_interrupt, m_flag_interrupt_sv2, keyVars>>

DropMining == Goes("main", "drop_mining", "drop_init") /\ Destroy("main", "mining") /\ OnlyAt

DropInit == Goes("main", "drop_init", "drop_protocol") /\ Destroy("main", "init") /\ OnlyAt

\* MUTANT: the loop's thread is not joined.
DropProtocolDetached ==
  \/ Goes("main", "drop_protocol", "join_loop") /\ DropLoop("main") /\ OnlyAt
  \/ Goes("main", "join_loop", "exited") /\ UNCHANGED vars /\ OnlyAt

DropProtocol ==
  \/ Goes("main", "drop_protocol", "join_loop") /\ DropLoop("main") /\ OnlyAt
  \/ Goes("main", "join_loop", "exited") /\ loop = "gone" /\ UNCHANGED vars /\ OnlyAt

Main ==
  \/ ConnectAddress \/ MakeMining \/ (\E k \in Keys : ReadKey(k) \/ OpenKey(k) \/ WriteKey(k))
  \/ Start \/ RegisterSignalHandlers \/ Interrupted
  \/ Interrupt("interrupt", "interrupting", "join_handler") \/ StopThreads \/ ConnmanStopThreads
  \/ Interrupt("interrupt_again", "interrupting_again", "drop_cache")
  \/ DropCache \/ DropMining \/ DropInit \/ DropProtocol

-----------------------------------------------------------------------------
(* The provider's threads.                                                 *)

\* The thread returns, and its thread_local ThreadContext is destroyed.
ThreadEnd(t) ==
  \/ Goes(t, "exit", "exit") /\ Exit(t) /\ OnlyAt
  \/ Goes(t, "exit", "done") /\ conn_threads(t) \notin refs /\ UNCHANGED vars /\ OnlyAt

\* The wait for the end of IBD: what isInitialBlockDownload raises is not caught.
WaitForIBD ==
  \/ /\ Goes("handler", "ibd", "clients") /\ (~Signet => m_flag_interrupt_sv2)
     /\ UNCHANGED vars /\ OnlyAt
  \/ /\ Goes("handler", "ibd", "ibd_reply") /\ ~m_flag_interrupt_sv2 /\ ~Signet
     /\ Call("handler", "mining", Null) /\ OnlyAt
  \/ /\ reply["handler"] = "ok" /\ UNCHANGED vars /\ OnlyAt
     /\ Goes("handler", "ibd_reply", "ibd") \/ Goes("handler", "ibd_reply", "clients")
  \/ /\ Goes("handler", "ibd_reply", "ibd_reply") /\ reply["handler"] = "raised"
     /\ Terminate("handler") /\ OnlyAt

\* Under m_tp_mutex, which is held while the template is destroyed.
PruneBlockTemplateCache ==
  \/ /\ Goes("handler", "clients", "pruning")
     /\ ~m_flag_interrupt_sv2 /\ m_tp_mutex = Null /\ "cache" \in owners
     /\ Release("handler", "cache") /\ m_tp_mutex' = "handler"
     /\ UNCHANGED <<g_interrupt, m_flag_interrupt_sv2, keyVars>>
  \/ /\ Goes("handler", "pruning", "clients") /\ m_tp_mutex' = Null
     /\ UNCHANGED <<vars, owners, g_interrupt, m_flag_interrupt_sv2, keyVars>>

ThreadSv2Handler ==
  \/ WaitForIBD
  \/ /\ Idle("handler") /\ at["handler"] = "clients" /\ ~m_flag_interrupt_sv2
     /\ at["client"] = "none" /\ at' = [at EXCEPT !["client"] = "create"]
     /\ UNCHANGED vars /\ OnlyAt
  \/ PruneBlockTemplateCache
  \/ Goes("handler", "clients", "join_client") /\ m_flag_interrupt_sv2 /\ UNCHANGED vars /\ OnlyAt
  \/ /\ Goes("handler", "join_client", "exit") /\ at["client"] \in {"none", "done"}
     /\ UNCHANGED vars /\ OnlyAt
  \/ ThreadEnd("handler")

\* createNewBlock and getBlockHeader; the template is cached after both.
FirstTemplate ==
  \/ /\ Goes("client", "create", "created") /\ ~m_flag_interrupt_sv2
     /\ Call("client", "mining", "tmpl") /\ OnlyAt
  \/ Goes("client", "created", "exit") /\ proxy("tmpl") \notin refs /\ UNCHANGED vars /\ OnlyAt
  \/ /\ Goes("client", "created", "header") /\ proxy("tmpl") \in refs
     /\ Call("client", "tmpl", Null) /\ owners' = {"client"}
     /\ UNCHANGED <<m_tp_mutex, g_interrupt, m_flag_interrupt_sv2, keyVars>>
  \/ /\ Goes("client", "header", "wait") /\ reply["client"] = "ok" /\ m_tp_mutex = Null
     /\ owners' = owners \cup {"cache"}
     /\ UNCHANGED <<vars, m_tp_mutex, g_interrupt, m_flag_interrupt_sv2, keyVars>>
  \/ /\ Goes("client", "header", "drop") /\ reply["client"] = "raised"
     /\ UNCHANGED vars /\ OnlyAt

\* waitNext, here without a new template; the client may be gone after it.
WaitNext ==
  \/ /\ Goes("client", "wait", "waited") /\ ~m_flag_interrupt_sv2
     /\ Call("client", "tmpl", Null) /\ OnlyAt
  \/ Goes("client", "waited", "wait") /\ reply["client"] = "ok" /\ UNCHANGED vars /\ OnlyAt
  \/ Goes("client", "waited", "drop") /\ UNCHANGED vars /\ OnlyAt

ThreadSv2ClientHandler ==
  \/ Goes("client", "create", "exit") /\ m_flag_interrupt_sv2 /\ UNCHANGED vars /\ OnlyAt
  \/ FirstTemplate
  \/ WaitNext
  \/ Goes("client", "wait", "drop") /\ m_flag_interrupt_sv2 /\ UNCHANGED vars /\ OnlyAt
  \/ /\ Goes("client", "drop", "exit") /\ Release("client", "client")
     /\ UNCHANGED <<m_tp_mutex, g_interrupt, m_flag_interrupt_sv2, keyVars>>
  \/ ThreadEnd("client")

\* getBlock, under m_tp_mutex; what it raises is caught in EventGotData.
RequestTransactionData ==
  \/ /\ Goes("sockets", "run", "request") /\ ~m_flag_interrupt_sv2
     /\ m_tp_mutex = Null /\ "cache" \in owners
     /\ RequestWhileSaving \/ at["saver"] = "none"
     /\ Call("sockets", "tmpl", Null) /\ m_tp_mutex' = "sockets"
     /\ UNCHANGED <<owners, g_interrupt, m_flag_interrupt_sv2, keyVars>>
  \/ /\ Goes("sockets", "request", "run") /\ m_tp_mutex' = Null
     /\ UNCHANGED <<vars, owners, g_interrupt, m_flag_interrupt_sv2, keyVars>>

\* A solution is submitted, and the thread that saves the block gets a copy of the
\* shared_ptr.  What submitSolution raises is caught in EventGotData.
SubmitSolution ==
  \/ /\ Goes("sockets", "run", "submit") /\ ~m_flag_interrupt_sv2
     /\ m_tp_mutex = Null /\ "cache" \in owners /\ at["saver"] = "none"
     /\ Call("sockets", "tmpl", Null) /\ owners' = owners \cup {"sockets"}
     /\ UNCHANGED <<m_tp_mutex, g_interrupt, m_flag_interrupt_sv2, keyVars>>
  \/ /\ Idle("sockets") /\ at["sockets"] = "submit" /\ reply["sockets"] = "ok"
     /\ at' = [at EXCEPT !["sockets"] = "drop", !["saver"] = "sleep"]
     /\ owners' = owners \cup {"saver"}
     /\ UNCHANGED <<vars, m_tp_mutex, g_interrupt, m_flag_interrupt_sv2, keyVars>>
  \/ Goes("sockets", "submit", "drop") /\ reply["sockets"] = "raised" /\ UNCHANGED vars /\ OnlyAt
  \/ /\ Goes("sockets", "drop", "run") /\ Release("sockets", "sockets")
     /\ UNCHANGED <<m_tp_mutex, g_interrupt, m_flag_interrupt_sv2, keyVars>>

ThreadSocketHandler ==
  \/ RequestTransactionData \/ SubmitSolution
  \/ Goes("sockets", "run", "exit") /\ m_flag_interrupt_sv2 /\ UNCHANGED vars /\ OnlyAt
  \/ ThreadEnd("sockets")

\* The detached thread: half a second later it fetches the block and writes the file.
SaveBlockAsync ==
  \/ Goes("saver", "sleep", "got") /\ Call("saver", "tmpl", Null) /\ OnlyAt
  \/ Goes("saver", "got", "write") /\ reply["saver"] = "ok" /\ UNCHANGED vars /\ OnlyAt
  \/ Goes("saver", "got", "drop") /\ reply["saver"] = "raised" /\ UNCHANGED vars /\ OnlyAt
  \/ Goes("saver", "write", "drop") /\ UNCHANGED vars /\ OnlyAt
  \/ /\ Goes("saver", "drop", "exit") /\ Release("saver", "saver")
     /\ UNCHANGED <<m_tp_mutex, g_interrupt, m_flag_interrupt_sv2, keyVars>>
  \/ ThreadEnd("saver")

-----------------------------------------------------------------------------

\* The process is killed at any point, or has ended, and is started again.
StartAgain ==
  /\ Restart
  /\ at' = [t \in Threads |-> IF t = "main" THEN "connect" ELSE "none"]
  /\ owners' = {} /\ m_tp_mutex' = Null /\ g_interrupt' = FALSE /\ m_flag_interrupt_sv2' = FALSE
  /\ key' = [k \in Keys |-> "none"]
  /\ UNCHANGED <<file, served, diskError>>

Ipc == Step /\ UNCHANGED mainVars

Provider == ThreadSv2Handler \/ ThreadSv2ClientHandler \/ ThreadSocketHandler \/ SaveBlockAsync

MainNext == Main \/ HandleSIGTERM \/ Provider \/ Ipc \/ StartAgain

allVars == <<vars, mainVars>>

MainSpec == MainInit /\ [][MainNext]_allVars

-----------------------------------------------------------------------------
(* Properties *)

\* The threads of sv2-tp keep to the contract of the library: no object is used after it
\* is destroyed, or destroyed twice, in any order of threads, disconnects and signals.
\* This is Spec of EventLoop; the steps that leave the loop alone are tested first.
RespectsEventLoop == Init /\ [][UNCHANGED vars \/ Next]_vars

\* main() does not return before every thread it leaves behind has finished with the
\* node's objects and the data directory, the detached saver of a block included.
ExitsLast ==
  at["main"] = "exited" =>
    /\ \A t \in Threads \ {"main"} : at[t] \in {"none", "exit", "done"}
    /\ owners = {} /\ loop = "gone"

\* A client that was configured with the authority key of one start is served with the
\* same key after every restart and at whatever point the process was killed, as long as
\* the key file could be read and written.
AuthorityKept ==
  at["main"] \in {"register", "serve"} /\ ~diskError => key["authority"] = "first"

\* What the threads of the process, the loop and the node's answers do.
Progress ==
  \/ Main \/ Provider
  \/ /\ ~aborted /\ UNCHANGED mainVars
     /\ LoopStep \/ \E t \in Threads : ThreadStep(t) \/ Reply(t)

\* Once the provider is interrupted, the way to the exit is never blocked: whatever the
\* threads, the loop and the saver wait for, one of them can go on until main() returns.
ShutdownNotStuck ==
  m_flag_interrupt_sv2 /\ at["main"] # "exited" /\ ~aborted => ENABLED Progress
=============================================================================
