----------------------------- MODULE MainProofs -----------------------------
(* The process keeps to the contract of the IPC library, and with it all that   *)
(* EventLoopProofs shows of the library holds of the process: in any order of   *)
(* its threads, of answers, disconnects, signals, kills and restarts.           *)
EXTENDS Sv2Main, EventLoopProofs

-----------------------------------------------------------------------------
(* The inductive invariant: where the threads are, and which objects there are. *)

Fn(op, p, q) == [op |-> op, proxy |-> p, result |-> q]

CallTmpl == Fn("call", "tmpl", Null)
DestroyTmpl == {Fn("destroy", "tmpl", Null), Fn("cleanup", "tmpl", Null)}

\* Where a thread is while it calls the template, and where while it destroys it.
Calling == {<<"main", "interrupting">>, <<"main", "interrupting_again">>, <<"client", "header">>,
            <<"client", "waited">>, <<"sockets", "request">>, <<"sockets", "submit">>, <<"saver", "got">>}
Dropping == {<<"main", "drop_mining">>, <<"handler", "pruning">>, <<"client", "exit">>,
             <<"sockets", "run">>, <<"saver", "exit">>}

\* What thread t posted fits where it is in the code of sv2-tp.
WorkFits(t) ==
  \/ work[t] = NoWork
  \/ t = "main" /\ at[t] = "make" /\ work[t] = Fn("connect", "init", Null)
  \/ t = "main" /\ at[t] = "made" /\ work[t] = Fn("call", "init", "mining")
  \/ t = "main" /\ at[t] = "drop_init" /\ work[t] = Fn("cleanup", "mining", Null)
  \/ t = "main" /\ at[t] = "drop_protocol" /\ work[t] = Fn("cleanup", "init", Null)
  \/ t = "handler" /\ at[t] = "ibd_reply" /\ work[t] = Fn("call", "mining", Null)
  \/ t = "client" /\ at[t] = "created" /\ work[t] = Fn("call", "mining", "tmpl")
  \/ <<t, at[t]>> \in Calling /\ work[t] = CallTmpl
  \/ <<t, at[t]>> \in Dropping /\ work[t] \in DestroyTmpl
  \/ t # "main" /\ at[t] = "exit" /\ work[t] = Fn("exit", Null, Null)

\* Who owns the template, by where the threads are.
OwnersFit ==
  /\ owners \subseteq {"cache", "client", "sockets", "saver"}
  /\ "client" \in owners <=> at["client"] \in {"header", "wait", "waited", "drop"}
  /\ "sockets" \in owners <=> at["sockets"] \in {"submit", "drop"}
  /\ "saver" \in owners <=> at["saver"] \notin {"none", "exit", "done"}

\* A template that is owned exists and is not being destroyed; before the client's thread
\* has one there is none.
TemplateFits ==
  /\ owners # {} => /\ proxy("tmpl") \in refs
                    /\ \A t \in Threads : work[t].proxy = "tmpl" => work[t].op = "call"
  /\ at["client"] \in {"none", "create", "created"} =>
       owners = {} /\ \A t \in Threads : work[t].proxy # "tmpl"
  /\ at["client"] \in {"none", "create"} => proxy("tmpl") \notin refs

\* main() calls interruptWait, and the socket thread getBlock, on what is in the cache, which
\* stays there because pruning needs the mutex.
MutexFits ==
  /\ at["main"] \in {"interrupting", "interrupting_again"} => m_tp_mutex = "main" /\ "cache" \in owners
  /\ at["sockets"] = "request" => m_tp_mutex = "sockets" /\ "cache" \in owners
  /\ at["handler"] = "pruning" => m_tp_mutex = "handler"

KeyAt == {"read_static", "open_static", "write_static", "read_authority", "open_authority", "write_authority"}
Starting == {"connect", "make", "made", "start"} \cup KeyAt
Closing == {"interrupt_again", "interrupting_again", "drop_cache", "drop_mining", "drop_init",
            "drop_protocol", "join_loop", "exited"}

\* The order in which threads are started and joined.
JoinsFit ==
  /\ at["main"] \in Starting => \A t \in Threads : t # "main" => at[t] = "none"
  /\ at["main"] \in {"join_sockets"} \cup Closing => at["handler"] \in {"none", "done"}
  /\ at["main"] \in Closing => at["sockets"] \in {"none", "done"}
  /\ at["handler"] \in {"none", "exit", "done"} => at["client"] \in {"none", "done"}
  /\ at["sockets"] = "submit" => at["saver"] = "none"

\* The objects main() holds.
ObjectsFit ==
  /\ at["main"] = "connect" =>
       /\ connection \notin refs /\ proxy("init") \notin refs
       /\ loop # "none" => m_loop_ref \in refs
  /\ at["main"] \in {"connect", "make"} => proxy("mining") \notin refs
  /\ at["main"] \notin {"connect", "join_loop", "exited"} => m_loop_ref \in refs
  /\ at["main"] \notin {"connect", "drop_protocol", "join_loop", "exited"} =>
       proxy("init") \in refs \/ (at["main"] = "make" /\ work["main"] # NoWork)
  /\ at["main"] \notin {"connect", "make", "made", "drop_init", "drop_protocol", "join_loop", "exited"} =>
       proxy("mining") \in refs
  /\ at["main"] = "exited" => loop = "gone"

\* Until a key file fails: once a start has served, the file holds the authority key it
\* served with, and before that nothing but a key of the first kind was ever written.
KeyFits ==
  ~diskError =>
    /\ file["authority"] = "first" \/ (~served /\ file["authority"] = "none")
    /\ at["main"] \in {"open_authority", "write_authority"} => ~served /\ key["authority"] = "first"
    /\ at["main"] = "start" => key["authority"] = "first" /\ file["authority"] = "first"
    /\ at["main"] \in {"register", "serve"} => key["authority"] = "first"

ThreadFits == \A t \in Threads : WorkFits(t)

LifeInv == /\ DOMAIN at = Threads /\ ThreadFits
           /\ OwnersFit /\ TemplateFits /\ MutexFits /\ JoinsFit /\ ObjectsFit

KeyInv == DOMAIN at = Threads /\ DOMAIN key = Keys /\ DOMAIN file = Keys /\ KeyFits

-----------------------------------------------------------------------------
(* What the threads use, and what a step of the library does to it.          *)

LEMMA Names ==
  /\ "main" \in Threads /\ "handler" \in Threads /\ "client" \in Threads
  /\ "sockets" \in Threads /\ "saver" \in Threads
  /\ "init" \in Proxies /\ "mining" \in Proxies /\ "tmpl" \in Proxies
  /\ InitProxy = "init" /\ WithDestroy = {"tmpl"}
  /\ Null # "init" /\ Null # "mining" /\ Null # "tmpl"
BY MainAssumption, EventLoopAssumption, Zenon

LEMMA FnFields ==
  ASSUME NEW op, NEW p, NEW q
  PROVE  Fn(op, p, q).op = op /\ Fn(op, p, q).proxy = p /\ Fn(op, p, q).result = q
BY Zenon DEF Fn

LEMMA NoWorkIsFn == NoWork = Fn("none", Null, Null)
BY Zenon DEF NoWork, Fn

\* Which thread uses an object, or is to receive one, and where it then is.
LEMMA WhoUses ==
  ASSUME NEW t \in Threads, WorkFits(t)
  PROVE  /\ work[t].op = "none" => work[t] = NoWork
         /\ work[t].op = "connect" => t = "main" /\ at[t] = "make"
         /\ work[t].proxy = "init" => t = "main" /\ at[t] \in {"make", "made", "drop_protocol"}
         /\ work[t].proxy = "mining" => \/ t = "main" /\ at[t] = "drop_init" /\ work[t].op = "cleanup"
                                        \/ t = "handler" /\ at[t] = "ibd_reply" /\ work[t].op = "call"
                                        \/ t = "client" /\ at[t] = "created" /\ work[t].op = "call"
         /\ work[t].proxy = "tmpl" => \/ <<t, at[t]>> \in Calling /\ work[t].op = "call"
                                      \/ <<t, at[t]>> \in Dropping /\ work[t].op \in {"destroy", "cleanup"}
         /\ work[t].result = "mining" => t = "main" /\ at[t] = "made"
         /\ work[t].result = "tmpl" => t = "client" /\ at[t] = "created"
         /\ work[t].result \in {Null, "mining", "tmpl"}
BY Names DEF WorkFits, CallTmpl, DestroyTmpl, Fn, NoWork

-----------------------------------------------------------------------------
(* Every step of the process is a step the library allows.                   *)

\* A thread that is in no call uses nothing.
LEMMA IdleUsesNothing ==
  ASSUME IInv, LifeInv, NEW t \in Threads, Idle(t)
  PROVE  work[t] = NoWork /\ work[t].proxy = Null /\ work[t].result = Null
<1>1. work[t].op = "none" /\ WorkFits(t)
  BY Zenon DEF Idle, IInv, WorkInv, WorkOf, LifeInv, ThreadFits
<1>2. work[t] = NoWork
  BY <1>1, WhoUses, Zenon
<1>. QED  BY <1>2 DEF NoWork

\* connectAddress is called before there is a connection.
LEMMA ConnectAllowed ==
  ASSUME IInv, LifeInv, ConnectAddress
  PROVE  Next
<1>1. CASE StartLoop("main")
  BY <1>1, Names, Zenon DEF Next, Begin
<1>2. CASE Goes("main", "connect", "make") /\ loop # "none" /\ Connect("main")
  <2>1. at["main"] = "connect" /\ m_loop_ref \in refs /\ connection \notin refs /\ proxy(InitProxy) \notin refs
    BY <1>2, Names, Zenon DEF Goes, LifeInv, ObjectsFit
  <2>2. \A u \in Threads : ~Uses(u, InitProxy)
    BY <2>1, WhoUses, Names, Zenon DEF LifeInv, ThreadFits, Uses
  <2>. QED  BY <1>2, <2>1, <2>2, Names, Zenon DEF Next, Begin
<1>. QED  BY <1>1, <1>2, Zenon DEF ConnectAddress

\* makeMining is called once, on the object ConnectStream returned.
LEMMA MakeAllowed ==
  ASSUME IInv, LifeInv, MakeMining
  PROVE  Next \/ UNCHANGED vars
<1>1. CASE Goes("main", "make", "made") /\ Call("main", "init", "mining")
  <2>1. at["main"] = "make" /\ work["main"] = NoWork /\ Idle("main")
    BY <1>1, IdleUsesNothing, Names, Zenon DEF Goes
  <2>2. proxy("init") \in refs /\ proxy("mining") \notin refs
    BY <2>1, Zenon DEF LifeInv, ObjectsFit
  <2>3. Exists("init")
    <3>1. \A u \in Threads : work[u].proxy = "init" => u = "main"
      BY WhoUses, Zenon DEF LifeInv, ThreadFits
    <3>. QED  BY <2>1, <2>2, <3>1, Zenon DEF Uses, Exists, Idle
  <2>4. IsNew("mining")
    BY <2>1, <2>2, WhoUses, Names DEF LifeInv, ThreadFits, IsNew
  <2>. QED  BY <1>1, <2>3, <2>4, Names, Zenon DEF Next, Begin
<1>2. CASE Terminate("main")
  BY <1>2, Names, Zenon DEF Next, Begin
<1>. QED  BY <1>1, <1>2, Zenon DEF MakeMining

\* A call through the template by one of its owners, or by main() while it holds the
\* mutex that keeps it in the cache.
LEMMA CallTmplAllowed ==
  ASSUME IInv, LifeInv, NEW t \in Threads, owners # {}, Call(t, "tmpl", Null)
  PROVE  Next
<1>1. Exists("tmpl")
  BY Zenon DEF LifeInv, TemplateFits, Exists, Uses
<1>. QED  BY <1>1, Names, Zenon DEF Next, Begin

\* The last owner destroys the template; nobody else is in a call through it, since who
\* calls it owns it, or holds the mutex and so keeps it in the cache.
LEMMA ReleaseAllowed ==
  ASSUME IInv, LifeInv, NEW t \in Threads, Idle(t), NEW o, Release(t, o),
         o = "cache" \/ o = t,
         o = "cache" => (t = "main" /\ at["main"] = "drop_cache") \/ m_tp_mutex = Null
  PROVE  Next \/ UNCHANGED vars
<1>1. CASE owners = {o} /\ Destroy(t, "tmpl")
  <2>1. proxy("tmpl") \in refs /\ \A u \in Threads : work[u].proxy = "tmpl" => work[u].op = "call"
    BY <1>1, Zenon DEF LifeInv, TemplateFits
  <2>2. ASSUME NEW u \in Threads, Uses(u, "tmpl")
        PROVE  FALSE
    <3>1. WorkFits(u) /\ work[u].proxy = "tmpl" /\ work[u].op = "call" /\ u # t
      BY <2>1, <2>2, Zenon DEF Uses, LifeInv, ThreadFits, Idle
    <3>2. <<u, at[u]>> \in Calling
      BY <3>1, WhoUses, Zenon
    <3>3. \/ u = "main" /\ at[u] \in {"interrupting", "interrupting_again"}
          \/ u = "client" /\ at[u] \in {"header", "waited"}
          \/ u = "sockets" /\ at[u] \in {"request", "submit"}
          \/ u = "saver" /\ at[u] = "got"
      BY <3>2, Zenon DEF Calling
    <3>4. CASE u = "main"
      <4>1. m_tp_mutex = "main" /\ "cache" \in owners
        BY <3>3, <3>4, Zenon DEF LifeInv, MutexFits
      <4>. QED  BY <1>1, <3>1, <3>4, <4>1, EventLoopAssumption, Names
    <3>5. CASE u = "sockets" /\ at[u] = "request"
      <4>1. m_tp_mutex = "sockets" /\ "cache" \in owners
        BY <3>5, Zenon DEF LifeInv, MutexFits
      <4>2. at["main"] = "drop_cache"
        BY <1>1, <4>1, EventLoopAssumption, Names
      <4>. QED  BY <3>5, <4>2, Zenon DEF LifeInv, JoinsFit, Closing
    <3>6. CASE u # "main" /\ ~(u = "sockets" /\ at[u] = "request")
      BY <1>1, <3>1, <3>3, <3>6, Zenon DEF LifeInv, OwnersFit
    <3>. QED  BY <3>4, <3>5, <3>6
  <2>3. Exists("tmpl")
    BY <2>1, Zenon DEF Exists, Uses
  <2>. QED  BY <1>1, <2>2, <2>3, Names, Zenon DEF Next, Begin
<1>. QED  BY <1>1, Zenon DEF Release

\* While threads of the provider run, main() holds the mining object.
LEMMA CallMiningAllowed ==
  ASSUME IInv, LifeInv, NEW t \in Threads, NEW q \in {Null, "tmpl"}, Call(t, "mining", q),
         at["handler"] = "ibd" \/ at["client"] = "create", q = "tmpl" => at["client"] = "create"
  PROVE  Next
<1>1. at["handler"] \notin {"none", "done"}
  BY Zenon DEF LifeInv, JoinsFit
<1>2. at["main"] \notin Starting /\ at["main"] \notin Closing
  BY <1>1, Names, Zenon DEF LifeInv, JoinsFit
<1>3. proxy("mining") \in refs
  BY <1>2, Zenon DEF LifeInv, ObjectsFit, Starting, KeyAt, Closing
<1>4. Exists("mining")
  <2>1. at["main"] # "drop_init"
    BY <1>2, Zenon DEF Closing
  <2>2. ASSUME NEW u \in Threads, work[u].proxy = "mining"
        PROVE  work[u].op = "call"
    <3>1. WorkFits(u)
      BY Zenon DEF LifeInv, ThreadFits
    <3>2. (u = "main" /\ at[u] = "drop_init") \/ work[u].op = "call"
      BY <2>2, <3>1, WhoUses, Zenon
    <3>. QED  BY <2>1, <3>2
  <2>. QED  BY <1>3, <2>2, Zenon DEF Exists, Uses
<1>5. q = "tmpl" => IsNew("tmpl")
  <2>. SUFFICES ASSUME q = "tmpl"
                PROVE  IsNew("tmpl")
    BY Zenon
  <2>1. at["client"] = "create" /\ proxy("tmpl") \notin refs
    BY Zenon DEF LifeInv, TemplateFits
  <2>. QED  BY <2>1, WhoUses DEF LifeInv, ThreadFits, IsNew
<1>. QED  BY <1>4, <1>5, Names, Zenon DEF Next, Begin

\* The mining and the init object are destroyed when all who use them were joined.
LEMMA DropMiningAllowed ==
  ASSUME IInv, LifeInv, DropMining
  PROVE  Next
<1>1. at["main"] = "drop_mining" /\ Idle("main") /\ work["main"] = NoWork
  BY IdleUsesNothing, Names, Zenon DEF DropMining, Goes
<1>2. at["handler"] \in {"none", "done"} /\ at["client"] \in {"none", "done"}
  BY <1>1, Zenon DEF LifeInv, JoinsFit, Closing
<1>3. proxy("mining") \in refs
  BY <1>1, Zenon DEF LifeInv, ObjectsFit
<1>4. \A u \in Threads : ~Uses(u, "mining")
  BY <1>1, <1>2, WhoUses, Zenon DEF LifeInv, ThreadFits, Uses
<1>. QED  BY <1>3, <1>4, Names, Zenon DEF DropMining, Next, Begin, Exists

LEMMA DropInitAllowed ==
  ASSUME IInv, LifeInv, DropInit
  PROVE  Next
<1>1. at["main"] = "drop_init" /\ Idle("main")
  BY Zenon DEF DropInit, Goes
<1>2. proxy("init") \in refs
  BY <1>1, Zenon DEF LifeInv, ObjectsFit
<1>3. \A u \in Threads : ~Uses(u, "init")
  BY <1>1, WhoUses, Zenon DEF LifeInv, ThreadFits, Uses
<1>. QED  BY <1>2, <1>3, Names, Zenon DEF DropInit, Next, Begin, Exists

LEMMA DropProtocolAllowed ==
  ASSUME IInv, LifeInv, DropProtocol
  PROVE  Next \/ UNCHANGED vars
<1>1. CASE Goes("main", "drop_protocol", "join_loop") /\ DropLoop("main")
  <2>1. m_loop_ref \in refs
    BY <1>1, Zenon DEF Goes, LifeInv, ObjectsFit
  <2>. QED  BY <1>1, <2>1, Names, Zenon DEF Next, Begin
<1>. QED  BY <1>1, Zenon DEF DropProtocol

LEMMA InterruptAllowed ==
  ASSUME IInv, LifeInv, NEW a, NEW b, NEW c, Interrupt(a, b, c)
  PROVE  Next \/ UNCHANGED vars
<1>1. CASE "cache" \in owners /\ Call("main", "tmpl", Null)
  BY <1>1, CallTmplAllowed, Names, Zenon
<1>. QED  BY <1>1, Zenon DEF Interrupt

LEMMA MainAllowed ==
  ASSUME IInv, LifeInv, Main
  PROVE  Next \/ UNCHANGED vars
<1>1. CASE \E k \in Keys : ReadKey(k) \/ OpenKey(k) \/ WriteKey(k)
  BY <1>1, Zenon DEF ReadKey, OpenKey, WriteKey
<1>2. CASE Start \/ RegisterSignalHandlers \/ Interrupted \/ StopThreads \/ ConnmanStopThreads
  BY <1>2, Zenon DEF Start, RegisterSignalHandlers, Interrupted, StopThreads, ConnmanStopThreads
<1>3. CASE DropCache
  <2>1. Idle("main") /\ at["main"] = "drop_cache" /\ Release("main", "cache")
    BY <1>3, Zenon DEF DropCache, Goes
  <2>. QED  BY <2>1, ReleaseAllowed, Names
<1>. QED  BY <1>1, <1>2, <1>3, ConnectAllowed, MakeAllowed, InterruptAllowed, DropMiningAllowed,
             DropInitAllowed, DropProtocolAllowed, Zenon DEF Main

LEMMA EndAllowed ==
  ASSUME NEW t \in Threads, ThreadEnd(t)
  PROVE  Next \/ UNCHANGED vars
BY Zenon DEF ThreadEnd, Next, Begin

LEMMA HandlerAllowed ==
  ASSUME IInv, LifeInv, ThreadSv2Handler
  PROVE  Next \/ UNCHANGED vars
<1>1. CASE WaitForIBD
  <2>1. CASE Goes("handler", "ibd", "ibd_reply") /\ Call("handler", "mining", Null)
    <3>1. at["handler"] = "ibd" /\ Null \in {Null, "tmpl"} /\ Null # "tmpl"
      BY <2>1, Names, Zenon DEF Goes
    <3>. QED  BY <2>1, <3>1, CallMiningAllowed, Names, Zenon
  <2>2. CASE Terminate("handler")
    BY <2>2, Names, Zenon DEF Next, Begin
  <2>. QED  BY <1>1, <2>1, <2>2, Zenon DEF WaitForIBD
<1>2. CASE PruneBlockTemplateCache
  <2>1. CASE Goes("handler", "clients", "pruning") /\ m_tp_mutex = Null /\ Release("handler", "cache")
    BY <2>1, ReleaseAllowed, Names, Zenon DEF Goes
  <2>. QED  BY <1>2, <2>1, Zenon DEF PruneBlockTemplateCache
<1>. QED  BY <1>1, <1>2, EndAllowed, Names, Zenon DEF ThreadSv2Handler

LEMMA ClientAllowed ==
  ASSUME IInv, LifeInv, ThreadSv2ClientHandler
  PROVE  Next \/ UNCHANGED vars
<1>1. CASE FirstTemplate
  <2>1. CASE Goes("client", "create", "created") /\ Call("client", "mining", "tmpl")
    BY <2>1, CallMiningAllowed, Names, Zenon DEF Goes
  <2>2. CASE Goes("client", "created", "header") /\ proxy("tmpl") \in refs /\ Call("client", "tmpl", Null)
    <3>1. Exists("tmpl")
      BY <2>2, Zenon DEF Goes, LifeInv, TemplateFits, Exists, Uses
    <3>. QED  BY <2>2, <3>1, Names, Zenon DEF Next, Begin
  <2>. QED  BY <1>1, <2>1, <2>2, Zenon DEF FirstTemplate
<1>2. CASE WaitNext
  <2>1. CASE Goes("client", "wait", "waited") /\ Call("client", "tmpl", Null)
    <3>1. owners # {}
      BY <2>1, Zenon DEF Goes, LifeInv, OwnersFit
    <3>. QED  BY <2>1, <3>1, CallTmplAllowed, Names
  <2>. QED  BY <1>2, <2>1, Zenon DEF WaitNext
<1>3. CASE Goes("client", "drop", "exit") /\ Release("client", "client")
  BY <1>3, ReleaseAllowed, Names, Zenon DEF Goes
<1>. QED  BY <1>1, <1>2, <1>3, EndAllowed, Names, Zenon DEF ThreadSv2ClientHandler

LEMMA SocketsAllowed ==
  ASSUME IInv, LifeInv, ThreadSocketHandler
  PROVE  Next \/ UNCHANGED vars
<1>1. CASE SubmitSolution
  <2>1. CASE "cache" \in owners /\ Call("sockets", "tmpl", Null)
    BY <2>1, CallTmplAllowed, Names, Zenon
  <2>2. CASE Goes("sockets", "drop", "run") /\ Release("sockets", "sockets")
    BY <2>2, ReleaseAllowed, Names, Zenon DEF Goes
  <2>. QED  BY <1>1, <2>1, <2>2, Zenon DEF SubmitSolution
<1>2. CASE RequestTransactionData
  <2>1. CASE "cache" \in owners /\ Call("sockets", "tmpl", Null)
    BY <2>1, CallTmplAllowed, Names, Zenon
  <2>. QED  BY <1>2, <2>1, Zenon DEF RequestTransactionData
<1>. QED  BY <1>1, <1>2, EndAllowed, Names, Zenon DEF ThreadSocketHandler

LEMMA SaverAllowed ==
  ASSUME IInv, LifeInv, SaveBlockAsync
  PROVE  Next \/ UNCHANGED vars
<1>1. CASE Goes("saver", "sleep", "got") /\ Call("saver", "tmpl", Null)
  <2>1. owners # {}
    BY <1>1, Zenon DEF Goes, LifeInv, OwnersFit
  <2>. QED  BY <1>1, <2>1, CallTmplAllowed, Names
<1>2. CASE Goes("saver", "drop", "exit") /\ Release("saver", "saver")
  BY <1>2, ReleaseAllowed, Names, Zenon DEF Goes
<1>. QED  BY <1>1, <1>2, EndAllowed, Names, Zenon DEF SaveBlockAsync

\* The contract of the library, step by step.
LEMMA Contract ==
  ASSUME IInv, LifeInv, [MainNext]_allVars
  PROVE  Next \/ UNCHANGED vars
<1>1. CASE Provider
  BY <1>1, HandlerAllowed, ClientAllowed, SocketsAllowed, SaverAllowed, Zenon DEF Provider
<1>2. CASE HandleSIGTERM \/ UNCHANGED allVars
  BY <1>2, Zenon DEF HandleSIGTERM, allVars
<1>3. CASE Ipc \/ StartAgain
  BY <1>3, Zenon DEF Ipc, StartAgain, Next
<1>. QED  BY <1>1, <1>2, <1>3, MainAllowed, Zenon DEF MainNext

-----------------------------------------------------------------------------
(* The steps of the library leave the invariant alone.                       *)

\* The objects there are stay the same, references to the connection and of threads aside.
SameObjects ==
  /\ m_loop_ref \in refs' <=> m_loop_ref \in refs
  /\ \A p : proxy(p) \in refs' <=> proxy(p) \in refs

\* What a step of thread t or of the loop does to the objects and to what is posted.
Quiet == work' = work /\ SameObjects

Constructs(t) ==
  /\ work[t].op = "connect" /\ work' = [work EXCEPT ![t] = NoWork]
  /\ refs' = refs \cup {proxy(InitProxy)}

Returns(t) ==
  /\ work[t].op = "call" /\ work' = [work EXCEPT ![t] = NoWork] /\ refs' = refs

Destroys(t) ==
  /\ work[t].op = "destroy" /\ work' = [work EXCEPT ![t] = Fn("cleanup", work[t].proxy, Null)]
  /\ SameObjects

Drops(t) ==
  /\ work[t].op \in {"cleanup", "exit"} /\ work' = [work EXCEPT ![t] = NoWork]
  /\ refs' = refs \ {IF work[t].op = "exit" THEN conn_threads(t) ELSE proxy(work[t].proxy)}

Receives(t) ==
  /\ work' = work /\ work[t].result # Null
  /\ refs' = refs \cup {proxy(work[t].result)}

LEMMA ThreadEffect ==
  ASSUME IInv, NEW t \in Threads, ThreadStep(t)
  PROVE  /\ Quiet \/ Constructs(t) \/ Returns(t) \/ Destroys(t) \/ Drops(t)
         /\ loop' = loop /\ (connection \in refs' => connection \in refs)
<1>1. WorkOf(t)
  BY Zenon DEF IInv, WorkInv
<1>2. CASE WaitForSlot(t) \/ WritePost(t) \/ WriteWake(t)
  BY <1>2, Zenon DEF WaitForSlot, WritePost, WriteWake, Quiet, SameObjects
<1>3. CASE WaitForRun(t)
  <2>1. work' = work /\ loop' = loop /\ (refs' = refs \/ refs' = refs \ {post(t)})
    BY <1>3, Zenon DEF WaitForRun, Reset
  <2>. QED  BY <2>1, RefsDistinct, Zenon DEF Quiet, SameObjects
<1>4. CASE Construct(t)
  <2>1. Constructs(t) /\ loop' = loop
    BY <1>1, <1>4, Zenon DEF Construct, Constructs, WorkOf
  <2>. QED  BY <2>1, RefsDistinct, Zenon DEF Constructs
<1>5. CASE Return(t)
  <2>1. CASE work[t].op = "call" /\ work' = [work EXCEPT ![t] = NoWork] /\ UNCHANGED <<refs, loop>>
    BY <2>1, Zenon DEF Returns
  <2>2. CASE work[t].op = "destroy" /\ DoPost(t, "cleanup", work[t].proxy, Null)
    <3>1. /\ refs' = refs \cup {post(t)} /\ work' = [work EXCEPT ![t] = Fn("cleanup", work[t].proxy, Null)]
          /\ loop' = loop
      BY <2>2, Zenon DEF DoPost, Post, Fn
    <3>. QED  BY <2>2, <3>1, RefsDistinct, Zenon DEF Destroys, SameObjects
  <2>3. CASE UNCHANGED <<refs, work, loop>>
    BY <2>3, Zenon DEF Quiet, SameObjects
  <2>. QED  BY <1>5, <2>1, <2>2, <2>3, Zenon DEF Return
<1>6. CASE Unref(t)
  <2>1. Drops(t) /\ loop' = loop
    BY <1>1, <1>6, Zenon DEF Unref, Reset, Drops, WorkOf
  <2>. QED  BY <2>1, Zenon DEF Drops
<1>. QED  BY <1>2, <1>3, <1>4, <1>5, <1>6, Zenon DEF ThreadStep

LEMMA LoopEffect ==
  ASSUME IInv, LoopStep \/ Disconnect \/ \E t \in Threads : Reply(t)
  PROVE  /\ Quiet \/ \E t \in Threads : Receives(t)
         /\ loop' = "none" <=> loop = "none"
         /\ loop = "gone" => loop' = "gone"
         /\ connection \in refs' => connection \in refs \/ \E t \in Threads : work[t].op = "connect"
<1>1. CASE LoopRead \/ LoopWoken \/ LoopRan \/ LoopClose \/ LoopEnd
  BY <1>1, Zenon DEF LoopRead, LoopWoken, LoopRan, LoopClose, LoopEnd, Quiet, SameObjects
<1>2. CASE LoopRun
  <2>1. PICK t \in Threads : RunFn(t)
    BY <1>2, Zenon DEF LoopRun
  <2>2. work' = work /\ loop = "run" /\ loop' = "ran"
    BY <1>2, Zenon DEF LoopRun
  <2>3. \/ refs' = refs \/ (work[t].op = "connect" /\ refs' = refs \cup {connection})
        \/ refs' = refs \cup {conn_threads(t)} \/ refs' = refs \ ({connection} \cup ConnThreads)
    BY <2>1, Zenon DEF RunFn, DeleteConnection
  <2>4. SameObjects
    BY <2>3, RefsDistinct, Zenon DEF SameObjects, ConnThreads
  <2>5. connection \in refs' => connection \in refs \/ work[t].op = "connect"
    BY <2>3, RefsDistinct, Zenon
  <2>. QED  BY <2>2, <2>4, <2>5 DEF Quiet
<1>3. CASE Disconnect
  <2>1. work' = work /\ loop' = loop /\ refs' = refs \ ({connection} \cup ConnThreads)
    BY <1>3, Zenon DEF Disconnect, DeleteConnection
  <2>2. SameObjects
    BY <2>1, RefsDistinct, Zenon DEF SameObjects, ConnThreads
  <2>. QED  BY <2>1, <2>2, Zenon DEF Quiet
<1>4. ASSUME NEW t \in Threads, Reply(t)
      PROVE  /\ Quiet \/ Receives(t)
             /\ loop' = loop /\ (connection \in refs' => connection \in refs)
  <2>1. work' = work /\ loop' = loop
    BY <1>4, Zenon DEF Reply
  <2>2. refs' = refs \/ (work[t].result # Null /\ refs' = refs \cup {proxy(work[t].result)})
    <3>1. refs' \in {refs, refs \cup {proxy(q) : q \in {work[t].result} \ {Null}}} \/ refs' = refs
      BY <1>4, Zenon DEF Reply
    <3>. QED  BY <3>1
  <2>. QED  BY <2>1, <2>2, RefsDistinct, Zenon DEF Quiet, Receives, SameObjects
<1>. QED  BY <1>1, <1>2, <1>3, <1>4, Zenon DEF LoopStep

\* A step that changes what thread t posted, and nothing of this module.
LEMMA WorkChange ==
  ASSUME IInv, LifeInv, NEW t \in Threads, NEW w, work' = [work EXCEPT ![t] = w]
  PROVE  work'[t] = w /\ \A u \in Threads : u # t => work'[u] = work[u]
BY Zenon DEF IInv, TypeOK

LEMMA FitsKept ==
  ASSUME NEW t, WorkFits(t), work'[t] = work[t], at'[t] = at[t]
  PROVE  WorkFits(t)'
BY ZenonT(40) DEF WorkFits

LEMMA FitsIdle ==
  ASSUME NEW t, work'[t] = NoWork
  PROVE  WorkFits(t)'
BY Zenon DEF WorkFits

LEMMA IpcPreserves ==
  ASSUME IInv, LifeInv, Ipc
  PROVE  LifeInv'
<1>0. at' = at /\ owners' = owners /\ m_tp_mutex' = m_tp_mutex
  BY Zenon DEF Ipc, mainVars, lifeVars
<1>1. /\ loop' = "none" <=> loop = "none"
      /\ loop = "gone" => loop' = "gone"
      /\ connection \in refs' => connection \in refs \/ \E t \in Threads : work[t].op = "connect"
  BY ThreadEffect, LoopEffect, Zenon DEF Ipc, Step
<1>2. Quiet \/ \E t \in Threads : Constructs(t) \/ Returns(t) \/ Destroys(t) \/ Drops(t) \/ Receives(t)
  BY ThreadEffect, LoopEffect, Zenon DEF Ipc, Step
<1>3. at["main"] = "connect" => connection \notin refs'
  <2>1. ASSUME NEW t \in Threads, work[t].op = "connect"
        PROVE  at["main"] = "make"
    <3>1. WorkFits(t)
      BY Zenon DEF LifeInv, ThreadFits
    <3>. QED  BY <2>1, <3>1, WhoUses, Zenon
  <2>. QED  BY <1>1, <2>1 DEF LifeInv, ObjectsFit
<1>4. ThreadFits' /\ TemplateFits' /\ ObjectsFit'
  <2>1. CASE Quiet
    <3>1. work' = work /\ SameObjects
      BY <2>1, Zenon DEF Quiet
    <3>2. ThreadFits'
      BY <1>0, <3>1, FitsKept, FitsIdle, Zenon DEF LifeInv, ThreadFits
    <3>3. TemplateFits'
      BY <1>0, <3>1, Zenon DEF LifeInv, TemplateFits, SameObjects
    <3>4. ObjectsFit'
      BY <1>0, <1>1, <1>3, <3>1, Zenon DEF LifeInv, ObjectsFit, SameObjects
    <3>. QED  BY <3>2, <3>3, <3>4
  <2>2. ASSUME NEW t \in Threads, Constructs(t)
        PROVE  ThreadFits' /\ TemplateFits' /\ ObjectsFit'
    <3>1. /\ work'[t] = NoWork /\ refs' = refs \cup {proxy("init")}
          /\ \A u \in Threads : u # t => work'[u] = work[u]
      BY <2>2, WorkChange, Names, Zenon DEF Constructs
    <3>2. t = "main" /\ at["main"] = "make"
      <4>1. WorkFits(t) /\ work[t].op = "connect"
        BY <2>2, Zenon DEF Constructs, LifeInv, ThreadFits
      <4>. QED  BY <4>1, WhoUses, Zenon
    <3>3. ThreadFits'
      BY <1>0, <3>1, FitsKept, FitsIdle, Zenon DEF LifeInv, ThreadFits
    <3>4. TemplateFits'
      BY <1>0, <3>1, RefsDistinct, Names DEF LifeInv, TemplateFits, NoWork
    <3>5. ObjectsFit'
      BY <1>0, <3>1, <3>2, RefsDistinct, Zenon DEF LifeInv, ObjectsFit
    <3>. QED  BY <3>3, <3>4, <3>5
  <2>3. ASSUME NEW t \in Threads, Returns(t)
        PROVE  ThreadFits' /\ TemplateFits' /\ ObjectsFit'
    <3>1. /\ work'[t] = NoWork /\ refs' = refs
          /\ \A u \in Threads : u # t => work'[u] = work[u]
      BY <2>3, WorkChange, Zenon DEF Returns
    <3>2. ThreadFits'
      BY <1>0, <3>1, FitsKept, FitsIdle, Zenon DEF LifeInv, ThreadFits
    <3>3. TemplateFits'
      BY <1>0, <3>1, Names DEF LifeInv, TemplateFits, NoWork
    <3>4. at["main"] = "make" => work["main"].op # "call"
      BY WhoUses, Names DEF LifeInv, ThreadFits, WorkFits, Fn, NoWork, Calling, Dropping
    <3>5. ObjectsFit'
      BY <1>0, <1>1, <1>3, <2>3, <3>1, <3>4, Names, Zenon DEF LifeInv, ObjectsFit, Returns
    <3>. QED  BY <3>2, <3>3, <3>5
  <2>4. ASSUME NEW t \in Threads, Destroys(t)
        PROVE  ThreadFits' /\ TemplateFits' /\ ObjectsFit'
    <3>1. /\ work'[t] = Fn("cleanup", work[t].proxy, Null) /\ SameObjects
          /\ \A u \in Threads : u # t => work'[u] = work[u]
      BY <2>4, WorkChange, Zenon DEF Destroys
    <3>2. WorkFits(t) /\ work[t].op = "destroy"
      BY <2>4, Zenon DEF Destroys, LifeInv, ThreadFits
    <3>3. work[t] = Fn("destroy", "tmpl", Null) /\ <<t, at[t]>> \in Dropping
      BY <3>2 DEF WorkFits, Fn, NoWork, CallTmpl, DestroyTmpl
    <3>4. work'[t] = Fn("cleanup", "tmpl", Null)
      BY <3>1, <3>3, FnFields
    <3>5. ThreadFits'
      <4>1. WorkFits(t)'
        BY <1>0, <3>3, <3>4, Zenon DEF WorkFits, DestroyTmpl
      <4>. QED  BY <1>0, <3>1, <4>1, FitsKept, Zenon DEF LifeInv, ThreadFits
    <3>6. TemplateFits'
      BY <1>0, <3>1, <3>2, <3>3, <3>4 DEF LifeInv, TemplateFits, SameObjects, Fn
    <3>7. at["main"] = "make" => t # "main"
      BY <3>3, Zenon DEF Dropping
    <3>8. ObjectsFit'
      BY <1>0, <1>1, <1>3, <3>1, <3>7, Names, Zenon DEF LifeInv, ObjectsFit, SameObjects
    <3>. QED  BY <3>5, <3>6, <3>8
  <2>5. ASSUME NEW t \in Threads, Drops(t)
        PROVE  ThreadFits' /\ TemplateFits' /\ ObjectsFit'
    <3>1. /\ work'[t] = NoWork /\ \A u \in Threads : u # t => work'[u] = work[u]
          /\ WorkFits(t) /\ work[t].op \in {"cleanup", "exit"}
      BY <2>5, WorkChange, Zenon DEF Drops, LifeInv, ThreadFits
    <3>2. /\ \A p : proxy(p) \in refs' => proxy(p) \in refs
          /\ \A p : proxy(p) \in refs => proxy(p) \in refs' \/ p = work[t].proxy
          /\ m_loop_ref \in refs' <=> m_loop_ref \in refs
      BY <2>5, RefsDistinct, Zenon DEF Drops
    <3>3. ThreadFits'
      BY <1>0, <3>1, FitsKept, FitsIdle, Zenon DEF LifeInv, ThreadFits
    <3>4. TemplateFits'
      BY <1>0, <3>1, <3>2, Names DEF LifeInv, TemplateFits, NoWork
    <3>5. /\ work[t].proxy = "init" => at["main"] = "drop_protocol"
          /\ work[t].proxy = "mining" => at["main"] = "drop_init"
          /\ at["main"] = "make" => t # "main"
      BY <3>1, Names DEF WorkFits, Fn, NoWork, CallTmpl, DestroyTmpl, Dropping
    <3>6. ObjectsFit'
      BY <1>0, <1>1, <1>3, <3>1, <3>2, <3>5, Names, Zenon DEF LifeInv, ObjectsFit
    <3>. QED  BY <3>3, <3>4, <3>6
  <2>6. ASSUME NEW t \in Threads, Receives(t)
        PROVE  ThreadFits' /\ TemplateFits' /\ ObjectsFit'
    <3>1. /\ work' = work /\ work[t].result \in {"mining", "tmpl"}
          /\ work[t].result = "mining" => at["main"] = "made"
          /\ work[t].result = "tmpl" => at["client"] = "created"
      <4>1. WorkFits(t) /\ work' = work /\ work[t].result # Null
        BY <2>6, Zenon DEF Receives, LifeInv, ThreadFits
      <4>2. /\ work[t].result = "mining" => t = "main" /\ at[t] = "made"
            /\ work[t].result = "tmpl" => t = "client" /\ at[t] = "created"
            /\ work[t].result \in {Null, "mining", "tmpl"}
        BY <4>1, WhoUses, Zenon
      <4>. QED  BY <4>1, <4>2
    <3>2. /\ \A p : proxy(p) \in refs => proxy(p) \in refs'
          /\ \A p : proxy(p) \in refs' => proxy(p) \in refs \/ p = work[t].result
          /\ m_loop_ref \in refs' <=> m_loop_ref \in refs
      BY <2>6, RefsDistinct, Zenon DEF Receives
    <3>3. ThreadFits'
      BY <1>0, <3>1, FitsKept, FitsIdle, Zenon DEF LifeInv, ThreadFits
    <3>4. TemplateFits'
      BY <1>0, <3>1, <3>2, Zenon DEF LifeInv, TemplateFits
    <3>5. ObjectsFit'
      BY <1>0, <1>1, <1>3, <3>1, <3>2, Zenon DEF LifeInv, ObjectsFit
    <3>. QED  BY <3>3, <3>4, <3>5
  <2>. QED  BY <1>2, <2>1, <2>2, <2>3, <2>4, <2>5, <2>6, Zenon
<1>5. OwnersFit' /\ MutexFits' /\ JoinsFit' /\ DOMAIN at' = Threads
  BY <1>0, Zenon DEF LifeInv, OwnersFit, MutexFits, JoinsFit
<1>. QED  BY <1>4, <1>5, Zenon DEF LifeInv

-----------------------------------------------------------------------------
(* The steps of the provider's threads preserve it.                          *)

\* Thread t is now at b, and has posted w.
MovesTo(t, b, w) ==
  /\ DOMAIN at' = Threads /\ at'[t] = b /\ \A u \in Threads : u # t => at'[u] = at[u]
  /\ work'[t] = w /\ \A u \in Threads : u # t => work'[u] = work[u]
  /\ SameObjects /\ (connection \in refs' <=> connection \in refs) /\ loop' = loop

\* The step of a thread that calls or destroys something, and of one that does not.
LEMMA PostMoves ==
  ASSUME IInv, LifeInv, NEW t \in Threads, NEW a, NEW b, Goes(t, a, b),
         NEW op, NEW p, NEW q, DoPost(t, op, p, q)
  PROVE  at[t] = a /\ work[t] = NoWork /\ MovesTo(t, b, Fn(op, p, q))
<1>1. at[t] = a /\ Idle(t) /\ at' = [at EXCEPT ![t] = b] /\ DOMAIN at = Threads
  BY Zenon DEF Goes, LifeInv
<1>2. refs' = refs \cup {post(t)} /\ work' = [work EXCEPT ![t] = Fn(op, p, q)] /\ loop' = loop
  BY Zenon DEF DoPost, Post, Fn
<1>3. SameObjects /\ (connection \in refs' <=> connection \in refs)
  BY <1>2, RefsDistinct, Zenon DEF SameObjects
<1>4. work[t] = NoWork
  BY <1>1, IdleUsesNothing, Zenon
<1>. QED  BY <1>1, <1>2, <1>3, <1>4, WorkChange, Zenon DEF MovesTo

LEMMA PlainMoves ==
  ASSUME IInv, LifeInv, NEW t \in Threads, NEW a, NEW b, Goes(t, a, b), UNCHANGED <<work, refs, loop>>
  PROVE  at[t] = a /\ work[t] = NoWork /\ MovesTo(t, b, NoWork)
<1>1. at[t] = a /\ Idle(t) /\ at' = [at EXCEPT ![t] = b] /\ DOMAIN at = Threads
  BY Zenon DEF Goes, LifeInv
<1>2. work[t] = NoWork
  BY <1>1, IdleUsesNothing, Zenon
<1>. QED  BY <1>1, <1>2, Zenon DEF MovesTo, SameObjects

LEMMA Located ==
  ASSUME NEW t \in Threads, NEW b, NEW w, MovesTo(t, b, w)
  PROVE  /\ at'["main"] = IF t = "main" THEN b ELSE at["main"]
         /\ at'["handler"] = IF t = "handler" THEN b ELSE at["handler"]
         /\ at'["client"] = IF t = "client" THEN b ELSE at["client"]
         /\ at'["sockets"] = IF t = "sockets" THEN b ELSE at["sockets"]
         /\ at'["saver"] = IF t = "saver" THEN b ELSE at["saver"]
BY Names, Zenon DEF MovesTo

\* What a thread other than main() does is not about the objects main() holds.
LEMMA ObjectsKept ==
  ASSUME LifeInv, NEW t \in Threads, t # "main", NEW b, NEW w, MovesTo(t, b, w), WorkFits(t)'
  PROVE  ThreadFits' /\ ObjectsFit' /\ DOMAIN at' = Threads
<1>1. ThreadFits' /\ DOMAIN at' = Threads
  BY FitsKept, Zenon DEF MovesTo, LifeInv, ThreadFits
<1>2. /\ at'["main"] = at["main"] /\ work'["main"] = work["main"]
      /\ SameObjects /\ (connection \in refs' <=> connection \in refs) /\ loop' = loop
  BY Names, Zenon DEF MovesTo
<1>. QED  BY <1>1, <1>2 DEF LifeInv, ObjectsFit, SameObjects

\* The end of a thread that owns nothing.
LEMMA EndPreserves ==
  ASSUME IInv, LifeInv, NEW t \in Threads, t # "main", ThreadEnd(t)
  PROVE  LifeInv'
<1>1. at[t] = "exit" /\ owners' = owners /\ m_tp_mutex' = m_tp_mutex
  BY Zenon DEF ThreadEnd, Goes, OnlyAt
<1>2. PICK b \in {"exit", "done"}, w \in {NoWork, Fn("exit", Null, Null)} :
        MovesTo(t, b, w) /\ (w # NoWork => b = "exit")
  <2>1. CASE Goes(t, "exit", "exit") /\ Exit(t)
    BY <2>1, PostMoves, Zenon DEF Exit
  <2>2. CASE Goes(t, "exit", "done") /\ UNCHANGED vars
    BY <2>2, PlainMoves, Zenon DEF vars
  <2>. QED  BY <2>1, <2>2, Zenon DEF ThreadEnd
<1>3. WorkFits(t)'
  BY <1>2, Zenon DEF WorkFits, MovesTo
<1>4. OwnersFit'
  BY <1>1, <1>2, Names, Located, Zenon DEF LifeInv, OwnersFit
<1>5. TemplateFits'
  BY <1>1, <1>2, Names DEF MovesTo, LifeInv, TemplateFits, SameObjects, Fn, NoWork
<1>6. MutexFits' /\ JoinsFit'
  BY <1>1, <1>2, Names, Located, Zenon DEF LifeInv, MutexFits, JoinsFit
<1>. QED  BY <1>2, <1>3, <1>4, <1>5, <1>6, ObjectsKept, Zenon DEF LifeInv

LEMMA ReleaseMoves ==
  ASSUME IInv, LifeInv, NEW t \in Threads, NEW a, NEW b, Goes(t, a, b), NEW o, Release(t, o)
  PROVE  /\ at[t] = a /\ work[t] = NoWork /\ owners' = owners \ {o}
         /\ \/ owners = {o} /\ MovesTo(t, b, Fn("destroy", "tmpl", Null))
            \/ owners # {o} /\ MovesTo(t, b, NoWork)
<1>1. CASE owners = {o}
  <2>1. DoPost(t, "destroy", "tmpl", Null) /\ owners' = owners \ {o}
    BY <1>1, Names, Zenon DEF Release, Destroy
  <2>. QED  BY <1>1, <2>1, PostMoves, Zenon
<1>2. CASE owners # {o}
  BY <1>2, PlainMoves, Zenon DEF Release, vars
<1>. QED  BY <1>1, <1>2

\* The invariant, but for what the lemmas above show.
RestFits == OwnersFit /\ TemplateFits /\ MutexFits /\ JoinsFit

LEMMA LifeByParts ==
  ASSUME LifeInv, NEW t \in Threads, t # "main", NEW b, NEW w, MovesTo(t, b, w), WorkFits(t)', RestFits'
  PROVE  LifeInv'
BY ObjectsKept, Zenon DEF LifeInv, RestFits

LEMMA HandlerPreserves ==
  ASSUME IInv, LifeInv, ThreadSv2Handler
  PROVE  LifeInv'
<1> USE DEF RestFits
<1>1. CASE WaitForIBD
  <2>1. owners' = owners /\ m_tp_mutex' = m_tp_mutex
    BY <1>1, Zenon DEF WaitForIBD, OnlyAt
  <2>2. /\ at["handler"] \in {"ibd", "ibd_reply"}
        /\ \/ \E b \in {"clients", "ibd", "ibd_reply"} : MovesTo("handler", b, NoWork)
           \/ MovesTo("handler", "ibd_reply", Fn("call", "mining", Null))
    <3>1. CASE Goes("handler", "ibd", "clients") /\ UNCHANGED vars
      BY <3>1, PlainMoves, Names, Zenon DEF vars
    <3>2. CASE Goes("handler", "ibd", "ibd_reply") /\ Call("handler", "mining", Null)
      BY <3>2, PostMoves, Names, Zenon DEF Call
    <3>3. CASE UNCHANGED vars /\ (Goes("handler", "ibd_reply", "ibd") \/ Goes("handler", "ibd_reply", "clients"))
      BY <3>3, PlainMoves, Names, Zenon DEF vars
    <3>4. CASE Goes("handler", "ibd_reply", "ibd_reply") /\ Terminate("handler")
      BY <3>4, PlainMoves, Names, Zenon DEF Terminate
    <3>. QED  BY <1>1, <3>1, <3>2, <3>3, <3>4, Zenon DEF WaitForIBD
  <2>3. PICK b \in {"clients", "ibd", "ibd_reply"}, w \in {NoWork, Fn("call", "mining", Null)} :
          MovesTo("handler", b, w) /\ (w # NoWork => b = "ibd_reply")
    BY <2>2, Zenon
  <2>4. WorkFits("handler")'
    BY <2>3, Zenon DEF WorkFits, MovesTo
  <2>5. OwnersFit' /\ MutexFits' /\ JoinsFit'
    BY <2>1, <2>2, <2>3, Names, Located DEF LifeInv, OwnersFit, MutexFits, JoinsFit
  <2>6. TemplateFits'
    BY <2>1, <2>3, Names DEF MovesTo, LifeInv, TemplateFits, SameObjects, Fn, NoWork
  <2>. QED  BY <2>3, <2>4, <2>5, <2>6, LifeByParts, Names, Zenon
<1>2. CASE PruneBlockTemplateCache
  <2>1. CASE /\ Goes("handler", "clients", "pruning") /\ m_tp_mutex = Null
             /\ Release("handler", "cache") /\ m_tp_mutex' = "handler"
    <3>1. PICK w \in {NoWork, Fn("destroy", "tmpl", Null)} :
            /\ at["handler"] = "clients" /\ owners' = owners \ {"cache"}
            /\ MovesTo("handler", "pruning", w) /\ (w # NoWork => owners = {"cache"})
      BY <2>1, ReleaseMoves, Names, Zenon
    <3>2. WorkFits("handler")'
      BY <3>1, Zenon DEF WorkFits, MovesTo, Dropping, DestroyTmpl
    <3>3. OwnersFit'
      BY <3>1, Names, Located, Zenon DEF LifeInv, OwnersFit
    <3>4. MutexFits' /\ JoinsFit'
      BY <2>1, <3>1, Names, EventLoopAssumption, Zenon DEF MovesTo, LifeInv, MutexFits, JoinsFit
    <3>5. TemplateFits'
      BY <3>1, Names DEF MovesTo, LifeInv, TemplateFits, SameObjects, Fn, NoWork
    <3>. QED  BY <3>1, <3>2, <3>3, <3>4, <3>5, LifeByParts, Names, Zenon
  <2>2. CASE Goes("handler", "pruning", "clients") /\ m_tp_mutex' = Null /\ UNCHANGED <<vars, owners>>
    <3>1. at["handler"] = "pruning" /\ MovesTo("handler", "clients", NoWork)
      BY <2>2, PlainMoves, Names, Zenon DEF vars
    <3>2. WorkFits("handler")'
      BY <3>1, Zenon DEF WorkFits, MovesTo
    <3>3. OwnersFit' /\ MutexFits' /\ JoinsFit'
      BY <2>2, <3>1, Names, Located, SMTT(30) DEF LifeInv, OwnersFit, MutexFits, JoinsFit
    <3>4. TemplateFits'
      BY <2>2, <3>1, Names DEF MovesTo, LifeInv, TemplateFits, SameObjects, NoWork
    <3>. QED  BY <3>1, <3>2, <3>3, <3>4, LifeByParts, Names, Zenon
  <2>. QED  BY <1>2, <2>1, <2>2, Zenon DEF PruneBlockTemplateCache
<1>3. CASE /\ Idle("handler") /\ at["handler"] = "clients" /\ at["client"] = "none"
           /\ at' = [at EXCEPT !["client"] = "create"] /\ UNCHANGED vars /\ OnlyAt
  <2>1. MovesTo("client", "create", work["client"]) /\ owners' = owners /\ m_tp_mutex' = m_tp_mutex
    BY <1>3, Names, Zenon DEF OnlyAt, MovesTo, SameObjects, vars, LifeInv
  <2>2. work["client"] = NoWork
    <3>1. WorkFits("client")
      BY Names, Zenon DEF LifeInv, ThreadFits
    <3>. QED  BY <1>3, <3>1, Names DEF WorkFits, Calling, Dropping
  <2>3. WorkFits("client")'
    BY <2>1, <2>2, Zenon DEF WorkFits, MovesTo
  <2>4. OwnersFit' /\ MutexFits' /\ JoinsFit'
    BY <1>3, <2>1, Names, Located, Zenon DEF LifeInv, OwnersFit, MutexFits, JoinsFit
  <2>5. TemplateFits'
    BY <1>3, <2>1, <2>2, Names DEF MovesTo, LifeInv, TemplateFits, SameObjects, NoWork
  <2>. QED  BY <2>1, <2>3, <2>4, <2>5, LifeByParts, Names, Zenon
<1>4. CASE /\ \/ Goes("handler", "clients", "join_client")
              \/ Goes("handler", "join_client", "exit") /\ at["client"] \in {"none", "done"}
           /\ UNCHANGED vars /\ OnlyAt
  <2>1. PICK b \in {"join_client", "exit"} :
          /\ at["handler"] \in {"clients", "join_client"} /\ MovesTo("handler", b, NoWork)
          /\ b = "exit" => at["client"] \in {"none", "done"}
    BY <1>4, PlainMoves, Names, Zenon DEF vars
  <2>2. owners' = owners /\ m_tp_mutex' = m_tp_mutex
    BY <1>4, Zenon DEF OnlyAt
  <2>3. WorkFits("handler")'
    BY <2>1, Zenon DEF WorkFits, MovesTo
  <2>4. OwnersFit' /\ MutexFits' /\ JoinsFit'
    BY <2>1, <2>2, Names, Located, SMTT(30) DEF LifeInv, OwnersFit, MutexFits, JoinsFit
  <2>5. TemplateFits'
    BY <2>1, <2>2, Names DEF MovesTo, LifeInv, TemplateFits, SameObjects, NoWork
  <2>. QED  BY <2>1, <2>3, <2>4, <2>5, LifeByParts, Names, Zenon
<1>. QED  BY <1>1, <1>2, <1>3, <1>4, EndPreserves, Names, Zenon DEF ThreadSv2Handler

\* The client's thread goes on with the template it owns, or before it has one.
LEMMA ClientPreserves ==
  ASSUME IInv, LifeInv, ThreadSv2ClientHandler
  PROVE  LifeInv'
<1> USE DEF RestFits
<1>1. CASE \/ Goes("client", "create", "exit") /\ UNCHANGED vars /\ OnlyAt
           \/ Goes("client", "create", "created") /\ Call("client", "mining", "tmpl") /\ OnlyAt
           \/ Goes("client", "created", "exit") /\ UNCHANGED vars /\ OnlyAt
  <2>1. owners' = owners /\ m_tp_mutex' = m_tp_mutex
    BY <1>1, Zenon DEF OnlyAt
  <2>2. PICK b \in {"exit", "created"}, w \in {NoWork, Fn("call", "mining", "tmpl")} :
          /\ at["client"] \in {"create", "created"}
          /\ MovesTo("client", b, w) /\ (w # NoWork => b = "created")
    BY <1>1, PlainMoves, PostMoves, Names, Zenon DEF vars, Call
  <2>3. WorkFits("client")'
    BY <2>2, Zenon DEF WorkFits, MovesTo
  <2>4. OwnersFit' /\ MutexFits' /\ JoinsFit'
    BY <2>1, <2>2, Names, Located, Zenon DEF LifeInv, OwnersFit, MutexFits, JoinsFit
  <2>5. TemplateFits'
    BY <2>1, <2>2, Names DEF MovesTo, LifeInv, TemplateFits, SameObjects, Fn, NoWork
  <2>. QED  BY <2>2, <2>3, <2>4, <2>5, LifeByParts, Names, Zenon
<1>2. CASE /\ Goes("client", "created", "header") /\ proxy("tmpl") \in refs
           /\ Call("client", "tmpl", Null) /\ owners' = {"client"} /\ m_tp_mutex' = m_tp_mutex
  <2>1. at["client"] = "created" /\ MovesTo("client", "header", CallTmpl)
    BY <1>2, PostMoves, Names, Zenon DEF Call, CallTmpl
  <2>2. WorkFits("client")'
    BY <2>1, Zenon DEF WorkFits, MovesTo, Calling
  <2>3. OwnersFit' /\ MutexFits' /\ JoinsFit'
    BY <1>2, <2>1, Names, Located, Zenon DEF LifeInv, OwnersFit, TemplateFits, MutexFits, JoinsFit
  <2>4. TemplateFits'
    BY <1>2, <2>1, Names DEF MovesTo, LifeInv, TemplateFits, SameObjects, Fn, CallTmpl
  <2>. QED  BY <2>1, <2>2, <2>3, <2>4, LifeByParts, Names, Zenon
<1>3. CASE /\ Goes("client", "header", "wait") /\ owners' = owners \cup {"cache"}
           /\ UNCHANGED <<vars, m_tp_mutex>>
  <2>1. at["client"] = "header" /\ MovesTo("client", "wait", NoWork)
    BY <1>3, PlainMoves, Names, Zenon DEF vars
  <2>2. WorkFits("client")'
    BY <2>1, Zenon DEF WorkFits, MovesTo
  <2>3. OwnersFit' /\ MutexFits' /\ JoinsFit'
    BY <1>3, <2>1, Names, Located, Zenon DEF LifeInv, OwnersFit, MutexFits, JoinsFit
  <2>4. owners # {}
    BY <2>1, Zenon DEF LifeInv, OwnersFit
  <2>5. TemplateFits'
    BY <1>3, <2>1, <2>4, Names DEF MovesTo, LifeInv, TemplateFits, SameObjects, NoWork
  <2>. QED  BY <2>1, <2>2, <2>3, <2>5, LifeByParts, Names, Zenon
<1>4. CASE /\ \/ Goes("client", "header", "drop") /\ UNCHANGED vars
              \/ Goes("client", "waited", "wait") /\ UNCHANGED vars
              \/ Goes("client", "waited", "drop") /\ UNCHANGED vars
              \/ Goes("client", "wait", "drop") /\ UNCHANGED vars
              \/ Goes("client", "wait", "waited") /\ Call("client", "tmpl", Null)
           /\ OnlyAt
  <2>1. owners' = owners /\ m_tp_mutex' = m_tp_mutex
    BY <1>4, Zenon DEF OnlyAt
  <2>2. PICK b \in {"wait", "waited", "drop"}, w \in {NoWork, CallTmpl} :
          /\ at["client"] \in {"header", "wait", "waited"}
          /\ MovesTo("client", b, w) /\ (w # NoWork => b = "waited")
    BY <1>4, PlainMoves, PostMoves, Names, Zenon DEF vars, Call, CallTmpl
  <2>3. WorkFits("client")'
    BY <2>2, Zenon DEF WorkFits, MovesTo, Calling
  <2>4. OwnersFit' /\ MutexFits' /\ JoinsFit'
    BY <2>1, <2>2, Names, Located DEF LifeInv, OwnersFit, MutexFits, JoinsFit
  <2>5. TemplateFits'
    BY <2>1, <2>2, Names DEF MovesTo, LifeInv, TemplateFits, SameObjects, Fn, NoWork, CallTmpl
  <2>. QED  BY <2>2, <2>3, <2>4, <2>5, LifeByParts, Names, Zenon
<1>5. CASE Goes("client", "drop", "exit") /\ Release("client", "client") /\ m_tp_mutex' = m_tp_mutex
  <2>1. PICK w \in {NoWork, Fn("destroy", "tmpl", Null)} :
          /\ at["client"] = "drop" /\ owners' = owners \ {"client"}
          /\ MovesTo("client", "exit", w) /\ (w # NoWork => owners = {"client"})
    BY <1>5, ReleaseMoves, Names, Zenon
  <2>2. WorkFits("client")'
    BY <2>1, Zenon DEF WorkFits, MovesTo, Dropping, DestroyTmpl
  <2>3. OwnersFit' /\ MutexFits' /\ JoinsFit'
    BY <1>5, <2>1, Names, Located DEF LifeInv, OwnersFit, MutexFits, JoinsFit
  <2>4. TemplateFits'
    BY <2>1, Names DEF MovesTo, LifeInv, TemplateFits, SameObjects, Fn, NoWork
  <2>. QED  BY <2>1, <2>2, <2>3, <2>4, LifeByParts, Names, Zenon
<1>6. CASE FirstTemplate
  BY <1>1, <1>2, <1>3, <1>4, <1>6, Zenon DEF FirstTemplate
<1>7. CASE WaitNext
  BY <1>4, <1>7, Zenon DEF WaitNext
<1>. QED  BY <1>1, <1>4, <1>5, <1>6, <1>7, EndPreserves, Names, Zenon DEF ThreadSv2ClientHandler

LEMMA SocketsPreserves ==
  ASSUME IInv, LifeInv, ThreadSocketHandler
  PROVE  LifeInv'
<1> USE DEF RestFits
<1>1. CASE /\ Goes("sockets", "run", "submit") /\ "cache" \in owners /\ m_tp_mutex' = m_tp_mutex
           /\ at["saver"] = "none" /\ Call("sockets", "tmpl", Null) /\ owners' = owners \cup {"sockets"}
  <2>1. at["sockets"] = "run" /\ MovesTo("sockets", "submit", CallTmpl)
    BY <1>1, PostMoves, Names, Zenon DEF Call, CallTmpl
  <2>2. WorkFits("sockets")'
    BY <2>1, Zenon DEF WorkFits, MovesTo, Calling
  <2>3. OwnersFit' /\ MutexFits' /\ JoinsFit'
    BY <1>1, <2>1, Names, Located, SMTT(30) DEF LifeInv, OwnersFit, MutexFits, JoinsFit
  <2>4. TemplateFits'
    BY <1>1, <2>1, Names DEF MovesTo, LifeInv, TemplateFits, SameObjects, Fn, CallTmpl
  <2>. QED  BY <2>1, <2>2, <2>3, <2>4, LifeByParts, Names, Zenon
<1>2. CASE Goes("sockets", "drop", "run") /\ Release("sockets", "sockets") /\ m_tp_mutex' = m_tp_mutex
  <2>1. PICK w \in {NoWork, Fn("destroy", "tmpl", Null)} :
          /\ at["sockets"] = "drop" /\ owners' = owners \ {"sockets"}
          /\ MovesTo("sockets", "run", w) /\ (w # NoWork => owners = {"sockets"})
    BY <1>2, ReleaseMoves, Names, Zenon
  <2>2. WorkFits("sockets")'
    BY <2>1, Zenon DEF WorkFits, MovesTo, Dropping, DestroyTmpl
  <2>3. OwnersFit' /\ MutexFits' /\ JoinsFit'
    BY <1>2, <2>1, Names, Located, SMTT(30) DEF LifeInv, OwnersFit, MutexFits, JoinsFit
  <2>4. at["client"] \notin {"none", "create", "created"}
    BY <2>1, Zenon DEF LifeInv, OwnersFit, TemplateFits
  <2>5. TemplateFits'
    BY <2>1, <2>4, Names DEF MovesTo, LifeInv, TemplateFits, SameObjects, Fn, NoWork
  <2>. QED  BY <2>1, <2>2, <2>3, <2>5, LifeByParts, Names, Zenon
<1>3. CASE /\ Idle("sockets") /\ at["sockets"] = "submit"
           /\ at' = [at EXCEPT !["sockets"] = "drop", !["saver"] = "sleep"]
           /\ owners' = owners \cup {"saver"} /\ UNCHANGED <<vars, m_tp_mutex>>
  <2>1. /\ at'["sockets"] = "drop" /\ at'["saver"] = "sleep" /\ DOMAIN at' = Threads
        /\ \A u \in Threads : u \notin {"sockets", "saver"} => at'[u] = at[u]
    BY <1>3, Names, Zenon DEF LifeInv
  <2>2. work' = work /\ refs' = refs /\ loop' = loop /\ work["sockets"] = NoWork
    BY <1>3, IdleUsesNothing, Names, Zenon DEF vars
  <2>3. at["saver"] = "none" /\ WorkFits("saver")
    BY <1>3, Names, Zenon DEF LifeInv, JoinsFit, ThreadFits
  <2>4. work["saver"] = NoWork
    BY <2>3, Zenon DEF WorkFits, Calling, Dropping
  <2>5. ThreadFits'
    BY <2>1, <2>2, <2>4, FitsKept, FitsIdle, Zenon DEF LifeInv, ThreadFits
  <2>6. OwnersFit' /\ MutexFits' /\ JoinsFit'
    BY <1>3, <2>1, <2>3, Names DEF LifeInv, OwnersFit, MutexFits, JoinsFit
  <2>7. owners # {} /\ at'["client"] = at["client"] /\ at'["main"] = at["main"]
    BY <1>3, <2>1, Names, Zenon DEF LifeInv, OwnersFit
  <2>8. TemplateFits'
    BY <2>2, <2>7, Zenon DEF LifeInv, TemplateFits
  <2>9. ObjectsFit'
    BY <2>2, <2>7, Zenon DEF LifeInv, ObjectsFit
  <2>. QED  BY <2>1, <2>5, <2>6, <2>8, <2>9, Zenon DEF LifeInv
<1>4. CASE (Goes("sockets", "run", "exit") \/ Goes("sockets", "submit", "drop")) /\ UNCHANGED vars /\ OnlyAt
  <2>1. PICK b \in {"exit", "drop"} :
          at["sockets"] = (IF b = "exit" THEN "run" ELSE "submit") /\ MovesTo("sockets", b, NoWork)
    BY <1>4, PlainMoves, Names, Zenon DEF vars
  <2>2. owners' = owners /\ m_tp_mutex' = m_tp_mutex
    BY <1>4, Zenon DEF OnlyAt
  <2>3. WorkFits("sockets")'
    BY <2>1, Zenon DEF WorkFits, MovesTo
  <2>4. OwnersFit' /\ MutexFits' /\ JoinsFit'
    BY <2>1, <2>2, Names, Located, Zenon DEF LifeInv, OwnersFit, MutexFits, JoinsFit
  <2>5. TemplateFits'
    BY <2>1, <2>2, Names DEF MovesTo, LifeInv, TemplateFits, SameObjects, NoWork
  <2>. QED  BY <2>1, <2>3, <2>4, <2>5, LifeByParts, Names, Zenon
<1>5. CASE SubmitSolution
  BY <1>1, <1>2, <1>3, <1>4, <1>5, Zenon DEF SubmitSolution
<1>6. CASE /\ Goes("sockets", "run", "request") /\ m_tp_mutex = Null /\ "cache" \in owners
           /\ Call("sockets", "tmpl", Null) /\ m_tp_mutex' = "sockets" /\ owners' = owners
  <2>1. at["sockets"] = "run" /\ MovesTo("sockets", "request", CallTmpl)
    BY <1>6, PostMoves, Names, Zenon DEF Call, CallTmpl
  <2>2. WorkFits("sockets")'
    BY <2>1, Zenon DEF WorkFits, MovesTo, Calling
  <2>3. OwnersFit' /\ JoinsFit'
    BY <1>6, <2>1, Names, Located, SMTT(30) DEF LifeInv, OwnersFit, JoinsFit
  <2>4. MutexFits'
    BY <1>6, <2>1, Names, EventLoopAssumption, Zenon DEF MovesTo, LifeInv, MutexFits
  <2>5. TemplateFits'
    BY <1>6, <2>1, Names DEF MovesTo, LifeInv, TemplateFits, SameObjects, Fn, CallTmpl
  <2>. QED  BY <2>1, <2>2, <2>3, <2>4, <2>5, LifeByParts, Names, Zenon
<1>7. CASE Goes("sockets", "request", "run") /\ m_tp_mutex' = Null /\ UNCHANGED <<vars, owners>>
  <2>1. at["sockets"] = "request" /\ MovesTo("sockets", "run", NoWork)
    BY <1>7, PlainMoves, Names, Zenon DEF vars
  <2>2. WorkFits("sockets")'
    BY <2>1, Zenon DEF WorkFits, MovesTo
  <2>3. OwnersFit' /\ JoinsFit'
    BY <1>7, <2>1, Names, Located, SMTT(30) DEF LifeInv, OwnersFit, JoinsFit
  <2>4. MutexFits'
    <3>1. at["main"] \notin {"interrupting", "interrupting_again"} /\ at["handler"] # "pruning"
      BY <2>1, Zenon DEF LifeInv, MutexFits
    <3>. QED  BY <2>1, <3>1, Names, Located DEF MutexFits
  <2>5. TemplateFits'
    BY <1>7, <2>1, Names DEF MovesTo, LifeInv, TemplateFits, SameObjects, NoWork
  <2>. QED  BY <2>1, <2>2, <2>3, <2>4, <2>5, LifeByParts, Names, Zenon
<1>8. CASE RequestTransactionData
  BY <1>6, <1>7, <1>8, Zenon DEF RequestTransactionData
<1>. QED  BY <1>4, <1>5, <1>8, EndPreserves, Names, Zenon DEF ThreadSocketHandler

LEMMA SaverPreserves ==
  ASSUME IInv, LifeInv, SaveBlockAsync
  PROVE  LifeInv'
<1> USE DEF RestFits
<1>1. CASE /\ \/ Goes("saver", "sleep", "got") /\ Call("saver", "tmpl", Null)
              \/ Goes("saver", "got", "write") /\ UNCHANGED vars
              \/ Goes("saver", "got", "drop") /\ UNCHANGED vars
              \/ Goes("saver", "write", "drop") /\ UNCHANGED vars
           /\ OnlyAt
  <2>1. owners' = owners /\ m_tp_mutex' = m_tp_mutex
    BY <1>1, Zenon DEF OnlyAt
  <2>2. PICK b \in {"got", "write", "drop"}, w \in {NoWork, CallTmpl} :
          /\ at["saver"] \in {"sleep", "got", "write"}
          /\ MovesTo("saver", b, w) /\ (w # NoWork => b = "got")
    BY <1>1, PlainMoves, PostMoves, Names, Zenon DEF vars, Call, CallTmpl
  <2>3. WorkFits("saver")'
    BY <2>2, Zenon DEF WorkFits, MovesTo, Calling
  <2>4. OwnersFit' /\ MutexFits' /\ JoinsFit'
    BY <2>1, <2>2, Names, Located DEF LifeInv, OwnersFit, MutexFits, JoinsFit
  <2>5. at["client"] \notin {"none", "create", "created"}
    BY <2>2, Zenon DEF LifeInv, OwnersFit, TemplateFits
  <2>6. TemplateFits'
    BY <2>1, <2>2, <2>5, Names DEF MovesTo, LifeInv, TemplateFits, SameObjects, Fn, NoWork, CallTmpl
  <2>. QED  BY <2>2, <2>3, <2>4, <2>6, LifeByParts, Names, Zenon
<1>2. CASE Goes("saver", "drop", "exit") /\ Release("saver", "saver") /\ m_tp_mutex' = m_tp_mutex
  <2>1. PICK w \in {NoWork, Fn("destroy", "tmpl", Null)} :
          /\ at["saver"] = "drop" /\ owners' = owners \ {"saver"}
          /\ MovesTo("saver", "exit", w) /\ (w # NoWork => owners = {"saver"})
    BY <1>2, ReleaseMoves, Names, Zenon
  <2>2. WorkFits("saver")'
    BY <2>1, Zenon DEF WorkFits, MovesTo, Dropping, DestroyTmpl
  <2>3. OwnersFit' /\ MutexFits' /\ JoinsFit'
    BY <1>2, <2>1, Names, Located, Zenon DEF LifeInv, OwnersFit, MutexFits, JoinsFit
  <2>4. at["client"] \notin {"none", "create", "created"}
    BY <2>1, Zenon DEF LifeInv, OwnersFit, TemplateFits
  <2>5. TemplateFits'
    BY <2>1, <2>4, Names DEF MovesTo, LifeInv, TemplateFits, SameObjects, Fn, NoWork
  <2>. QED  BY <2>1, <2>2, <2>3, <2>5, LifeByParts, Names, Zenon
<1>. QED  BY <1>1, <1>2, EndPreserves, Names, Zenon DEF SaveBlockAsync

-----------------------------------------------------------------------------
(* The steps of main() preserve it.                                          *)

LEMMA MainByParts ==
  ASSUME LifeInv, NEW b, NEW w, MovesTo("main", b, w), WorkFits("main")', RestFits', ObjectsFit'
  PROVE  LifeInv'
<1>1. ThreadFits' /\ DOMAIN at' = Threads
  BY FitsKept, Zenon DEF MovesTo, LifeInv, ThreadFits
<1>. QED  BY <1>1, Zenon DEF LifeInv, RestFits

\* From the start of the loop to the mining object.
LEMMA ConnectPreserves ==
  ASSUME IInv, LifeInv, ConnectAddress \/ MakeMining
  PROVE  LifeInv'
<1> USE DEF RestFits
<1>0. owners' = owners /\ m_tp_mutex' = m_tp_mutex
  BY Zenon DEF ConnectAddress, MakeMining, OnlyAt
<1>1. CASE Goes("main", "connect", "connect") /\ StartLoop("main")
  <2>1. /\ at["main"] = "connect" /\ DOMAIN at' = Threads /\ at'["main"] = "connect"
        /\ \A u \in Threads : u # "main" => at'[u] = at[u]
    BY <1>1, Names, Zenon DEF Goes, LifeInv
  <2>2. work' = work /\ refs' = {m_loop_ref} /\ loop' = "read" /\ refs = {}
    BY <1>1, Zenon DEF StartLoop, IInv, SlotInv
  <2>3. ThreadFits'
    BY <2>1, <2>2, FitsKept, Zenon DEF LifeInv, ThreadFits
  <2>4. OwnersFit' /\ MutexFits' /\ JoinsFit'
    BY <1>0, <2>1, Names DEF LifeInv, OwnersFit, MutexFits, JoinsFit
  <2>5. TemplateFits'
    BY <1>0, <2>1, <2>2, RefsDistinct, Names, Zenon DEF LifeInv, TemplateFits
  <2>6. ObjectsFit'
    BY <2>1, <2>2, RefsDistinct, Names, Zenon DEF LifeInv, ObjectsFit
  <2>. QED  BY <2>1, <2>3, <2>4, <2>5, <2>6, Zenon DEF LifeInv
<1>2. CASE \/ Goes("main", "connect", "make") /\ loop # "none" /\ Connect("main")
           \/ Goes("main", "make", "made") /\ Call("main", "init", "mining")
           \/ Goes("main", "made", "read_static") /\ proxy("mining") \in refs /\ UNCHANGED vars
           \/ Goes("main", "made", "made") /\ Terminate("main")
  <2>1. \/ at["main"] = "connect" /\ loop # "none" /\ MovesTo("main", "make", Fn("connect", "init", Null))
        \/ at["main"] = "make" /\ work["main"] = NoWork /\ MovesTo("main", "made", Fn("call", "init", "mining"))
        \/ at["main"] = "made" /\ proxy("mining") \in refs /\ MovesTo("main", "read_static", NoWork)
        \/ at["main"] = "made" /\ MovesTo("main", "made", NoWork)
    BY <1>2, PlainMoves, PostMoves, Names, Zenon DEF vars, Call, Connect, Terminate
  <2>2. PICK b \in {"make", "made", "read_static"},
             w \in {NoWork, Fn("connect", "init", Null), Fn("call", "init", "mining")} :
          /\ at["main"] \in {"connect", "make", "made"} /\ MovesTo("main", b, w)
          /\ \/ at["main"] = "connect" /\ loop # "none" /\ b = "make" /\ w = Fn("connect", "init", Null)
             \/ /\ at["main"] = "make" /\ work["main"] = NoWork
                /\ b = "made" /\ w = Fn("call", "init", "mining")
             \/ at["main"] = "made" /\ proxy("mining") \in refs /\ b = "read_static" /\ w = NoWork
             \/ at["main"] = "made" /\ b = "made" /\ w = NoWork
    BY <2>1, Zenon
  <2>3. WorkFits("main")'
    BY <2>2, Zenon DEF WorkFits, MovesTo
  <2>4. OwnersFit' /\ MutexFits' /\ JoinsFit'
    BY <1>0, <2>2, Names, SMTT(30) DEF MovesTo, LifeInv, OwnersFit, MutexFits, JoinsFit, Starting, KeyAt, Closing
  <2>5. TemplateFits'
    BY <1>0, <2>2, Names DEF MovesTo, LifeInv, TemplateFits, SameObjects, Fn, NoWork
  <2>6. Fn("connect", "init", Null) # NoWork
    BY Zenon DEF Fn, NoWork
  <2>7. ObjectsFit'
    BY <2>2, <2>6, Names, Zenon DEF MovesTo, LifeInv, ObjectsFit, SameObjects
  <2>. QED  BY <2>2, <2>3, <2>4, <2>5, <2>7, MainByParts, Names, Zenon
<1>. QED  BY <1>1, <1>2, Zenon DEF ConnectAddress, MakeMining

\* The key files are read and written before there is another thread.
LEMMA KeyPreserves ==
  ASSUME IInv, LifeInv, NEW k \in Keys, ReadKey(k) \/ OpenKey(k) \/ WriteKey(k)
  PROVE  LifeInv'
<1> USE DEF RestFits
<1>1. owners' = owners /\ m_tp_mutex' = m_tp_mutex /\ UNCHANGED vars
  BY Zenon DEF ReadKey, OpenKey, WriteKey
<1>2. \E a \in KeyAt, b \in KeyAt \cup {"start"} : Goes("main", a, b)
  <2>1. ReadAt[k] \in KeyAt /\ OpenAt[k] \in KeyAt /\ WriteAt[k] \in KeyAt /\ KeyDone[k] \in KeyAt \cup {"start"}
    BY DEF Keys, KeyAt, ReadAt, OpenAt, WriteAt, KeyDone
  <2>. QED  BY <2>1, Zenon DEF ReadKey, OpenKey, WriteKey
<1>3. PICK b \in KeyAt \cup {"start"} : at["main"] \in KeyAt /\ MovesTo("main", b, NoWork)
  BY <1>1, <1>2, PlainMoves, Names, Zenon DEF vars
<1>4. WorkFits("main")'
  BY <1>3, Zenon DEF WorkFits, MovesTo
<1>5. OwnersFit' /\ MutexFits' /\ JoinsFit'
  BY <1>1, <1>3, Names DEF MovesTo, LifeInv, OwnersFit, MutexFits, JoinsFit, Starting, KeyAt, Closing
<1>6. TemplateFits'
  BY <1>1, <1>3, Names DEF MovesTo, LifeInv, TemplateFits, SameObjects, NoWork
<1>7. ObjectsFit'
  BY <1>3, Names, Zenon DEF MovesTo, LifeInv, ObjectsFit, SameObjects, KeyAt
<1>. QED  BY <1>3, <1>4, <1>5, <1>6, <1>7, MainByParts, Zenon

LEMMA StartPreserves ==
  ASSUME IInv, LifeInv, Start
  PROVE  LifeInv'
<1> USE DEF RestFits
<1>0. /\ at["main"] = "start" /\ owners' = owners /\ m_tp_mutex' = m_tp_mutex
      /\ work' = work /\ refs' = refs /\ loop' = loop /\ work["main"] = NoWork
  BY IdleUsesNothing, Names, Zenon DEF Start, vars
<1>1. \A t \in Threads : t # "main" => at[t] = "none"
  BY <1>0, Zenon DEF LifeInv, JoinsFit, Starting
<1>2. /\ DOMAIN at' = Threads
      /\ \/ at'["main"] = "register" /\ at'["handler"] = "ibd" /\ at'["sockets"] = "run"
         \/ at'["main"] = "join_sockets" /\ at'["handler"] = "none" /\ at'["sockets"] = "none"
      /\ at'["client"] = "none" /\ at'["saver"] = "none"
  BY <1>1, Names, Zenon DEF Start, LifeInv
<1>3. \A t \in Threads : work[t] = NoWork
  <2>1. ASSUME NEW t \in Threads, t # "main"
        PROVE  work[t] = NoWork
    <3>1. WorkFits(t) /\ at[t] = "none"
      BY <1>1, <2>1, Zenon DEF LifeInv, ThreadFits
    <3>. QED  BY <2>1, <3>1 DEF WorkFits, Calling, Dropping
  <2>. QED  BY <1>0, <2>1
<1>4. ThreadFits'
  BY <1>0, <1>3, FitsIdle, Zenon DEF ThreadFits
<1>5. owners = {}
  BY <1>1, Names, Zenon DEF LifeInv, TemplateFits
<1>6. OwnersFit' /\ MutexFits' /\ JoinsFit'
  BY <1>0, <1>2, <1>5, MainAssumption, Zenon DEF OwnersFit, MutexFits, JoinsFit, Starting, KeyAt, Closing
<1>7. TemplateFits'
  BY <1>0, <1>1, <1>2, <1>3, <1>5, Names, Zenon DEF LifeInv, TemplateFits, NoWork
<1>8. ObjectsFit'
  BY <1>0, <1>2, Zenon DEF LifeInv, ObjectsFit
<1>. QED  BY <1>2, <1>4, <1>6, <1>7, <1>8, Zenon DEF LifeInv

\* main() waits for a signal, and then joins the threads in their order.
LEMMA JoinPreserves ==
  ASSUME IInv, LifeInv, RegisterSignalHandlers \/ Interrupted \/ StopThreads \/ ConnmanStopThreads
  PROVE  LifeInv'
<1> USE DEF RestFits
<1>1. owners' = owners /\ m_tp_mutex' = m_tp_mutex
  BY Zenon DEF RegisterSignalHandlers, Interrupted, StopThreads, ConnmanStopThreads, OnlyAt
<1>2. PICK b \in {"serve", "interrupt", "join_sockets", "interrupt_again"} :
        /\ MovesTo("main", b, NoWork)
        /\ \/ at["main"] \in {"register", "serve"} /\ b \in {"serve", "interrupt"}
           \/ at["main"] = "join_handler" /\ b = "join_sockets" /\ at["handler"] = "done"
           \/ at["main"] = "join_sockets" /\ b = "interrupt_again" /\ at["sockets"] \in {"none", "done"}
  BY PlainMoves, Names, Zenon DEF RegisterSignalHandlers, Interrupted, StopThreads, ConnmanStopThreads, vars
<1>3. WorkFits("main")'
  BY <1>2, Zenon DEF WorkFits, MovesTo
<1>4. OwnersFit' /\ MutexFits' /\ JoinsFit'
  BY <1>1, <1>2, Names, SMTT(30) DEF MovesTo, LifeInv, OwnersFit, MutexFits, JoinsFit, Starting, KeyAt, Closing
<1>5. TemplateFits'
  BY <1>1, <1>2, Names DEF MovesTo, LifeInv, TemplateFits, SameObjects, NoWork
<1>6. ObjectsFit'
  BY <1>2, Names, Zenon DEF MovesTo, LifeInv, ObjectsFit, SameObjects
<1>. QED  BY <1>2, <1>3, <1>4, <1>5, <1>6, MainByParts, Zenon

\* interruptWait is called under the mutex, on what is in the cache.
LEMMA InterruptPreserves ==
  ASSUME IInv, LifeInv, NEW a, NEW b, NEW c, Interrupt(a, b, c),
         \/ a = "interrupt" /\ b = "interrupting" /\ c = "join_handler"
         \/ a = "interrupt_again" /\ b = "interrupting_again" /\ c = "drop_cache"
  PROVE  LifeInv'
<1> USE DEF RestFits
<1>0. owners' = owners
  BY Zenon DEF Interrupt
<1>1. CASE /\ Goes("main", a, b) /\ m_tp_mutex = Null /\ "cache" \in owners
           /\ Call("main", "tmpl", Null) /\ m_tp_mutex' = "main"
  <2>1. at["main"] = a /\ MovesTo("main", b, CallTmpl)
    BY <1>1, PostMoves, Names, Zenon DEF Call, CallTmpl
  <2>2. WorkFits("main")'
    BY <2>1, Zenon DEF WorkFits, MovesTo, Calling
  <2>3. OwnersFit' /\ JoinsFit'
    BY <1>0, <2>1, Names DEF MovesTo, LifeInv, OwnersFit, JoinsFit, Starting, KeyAt, Closing
  <2>4. MutexFits'
    BY <1>0, <1>1, <2>1, Names, EventLoopAssumption, Zenon DEF MovesTo, LifeInv, MutexFits
  <2>5. TemplateFits'
    BY <1>0, <1>1, <2>1, Names DEF MovesTo, LifeInv, TemplateFits, SameObjects, Fn, CallTmpl
  <2>6. ObjectsFit'
    BY <2>1, Names, Zenon DEF MovesTo, LifeInv, ObjectsFit, SameObjects
  <2>. QED  BY <2>1, <2>2, <2>3, <2>4, <2>5, <2>6, MainByParts, Zenon
<1>2. CASE /\ (Goes("main", a, c) /\ m_tp_mutex = Null) \/ Goes("main", b, c)
           /\ m_tp_mutex' = Null /\ UNCHANGED vars
  <2>1. at["main"] \in {a, b} /\ (at["main"] = a => m_tp_mutex = Null) /\ MovesTo("main", c, NoWork)
    <3>1. a # b
      BY Zenon
    <3>. QED  BY <1>2, <3>1, PlainMoves, Names, Zenon DEF vars
  <2>2. WorkFits("main")'
    BY <2>1, Zenon DEF WorkFits, MovesTo
  <2>3. OwnersFit' /\ JoinsFit'
    BY <1>0, <2>1, Names, Zenon DEF MovesTo, LifeInv, OwnersFit, JoinsFit, Starting, KeyAt, Closing
  <2>4. MutexFits'
    <3>1. at["handler"] # "pruning" /\ at["sockets"] # "request"
      BY <2>1, Names, EventLoopAssumption, Zenon DEF LifeInv, MutexFits
    <3>. QED  BY <2>1, <3>1, Names DEF MovesTo, MutexFits
  <2>5. TemplateFits'
    BY <1>0, <2>1, Names DEF MovesTo, LifeInv, TemplateFits, SameObjects, NoWork
  <2>6. ObjectsFit'
    BY <2>1, Names, Zenon DEF MovesTo, LifeInv, ObjectsFit, SameObjects
  <2>. QED  BY <2>1, <2>2, <2>3, <2>4, <2>5, <2>6, MainByParts, Zenon
<1>. QED  BY <1>1, <1>2, Zenon DEF Interrupt

\* The destructors at the end of main().
LEMMA DestroyPreserves ==
  ASSUME IInv, LifeInv, DropCache \/ DropMining \/ DropInit
  PROVE  LifeInv'
<1> USE DEF RestFits
<1>0. m_tp_mutex' = m_tp_mutex
  BY Zenon DEF DropCache, DropMining, DropInit, OnlyAt
<1>1. CASE DropCache
  <2>1. PICK w \in {NoWork, Fn("destroy", "tmpl", Null)} :
          /\ at["main"] = "drop_cache" /\ owners' = owners \ {"cache"}
          /\ MovesTo("main", "drop_mining", w) /\ (w # NoWork => owners = {"cache"})
    BY <1>1, ReleaseMoves, Names, Zenon DEF DropCache
  <2>2. WorkFits("main")'
    BY <2>1, Zenon DEF WorkFits, MovesTo, Dropping, DestroyTmpl
  <2>3. OwnersFit' /\ MutexFits' /\ JoinsFit'
    BY <1>0, <2>1, Names, Zenon DEF MovesTo, LifeInv, OwnersFit, MutexFits, JoinsFit, Starting, KeyAt, Closing
  <2>4. TemplateFits'
    BY <2>1, Names DEF MovesTo, LifeInv, TemplateFits, SameObjects, Fn, NoWork
  <2>5. ObjectsFit'
    BY <2>1, Names, Zenon DEF MovesTo, LifeInv, ObjectsFit, SameObjects
  <2>. QED  BY <2>1, <2>2, <2>3, <2>4, <2>5, MainByParts, Zenon
<1>2. CASE DropMining \/ DropInit
  <2>1. PICK b \in {"drop_init", "drop_protocol"},
             w \in {Fn("cleanup", "mining", Null), Fn("cleanup", "init", Null)} :
          /\ MovesTo("main", b, w) /\ owners' = owners
          /\ \/ at["main"] = "drop_mining" /\ b = "drop_init" /\ w = Fn("cleanup", "mining", Null)
             \/ at["main"] = "drop_init" /\ b = "drop_protocol" /\ w = Fn("cleanup", "init", Null)
    <3>1. "mining" \notin WithDestroy /\ "init" \notin WithDestroy
      BY Names, Zenon
    <3>. QED  BY <1>2, <3>1, PostMoves, Names, Zenon DEF DropMining, DropInit, Destroy, OnlyAt
  <2>2. WorkFits("main")'
    BY <2>1, Zenon DEF WorkFits, MovesTo
  <2>3. OwnersFit' /\ MutexFits' /\ JoinsFit'
    BY <1>0, <2>1, Names, Zenon DEF MovesTo, LifeInv, OwnersFit, MutexFits, JoinsFit, Starting, KeyAt, Closing
  <2>4. TemplateFits'
    BY <2>1, Names DEF MovesTo, LifeInv, TemplateFits, SameObjects, Fn
  <2>5. ObjectsFit'
    BY <2>1, Names, Zenon DEF MovesTo, LifeInv, ObjectsFit, SameObjects
  <2>. QED  BY <2>1, <2>2, <2>3, <2>4, <2>5, MainByParts, Zenon
<1>. QED  BY <1>1, <1>2

LEMMA ExitPreserves ==
  ASSUME IInv, LifeInv, DropProtocol
  PROVE  LifeInv'
<1> USE DEF RestFits
<1>1. /\ owners' = owners /\ m_tp_mutex' = m_tp_mutex /\ DOMAIN at' = Threads
      /\ \A u \in Threads : u # "main" => at'[u] = at[u]
      /\ at["main"] \in {"drop_protocol", "join_loop"} /\ at'["main"] \in {"join_loop", "exited"}
      /\ at'["main"] = "exited" => loop = "gone"
  BY Names, Zenon DEF DropProtocol, Goes, OnlyAt, LifeInv
<1>2. work' = work /\ loop' = loop /\ \A p : proxy(p) \in refs' <=> proxy(p) \in refs
  <2>1. CASE DropLoop("main")
    <3>1. work' = work /\ loop' = loop /\ refs' = refs \ {m_loop_ref}
      BY <2>1, Zenon DEF DropLoop, Reset
    <3>. QED  BY <3>1, RefsDistinct, Zenon
  <2>2. CASE UNCHANGED vars
    BY <2>2, Zenon DEF vars
  <2>. QED  BY <2>1, <2>2, Zenon DEF DropProtocol
<1>3. work["main"] = NoWork
  BY IdleUsesNothing, Names, Zenon DEF DropProtocol, Goes
<1>4. ThreadFits'
  BY <1>1, <1>2, <1>3, FitsKept, FitsIdle, Zenon DEF LifeInv, ThreadFits
<1>5. OwnersFit' /\ MutexFits' /\ JoinsFit'
  BY <1>1, Names, Zenon DEF LifeInv, OwnersFit, MutexFits, JoinsFit, Starting, KeyAt, Closing
<1>6. TemplateFits'
  BY <1>1, <1>2, Names, Zenon DEF LifeInv, TemplateFits
<1>7. ObjectsFit'
  BY <1>1, <1>2, Zenon DEF ObjectsFit
<1>. QED  BY <1>1, <1>4, <1>5, <1>6, <1>7, Zenon DEF LifeInv

-----------------------------------------------------------------------------

LEMMA LifeInit == MainInit => LifeInv
<1>. SUFFICES ASSUME MainInit
              PROVE  LifeInv
  BY Zenon
<1>1. /\ DOMAIN at = Threads /\ at["main"] = "connect" /\ owners = {} /\ refs = {} /\ loop = "none"
      /\ at["handler"] = "none" /\ at["client"] = "none" /\ at["sockets"] = "none" /\ at["saver"] = "none"
      /\ \A t \in Threads : work[t] = NoWork /\ (t # "main" => at[t] = "none")
  BY Names, Zenon DEF MainInit, Init
<1>2. ThreadFits
  BY <1>1, Zenon DEF ThreadFits, WorkFits
<1>3. OwnersFit /\ MutexFits /\ JoinsFit /\ ObjectsFit
  BY <1>1, Zenon DEF OwnersFit, MutexFits, JoinsFit, ObjectsFit, Closing
<1>4. TemplateFits
  BY <1>1, Names DEF TemplateFits, NoWork
<1>. QED  BY <1>1, <1>2, <1>3, <1>4, Zenon DEF LifeInv

\* A restart is as good as the first start.
LEMMA RestartPreserves == StartAgain => LifeInv'
<1>. SUFFICES ASSUME StartAgain
              PROVE  LifeInv'
  BY Zenon
<1>1. /\ DOMAIN at' = Threads /\ at'["main"] = "connect" /\ owners' = {} /\ refs' = {} /\ loop' = "none"
      /\ at'["handler"] = "none" /\ at'["client"] = "none" /\ at'["sockets"] = "none" /\ at'["saver"] = "none"
      /\ \A t \in Threads : work'[t] = NoWork /\ (t # "main" => at'[t] = "none")
  BY Names, Zenon DEF StartAgain, Restart
<1>2. ThreadFits'
  BY <1>1, FitsIdle, Zenon DEF ThreadFits
<1>3. OwnersFit' /\ MutexFits' /\ JoinsFit' /\ ObjectsFit'
  BY <1>1, Zenon DEF OwnersFit, MutexFits, JoinsFit, ObjectsFit, Closing
<1>4. TemplateFits'
  BY <1>1, Names DEF TemplateFits, NoWork
<1>. QED  BY <1>1, <1>2, <1>3, <1>4, Zenon DEF LifeInv

LEMMA LifeStep ==
  ASSUME IInv, LifeInv, [MainNext]_allVars
  PROVE  LifeInv'
<1>1. CASE Main
  <2>1. CASE Interrupt("interrupt", "interrupting", "join_handler")
    BY <2>1, InterruptPreserves, Zenon
  <2>2. CASE Interrupt("interrupt_again", "interrupting_again", "drop_cache")
    BY <2>2, InterruptPreserves, Zenon
  <2>. QED  BY <1>1, <2>1, <2>2, ConnectPreserves, KeyPreserves, StartPreserves, JoinPreserves,
               DestroyPreserves, ExitPreserves, Zenon DEF Main
<1>2. CASE Provider
  BY <1>2, HandlerPreserves, ClientPreserves, SocketsPreserves, SaverPreserves, Zenon DEF Provider
<1>3. CASE HandleSIGTERM \/ UNCHANGED allVars
  <2>1. UNCHANGED <<at, owners, m_tp_mutex, work, refs, loop>>
    BY <1>3, Zenon DEF HandleSIGTERM, allVars, vars, mainVars, lifeVars
  <2>2. ThreadFits'
    BY <2>1, FitsKept, Zenon DEF LifeInv, ThreadFits
  <2>3. OwnersFit' /\ MutexFits' /\ JoinsFit' /\ DOMAIN at' = Threads
    BY <2>1, Zenon DEF LifeInv, OwnersFit, MutexFits, JoinsFit
  <2>4. TemplateFits'
    BY <2>1, Zenon DEF LifeInv, TemplateFits
  <2>5. ObjectsFit'
    BY <2>1, Zenon DEF LifeInv, ObjectsFit
  <2>. QED  BY <2>2, <2>3, <2>4, <2>5, Zenon DEF LifeInv
<1>. QED  BY <1>1, <1>2, <1>3, IpcPreserves, RestartPreserves, Zenon DEF MainNext

\* The invariant of the library and of the process hold together: what one of them says of
\* the objects is what the other needs.
LEMMA ProcessInvariance == MainSpec => [](IInv /\ LifeInv)
<1>1. MainInit => IInv /\ LifeInv
  BY LifeInit, InitEstablishes, Zenon DEF MainInit
<1>2. IInv /\ LifeInv /\ [MainNext]_allVars => (IInv /\ LifeInv)'
  BY LifeStep, Contract, NextPreserves, Zenon
<1>. QED  BY <1>1, <1>2, PTL DEF MainSpec

\* The threads of sv2-tp use the library as it wants to be used: a call goes through an
\* object that exists, an object is destroyed once, by one thread, when no other is in a
\* call through it, and what a call returns is new.  This is so in any order of the
\* threads' steps, of answers, disconnects and signals, and after every restart.
THEOREM RespectsCorrect == MainSpec => RespectsEventLoop
<1>1. MainInit => Init
  BY Zenon DEF MainInit
<1>2. IInv /\ LifeInv /\ [MainNext]_allVars => [UNCHANGED vars \/ Next]_vars
  BY Contract, Zenon
<1>. QED  BY <1>1, <1>2, ProcessInvariance, PTL DEF MainSpec, RespectsEventLoop

\* With it what the library promises its users holds of this process: every write to
\* m_post_fd finds it open, no wake-up is lost or left over, and at the end nothing is.
THEOREM ProcessCorrect == MainSpec => [](WriteSucceeds /\ WokenForCause /\ EndsClean)
<1>1. [UNCHANGED vars \/ Next]_vars => [Next]_vars
  BY Zenon
<1>. QED  BY <1>1, RespectsCorrect, WriteCorrect, WakeCorrect, EndCorrect, PTL DEF RespectsEventLoop, Spec

\* main() in sv2-tp.cpp returns last: when it does, no thread, the detached one that saves
\* a block included, uses an object of the node or is about to, and the loop has ended.
THEOREM ExitCorrect == MainSpec => []ExitsLast
<1>1. IInv /\ LifeInv /\ EndsClean => ExitsLast
  <2>. SUFFICES ASSUME IInv, LifeInv, EndsClean, at["main"] = "exited"
                PROVE  /\ \A t \in Threads \ {"main"} : at[t] \in {"none", "exit", "done"}
                       /\ owners = {} /\ loop = "gone"
    BY Zenon DEF ExitsLast
  <2>1. loop = "gone"
    BY Zenon DEF LifeInv, ObjectsFit
  <2>2. refs = {}
    BY <2>1, Zenon DEF EndsClean
  <2>3. owners = {}
    BY <2>2, Zenon DEF LifeInv, TemplateFits
  <2>4. /\ at["handler"] \in {"none", "done"} /\ at["sockets"] \in {"none", "done"}
        /\ at["client"] \in {"none", "done"} /\ at["saver"] \in {"none", "exit", "done"}
    BY <2>3, Zenon DEF LifeInv, JoinsFit, OwnersFit, Closing
  <2>. QED  BY <2>1, <2>3, <2>4, MainAssumption
<1>2. MainSpec => []EndsClean
  BY ProcessCorrect, PTL
<1>. QED  BY <1>1, <1>2, ProcessInvariance, PTL

-----------------------------------------------------------------------------
(* The authority key.                                                        *)

\* What the steps that are not about key files leave of the invariant.
LEMMA KeyKept ==
  ASSUME KeyInv, UNCHANGED keyVars, DOMAIN at' = Threads,
         \/ at'["main"] = at["main"]
         \/ at'["main"] \notin {"open_authority", "write_authority", "start", "register"} /\ at["main"] = "register"
         \/ at'["main"] \notin {"open_authority", "write_authority", "start", "register", "serve"}
  PROVE  KeyInv'
BY Zenon DEF KeyInv, KeyFits, keyVars

LEMMA KeyInit == MainInit => KeyInv
BY Names, Zenon DEF MainInit, KeyInv, KeyFits, Keys

LEMMA KeyFiles ==
  ASSUME KeyInv, NEW k \in Keys, ReadKey(k) \/ OpenKey(k) \/ WriteKey(k)
  PROVE  KeyInv'
<1>0. served' = served /\ k \in {"static", "authority"}
  BY Zenon DEF ReadKey, OpenKey, WriteKey, Keys
<1>1. CASE k = "static"
  <2>1. /\ ReadAt[k] = "read_static" /\ OpenAt[k] = "open_static" /\ WriteAt[k] = "write_static"
        /\ KeyDone[k] = "read_authority"
    BY <1>1, Zenon DEF ReadAt, OpenAt, WriteAt, KeyDone
  <2>2. /\ DOMAIN at' = Threads /\ DOMAIN key' = Keys /\ DOMAIN file' = Keys
        /\ key'["authority"] = key["authority"] /\ file'["authority"] = file["authority"]
    BY <1>1, Zenon DEF ReadKey, OpenKey, WriteKey, KeyInv, Goes, Keys
  <2>4. diskError => diskError'
    BY Zenon DEF ReadKey, OpenKey, WriteKey
  <2>3. at'["main"] \in {"open_static", "write_static", "read_authority"}
    BY <2>1, Names, Zenon DEF ReadKey, OpenKey, WriteKey, KeyInv, Goes
  <2>. QED  BY <1>0, <2>2, <2>3, <2>4 DEF KeyInv, KeyFits
<1>2. CASE k = "authority"
  <2>1. /\ ReadAt[k] = "read_authority" /\ OpenAt[k] = "open_authority" /\ WriteAt[k] = "write_authority"
        /\ KeyDone[k] = "start"
    BY <1>2, Zenon DEF ReadAt, OpenAt, WriteAt, KeyDone
  <2>2. DOMAIN at' = Threads /\ DOMAIN key' = Keys /\ DOMAIN file' = Keys
    BY Zenon DEF ReadKey, OpenKey, WriteKey, KeyInv, Goes
  <2>3. CASE ReadKey(k)
    <3>1. CASE /\ Goes("main", ReadAt[k], KeyDone[k]) /\ file[k] # "none"
               /\ key' = [key EXCEPT ![k] = file[k]] /\ UNCHANGED diskError
      BY <1>0, <1>2, <2>1, <2>2, <2>3, <3>1, Names DEF ReadKey, Goes, KeyInv, KeyFits
    <3>2. CASE /\ Goes("main", ReadAt[k], OpenAt[k])
               /\ key' = [key EXCEPT ![k] = IF served THEN "later" ELSE "first"]
               /\ diskError' = (diskError \/ file[k] # "none")
      <4>1. /\ at'["main"] = "open_authority" /\ file' = file
            /\ key'["authority"] = IF served THEN "later" ELSE "first"
        BY <1>2, <2>1, <2>3, <3>2, Names, Zenon DEF ReadKey, Goes, KeyInv, Keys
      <4>2. ~diskError' => ~diskError /\ file["authority"] = "none"
        BY <1>2, <3>2, Zenon
      <4>. QED  BY <1>0, <2>2, <4>1, <4>2 DEF KeyInv, KeyFits
    <3>. QED  BY <2>3, <3>1, <3>2, Zenon DEF ReadKey
  <2>4. CASE OpenKey(k)
    BY <1>0, <1>2, <2>1, <2>2, <2>4, Names DEF OpenKey, Goes, KeyInv, KeyFits
  <2>5. CASE WriteKey(k)
    BY <1>0, <1>2, <2>1, <2>2, <2>5, Names DEF WriteKey, Goes, KeyInv, KeyFits
  <2>. QED  BY <2>3, <2>4, <2>5
<1>. QED  BY <1>0, <1>1, <1>2

LEMMA KeyStep ==
  ASSUME KeyInv, [MainNext]_allVars
  PROVE  KeyInv'
<1>0. DOMAIN at = Threads
  BY Zenon DEF KeyInv
<1>1. CASE ConnectAddress \/ MakeMining
  <2>1. UNCHANGED keyVars /\ DOMAIN at' = Threads
        /\ at'["main"] \in {"connect", "make", "made", "read_static"}
    BY <1>0, <1>1, Names, Zenon DEF ConnectAddress, MakeMining, Goes, OnlyAt
  <2>. QED  BY <2>1, KeyKept
<1>2. CASE Start
  <2>1. /\ at["main"] = "start" /\ DOMAIN at' = Threads /\ UNCHANGED <<key, file, diskError>>
        /\ at'["main"] \in {"register", "join_sockets"}
    BY <1>0, <1>2, Names, Zenon DEF Start
  <2>2. DOMAIN key = Keys /\ DOMAIN file = Keys
    BY Zenon DEF KeyInv
  <2>3. ~diskError => key["authority"] = "first" /\ file["authority"] = "first"
    BY <2>1, Zenon DEF KeyInv, KeyFits
  <2>. QED  BY <2>1, <2>2, <2>3 DEF KeyInv, KeyFits
<1>3. CASE RegisterSignalHandlers
  <2>1. UNCHANGED keyVars /\ DOMAIN at' = Threads /\ at["main"] = "register" /\ at'["main"] = "serve"
    BY <1>0, <1>3, Names, Zenon DEF RegisterSignalHandlers, Goes, OnlyAt
  <2>. QED  BY <2>1, KeyKept
<1>4. CASE Interrupted \/ StopThreads \/ ConnmanStopThreads \/ DropCache \/ DropMining \/ DropInit \/ DropProtocol
  <2>1. UNCHANGED keyVars /\ DOMAIN at' = Threads
        /\ at'["main"] \in {"interrupt", "join_sockets"} \cup Closing
    BY Zenon, <1>0, <1>4, Names DEF Interrupted, StopThreads, ConnmanStopThreads, DropCache, DropMining, DropInit,
                            DropProtocol, Goes, OnlyAt, Closing
  <2>. QED  BY <2>1, KeyKept DEF Closing
<1>5. CASE \/ Interrupt("interrupt", "interrupting", "join_handler")
           \/ Interrupt("interrupt_again", "interrupting_again", "drop_cache")
  <2>1. UNCHANGED keyVars /\ DOMAIN at' = Threads
        /\ at'["main"] \in {"interrupting", "join_handler", "interrupting_again", "drop_cache"}
    BY <1>0, <1>5, Names, Zenon DEF Interrupt, Goes
  <2>. QED  BY <2>1, KeyKept
<1>6. CASE Main
  BY <1>1, <1>2, <1>3, <1>4, <1>5, <1>6, KeyFiles, Zenon DEF Main
<1>7. CASE Provider
  <2>1. UNCHANGED keyVars
    BY <1>7, Zenon DEF Provider, ThreadSv2Handler, WaitForIBD, PruneBlockTemplateCache, ThreadEnd,
         ThreadSv2ClientHandler, FirstTemplate, WaitNext, ThreadSocketHandler, RequestTransactionData,
         SubmitSolution, SaveBlockAsync, OnlyAt
  <2>2. DOMAIN at' = Threads /\ at'["main"] = at["main"]
    <3>1. ASSUME NEW t \in Threads, t # "main", NEW a, NEW b, Goes(t, a, b)
          PROVE  DOMAIN at' = Threads /\ at'["main"] = at["main"]
      BY <1>0, <3>1, Names, Zenon DEF Goes
    <3>2. CASE at' = [at EXCEPT !["client"] = "create"] \/ at' = [at EXCEPT !["sockets"] = "drop", !["saver"] = "sleep"]
      BY <1>0, <3>2, Names, Zenon
    <3>3. CASE ThreadSv2Handler
      BY <3>1, <3>2, <3>3, Names, Zenon DEF ThreadSv2Handler, WaitForIBD, PruneBlockTemplateCache, ThreadEnd
    <3>4. CASE ThreadSv2ClientHandler
      BY <3>1, <3>4, Names, Zenon DEF ThreadSv2ClientHandler, FirstTemplate, WaitNext, ThreadEnd
    <3>5. CASE ThreadSocketHandler \/ SaveBlockAsync
      BY <3>1, <3>2, <3>5, Names, Zenon DEF ThreadSocketHandler, RequestTransactionData, SubmitSolution,
           SaveBlockAsync, ThreadEnd
    <3>. QED  BY <1>7, <3>3, <3>4, <3>5, Zenon DEF Provider
  <2>. QED  BY <2>1, <2>2, KeyKept
<1>8. CASE StartAgain
  <2>1. /\ at'["main"] = "connect" /\ DOMAIN at' = Threads /\ DOMAIN key' = Keys
        /\ UNCHANGED <<file, served, diskError>>
    BY <1>8, Names, Zenon DEF StartAgain
  <2>. QED  BY <2>1 DEF KeyInv, KeyFits
<1>9. CASE HandleSIGTERM \/ Ipc \/ UNCHANGED allVars
  <2>1. UNCHANGED keyVars /\ at' = at
    BY <1>9, Zenon DEF HandleSIGTERM, Ipc, allVars, mainVars, lifeVars, keyVars
  <2>. QED  BY <1>0, <2>1, KeyKept
<1>. QED  BY <1>6, <1>7, <1>8, <1>9, Zenon DEF MainNext

\* The keys in template_provider.cpp: as long as the files can be read and written, every
\* start serves with the authority key of the first one that did, at whatever point the
\* process was killed before.
THEOREM AuthorityCorrect == MainSpec => []AuthorityKept
<1>1. KeyInv => AuthorityKept
  BY Zenon DEF KeyInv, KeyFits, AuthorityKept
<1>2. KeyInv /\ [MainNext]_allVars => KeyInv'
  BY KeyStep
<1>. QED  BY <1>1, <1>2, KeyInit, PTL DEF MainSpec
=============================================================================
