----------------------------- MODULE EventLoop ------------------------------
(* libmultiprocess's EventLoop, the Connection and the proxy objects, as a     *)
(* process uses them that only connects out.  Threads call the node through    *)
(* proxies; every use of Cap'n Proto is posted to the loop's own thread, one   *)
(* function at a time, with one byte in a socket pair to wake it up.  Every    *)
(* object that needs the loop holds an EventLoopRef, and the loop ends when    *)
(* the last of them is gone.                                                   *)
EXTENDS Naturals

CONSTANTS
  Threads,      \* the threads that make calls
  Proxies,      \* the ProxyClient objects there may be
  InitProxy,    \* the one ConnectStream returns: it owns the Connection
  WithDestroy,  \* those whose interface has a destroy method
  Null

ASSUME EventLoopAssumption ==
  /\ InitProxy \in Proxies /\ WithDestroy \subseteq Proxies \ {InitProxy}
  /\ Null \notin Threads /\ Null \notin Proxies

VARIABLES
  m_post_fn,  \* the thread whose function is posted, or Null
  refs,       \* the EventLoopRefs there are: m_num_clients is their number
  pipe,       \* bytes written to m_post_fd and not yet read from m_wait_fd
  loop,       \* where the loop's thread is
  asleep,     \* the threads waiting on m_cv
  pc,         \* where each thread is in post(), clientInvoke() or a destructor
  then,       \* where it goes on after the write of EventLoopRef::reset
  work,       \* what it posted last
  reply,      \* what has become of its call
  aborted     \* std::terminate was called

vars == <<m_post_fn, refs, pipe, loop, asleep, pc, then, work, reply, aborted>>

\* The holders of an EventLoopRef: CapnpProtocol, the Connection, a post() that has
\* not returned, a ProxyClient, and a thread's request_threads and callback_threads.
m_loop_ref == <<"loop_ref", Null>>
connection == <<"connection", Null>>
post(t) == <<"post", t>>
proxy(p) == <<"proxy", p>>
conn_threads(t) == <<"conn_threads", t>>

ConnThreads == {conn_threads(t) : t \in Threads}
Refs == {m_loop_ref, connection} \cup {post(t) : t \in Threads}
        \cup {proxy(p) : p \in Proxies} \cup ConnThreads

Work == [op : {"none", "connect", "call", "destroy", "cleanup", "exit"},
         proxy : Proxies \cup {Null}, result : Proxies \cup {Null}]

NoWork == [op |-> "none", proxy |-> Null, result |-> Null]

Init ==
  /\ m_post_fn = Null /\ refs = {} /\ pipe = 0 /\ loop = "none" /\ asleep = {}
  /\ pc = [t \in Threads |-> "idle"] /\ then = [t \in Threads |-> "idle"]
  /\ work = [t \in Threads |-> NoWork] /\ reply = [t \in Threads |-> "none"]
  /\ aborted = FALSE

-----------------------------------------------------------------------------
(* EventLoop::post, and the reference it holds while it runs.              *)

\* The first wait of post(), once it is woken up or finds the slot free.
TakeSlot(t) ==
  IF m_post_fn = Null
  THEN /\ m_post_fn' = t
       /\ pc' = [pc EXCEPT ![t] = "write"]
       /\ UNCHANGED asleep
  ELSE /\ asleep' = asleep \cup {t}
       /\ pc' = [pc EXCEPT ![t] = "slot"]
       /\ UNCHANGED m_post_fn

\* MUTANT: post() holds no reference of its own.
PostUncounted(t, w) ==
  /\ work' = [work EXCEPT ![t] = w]
  /\ TakeSlot(t)
  /\ UNCHANGED <<refs, pipe, loop, then, aborted>>

Post(t, w) ==
  /\ refs' = refs \cup {post(t)}
  /\ work' = [work EXCEPT ![t] = w]
  /\ TakeSlot(t)
  /\ UNCHANGED <<pipe, loop, then, aborted>>

WaitForSlot(t) ==
  /\ pc[t] = "slot" /\ t \notin asleep
  /\ TakeSlot(t)
  /\ UNCHANGED <<refs, pipe, loop, then, work, reply, aborted>>

WritePost(t) ==
  /\ pc[t] = "write"
  /\ pipe' = pipe + 1
  /\ pc' = [pc EXCEPT ![t] = "check"]
  /\ UNCHANGED <<m_post_fn, refs, loop, asleep, then, work, reply, aborted>>

\* MUTANT: the loop is not woken up for the last reference.
ResetSilently(t, r, next) ==
  /\ refs' = refs \ {r}
  /\ pc' = [pc EXCEPT ![t] = next]
  /\ UNCHANGED <<m_post_fn, pipe, loop, asleep, then, reply, aborted>>

\* EventLoopRef::reset on thread t.  Whoever takes the last reference away wakes up
\* the loop, after m_mutex is unlocked: nothing of the loop is used after that write.
Reset(t, r, next) ==
  /\ refs' = refs \ {r}
  /\ IF r \in refs /\ refs' = {}
     THEN /\ asleep' = {}
          /\ pc' = [pc EXCEPT ![t] = "wake"]
          /\ then' = [then EXCEPT ![t] = next]
     ELSE /\ pc' = [pc EXCEPT ![t] = next]
          /\ UNCHANGED <<asleep, then>>
  /\ UNCHANGED <<m_post_fn, pipe, loop, reply, aborted>>

WriteWake(t) ==
  /\ pc[t] = "wake"
  /\ pipe' = pipe + 1
  /\ pc' = [pc EXCEPT ![t] = then[t]]
  /\ then' = [then EXCEPT ![t] = "idle"]
  /\ UNCHANGED <<m_post_fn, refs, loop, asleep, work, reply, aborted>>

\* Where a thread goes on when its function has been run.
After(w) == CASE w.op \in {"call", "destroy"} -> "reply"
              [] w.op = "connect" -> "construct"
              [] OTHER -> "unref"

\* The second wait of post(), and its return.
WaitForRun(t) ==
  /\ pc[t] = "check" /\ t \notin asleep
  /\ IF m_post_fn = t
     THEN /\ asleep' = asleep \cup {t}
          /\ UNCHANGED <<m_post_fn, refs, pipe, loop, pc, then, work, reply, aborted>>
     ELSE Reset(t, post(t), After(work[t])) /\ UNCHANGED work

-----------------------------------------------------------------------------
(* What a thread may do with the objects.                                  *)

Idle(t) == pc[t] = "idle" /\ ~aborted

\* Thread u is in a call through p, or in its destructor.
Uses(u, p) == pc[u] # "idle" /\ work[u].proxy = p

DoPost(t, op, p, q) ==
  /\ Post(t, [op |-> op, proxy |-> p, result |-> q])
  /\ reply' = [reply EXCEPT ![t] = "none"]

\* CapnpProtocol::startLoop.
StartLoop(t) ==
  /\ Idle(t) /\ loop = "none"
  /\ loop' = "read" /\ refs' = {m_loop_ref}
  /\ UNCHANGED <<m_post_fn, pipe, asleep, pc, then, work, reply, aborted>>

\* ConnectStream.
Connect(t) ==
  /\ Idle(t)
  /\ DoPost(t, "connect", InitProxy, Null)

\* clientInvoke: a method of p, which may return the object q.
Call(t, p, q) ==
  /\ Idle(t)
  /\ DoPost(t, "call", p, q)

\* ~ProxyClientBase: first the destroy method, if the interface has one.
Destroy(t, p) ==
  /\ Idle(t)
  /\ DoPost(t, IF p \in WithDestroy THEN "destroy" ELSE "cleanup", p, Null)

\* The thread_local ThreadContext is destroyed with its thread.
Exit(t) ==
  /\ Idle(t) /\ conn_threads(t) \in refs
  /\ DoPost(t, "exit", Null, Null)

\* ~CapnpProtocol, up to the join.
DropLoop(t) ==
  /\ Idle(t)
  /\ Reset(t, m_loop_ref, "idle") /\ UNCHANGED work

\* Nothing on thread t catches what a call raised.
Terminate(t) ==
  /\ Idle(t)
  /\ aborted' = TRUE
  /\ UNCHANGED <<m_post_fn, refs, pipe, loop, asleep, pc, then, work, reply>>

\* The end of ConnectStream: the object that owns the connection.
Construct(t) ==
  /\ pc[t] = "construct"
  /\ refs' = refs \cup {proxy(InitProxy)}
  /\ pc' = [pc EXCEPT ![t] = "idle"]
  /\ work' = [work EXCEPT ![t] = NoWork]
  /\ UNCHANGED <<m_post_fn, pipe, loop, asleep, then, reply, aborted>>

\* The end of clientInvoke.  What it raises is the caller's to catch, but a destructor
\* is noexcept: then the process is terminated.
Return(t) ==
  /\ pc[t] = "reply" /\ reply[t] \in {"ok", "raised"}
  /\ \/ /\ work[t].op = "call"
        /\ pc' = [pc EXCEPT ![t] = "idle"]
        /\ work' = [work EXCEPT ![t] = NoWork]
        /\ UNCHANGED <<m_post_fn, refs, pipe, loop, asleep, then, reply, aborted>>
     \/ /\ work[t].op = "destroy" /\ reply[t] = "ok"
        /\ DoPost(t, "cleanup", work[t].proxy, Null)
     \/ /\ work[t].op = "destroy" /\ reply[t] = "raised"
        /\ aborted' = TRUE
        /\ UNCHANGED <<m_post_fn, refs, pipe, loop, asleep, pc, then, work, reply>>

\* The members of the object are destroyed, its EventLoopRef with them.
Unref(t) ==
  /\ pc[t] = "unref"
  /\ Reset(t, IF work[t].op = "exit" THEN conn_threads(t) ELSE proxy(work[t].proxy), "idle")
  /\ work' = [work EXCEPT ![t] = NoWork]

-----------------------------------------------------------------------------
(* The loop's thread.                                                      *)

LoopRead ==
  /\ loop = "read" /\ pipe > 0
  /\ pipe' = pipe - 1 /\ loop' = "woken"
  /\ UNCHANGED <<m_post_fn, refs, asleep, pc, then, work, reply, aborted>>

LoopWoken ==
  /\ loop = "woken"
  /\ loop' = CASE m_post_fn # Null -> "run"
               [] m_post_fn = Null /\ refs = {} -> "closing"
               [] OTHER -> "read"
  /\ UNCHANGED <<m_post_fn, refs, pipe, asleep, pc, then, work, reply, aborted>>

\* ~Connection: the requests that are out are rejected, and the clean-up functions
\* tell every proxy and erase every thread's entry.
DeleteConnection ==
  /\ refs' = refs \ ({connection} \cup ConnThreads)
  /\ reply' = [t \in Threads |-> IF reply[t] = "sent" THEN "raised" ELSE reply[t]]

\* The function of the thread that posted, by what it is.
RunFn(t) ==
  LET w == work[t] IN
  \/ /\ w.op = "connect"
     /\ refs' = refs \cup {connection} /\ UNCHANGED reply
  \/ /\ w.op \in {"call", "destroy"} /\ connection \in refs
     /\ refs' = refs \cup {conn_threads(t)}
     /\ reply' = [reply EXCEPT ![t] = "sent"]
  \/ /\ w.op \in {"call", "destroy"} /\ connection \notin refs
     /\ reply' = [reply EXCEPT ![t] = "raised"] /\ UNCHANGED refs
  \/ /\ w.op = "cleanup" /\ w.proxy = InitProxy
     /\ DeleteConnection
  \/ /\ w.op \in {"cleanup", "exit"} /\ w.proxy # InitProxy
     /\ UNCHANGED <<refs, reply>>

LoopRun ==
  /\ loop = "run" /\ loop' = "ran"
  /\ \E t \in Threads : t = m_post_fn /\ RunFn(t)
  /\ UNCHANGED <<m_post_fn, pipe, asleep, pc, then, work, aborted>>

\* MUTANT: the loop ends after a function if only the one who posted it is left.
LoopRanBreaks ==
  /\ loop = "ran" /\ loop' = IF refs \ {post(m_post_fn)} = {} THEN "closing" ELSE "read"
  /\ m_post_fn' = Null /\ asleep' = {}
  /\ UNCHANGED <<refs, pipe, pc, then, work, reply, aborted>>

LoopRan ==
  /\ loop = "ran" /\ loop' = "read"
  /\ m_post_fn' = Null /\ asleep' = {}
  /\ UNCHANGED <<refs, pipe, pc, then, work, reply, aborted>>

\* The node answers: with the object asked for, without one, or with an exception.
Reply(t) ==
  /\ loop = "read" /\ reply[t] = "sent"
  /\ \/ /\ reply' = [reply EXCEPT ![t] = "ok"]
        /\ refs' \in {refs, refs \cup {proxy(q) : q \in {work[t].result} \ {Null}}}
     \/ /\ work[t].op = "call"
        /\ reply' = [reply EXCEPT ![t] = "raised"] /\ UNCHANGED refs
  /\ UNCHANGED <<m_post_fn, pipe, loop, asleep, pc, then, work, aborted>>

\* The node closes the socket: the handler set by ConnectStream deletes the Connection.
Disconnect ==
  /\ loop = "read" /\ connection \in refs /\ proxy(InitProxy) \in refs
  /\ DeleteConnection
  /\ UNCHANGED <<m_post_fn, pipe, loop, asleep, pc, then, work, aborted>>

\* After the break: the descriptors are closed, then the loop object is destroyed.
LoopClose ==
  /\ loop = "closing" /\ loop' = "closed"
  /\ UNCHANGED <<m_post_fn, refs, pipe, asleep, pc, then, work, reply, aborted>>

LoopEnd ==
  /\ loop = "closed" /\ loop' = "gone" /\ asleep' = {}
  /\ UNCHANGED <<m_post_fn, refs, pipe, pc, then, work, reply, aborted>>

-----------------------------------------------------------------------------

ThreadStep(t) == WaitForSlot(t) \/ WritePost(t) \/ WaitForRun(t) \/ WriteWake(t)
                 \/ Construct(t) \/ Return(t) \/ Unref(t)

LoopStep == LoopRead \/ LoopWoken \/ LoopRun \/ LoopRan \/ LoopClose \/ LoopEnd

\* What runs by itself once a thread has begun something.
Step == ~aborted /\ (LoopStep \/ Disconnect \/ \E t \in Threads : ThreadStep(t) \/ Reply(t))

\* What the users of the library must respect: an object is used while it exists, it is
\* destroyed once and by one thread while nobody else uses it, and a name is not given to
\* two objects at a time.
Exists(p) == proxy(p) \in refs /\ \A u \in Threads : Uses(u, p) => work[u].op = "call"

IsNew(q) == proxy(q) \notin refs /\ \A u \in Threads : pc[u] # "idle" => work[u].result # q

Begin(t) ==
  \/ StartLoop(t)
  \/ /\ m_loop_ref \in refs /\ connection \notin refs /\ proxy(InitProxy) \notin refs
     /\ \A u \in Threads : ~Uses(u, InitProxy)
     /\ Connect(t)
  \/ \E p \in Proxies : \E q \in Proxies \cup {Null} :
       Exists(p) /\ q # InitProxy /\ (q # Null => IsNew(q)) /\ Call(t, p, q)
  \/ \E p \in Proxies : Exists(p) /\ (\A u \in Threads : ~Uses(u, p)) /\ Destroy(t, p)
  \/ Exit(t) \/ Terminate(t)
  \/ m_loop_ref \in refs /\ DropLoop(t)

\* The process is killed, or ends, and is started again.
Restart ==
  /\ m_post_fn' = Null /\ refs' = {} /\ pipe' = 0 /\ loop' = "none" /\ asleep' = {}
  /\ pc' = [t \in Threads |-> "idle"] /\ then' = [t \in Threads |-> "idle"]
  /\ work' = [t \in Threads |-> NoWork] /\ reply' = [t \in Threads |-> "none"]
  /\ aborted' = FALSE

Next == Restart \/ Step \/ \E t \in Threads : Begin(t)

Spec == Init /\ [][Next]_vars

-----------------------------------------------------------------------------
(* Properties *)

Pcs == {"idle", "slot", "write", "check", "wake", "construct", "reply", "unref"}

LoopStates == {"none", "read", "woken", "run", "ran", "closing", "closed", "gone"}

TypeOK ==
  /\ m_post_fn \in Threads \cup {Null}
  /\ refs \subseteq Refs /\ pipe \in Nat /\ loop \in LoopStates
  /\ asleep \subseteq Threads
  /\ pc \in [Threads -> Pcs] /\ then \in [Threads -> Pcs]
  /\ work \in [Threads -> Work]
  /\ reply \in [Threads -> {"none", "sent", "ok", "raised"}]
  /\ aborted \in BOOLEAN

\* "to ensure that the EventLoopRef write(post_fd) call always succeeds": a thread that
\* is about to write, in post() or in EventLoopRef::reset, finds the descriptor open.
WriteSucceeds ==
  \A t \in Threads : pc[t] \in {"write", "wake"} => loop \notin {"none", "closed", "gone"}

\* No wake-up is lost and none is left over: while the loop's thread waits for a byte
\* there is one, or a thread about to write one, exactly when there is something to do,
\* which is a posted function, or to end because the last reference is gone.
WokenForCause ==
  loop = "read" =>
    /\ pipe <= 1
    /\ pipe = 1 \/ (\E t \in Threads : pc[t] \in {"write", "wake"}) <=> m_post_fn # Null \/ refs = {}
    /\ pipe = 1 => \A t \in Threads : pc[t] \notin {"write", "wake"}

\* What the destructor of EventLoop asserts, and that no thread is left in post() or in a
\* call, which would use the loop after its end.
EndsClean ==
  loop \in {"closing", "closed", "gone"} =>
    /\ refs = {} /\ m_post_fn = Null /\ pipe = 0
    /\ \A t \in Threads : pc[t] \notin {"slot", "write", "check", "reply", "construct", "wake"}

\* "The second case is handled by the disconnect_cb function, which sets
\* m_context.connection to null so nothing happens here": a proxy that is destroyed
\* after a disconnect does not raise.
DestroyIsQuiet ==
  \A t \in Threads : pc[t] = "reply" /\ work[t].op = "destroy" => reply[t] # "raised"
=============================================================================
