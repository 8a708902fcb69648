-------------------------- MODULE EventLoopProofs ---------------------------
(* For any set of threads and any set of objects: the loop is woken up when   *)
(* there is something to do and only then, its descriptors are open whenever  *)
(* they are written to, and it ends with nothing left over.                   *)
EXTENDS EventLoop, TLAPS

-----------------------------------------------------------------------------
(* The inductive invariant.                                                 *)

\* Where thread t is fits what it posted.
WorkOf(t) ==
  /\ pc[t] = "idle" => work[t].op = "none"
  /\ pc[t] = "wake" => \/ work[t].op = "none" /\ then[t] = "idle"
                       \/ work[t].op = "exit" /\ then[t] = "unref"
  /\ pc[t] \in {"slot", "write", "check"} => work[t].op # "none"
  /\ pc[t] = "construct" => work[t].op = "connect"
  /\ pc[t] = "reply" => work[t].op \in {"call", "destroy"}
  /\ pc[t] = "unref" => work[t].op \in {"cleanup", "exit"}
  /\ work[t].op \in {"none", "exit"} <=> work[t].proxy = Null
  /\ work[t].op = "connect" => work[t].proxy = InitProxy
  /\ work[t].result # InitProxy
  /\ reply[t] = "sent" => work[t].op \in {"call", "destroy"}

\* An object that is being destroyed, or constructed, is used by one thread.
Exclusive ==
  \A t, u \in Threads :
    t # u /\ work[t].proxy # Null /\ work[t].proxy = work[u].proxy
      => work[t].op = "call" /\ work[u].op = "call"

\* post() holds a reference until it returns, and an object that is used holds its own.
RefsOf(t) ==
  /\ post(t) \in refs <=> pc[t] \in {"slot", "write", "check"}
  /\ work[t].op \in {"call", "destroy", "cleanup"} => proxy(work[t].proxy) \in refs
  /\ work[t].op = "connect" => proxy(InitProxy) \notin refs
  /\ /\ work[t].op = "connect"
     /\ pc[t] = "construct" \/ (pc[t] = "check" /\ (m_post_fn # t \/ loop = "ran"))
     => connection \in refs

WorkInv == Exclusive /\ \A t \in Threads : WorkOf(t)

RefsInv == \A t \in Threads : RefsOf(t)

\* A function is posted: its byte is still to be written, in the pipe, or read.
Posted ==
  m_post_fn # Null =>
    /\ pc[m_post_fn] \in {"write", "check"}
    /\ loop \in {"read", "woken", "run", "ran"}
    /\ pc[m_post_fn] = "write" => pipe = 0 /\ loop = "read"
    /\ pc[m_post_fn] = "check" => pipe = (IF loop = "read" THEN 1 ELSE 0)
    /\ \A t \in Threads : pc[t] # "wake"

\* There is nothing to do.
Resting ==
  m_post_fn = Null /\ refs # {} => pipe = 0 /\ loop = "read" /\ \A t \in Threads : pc[t] # "wake"

\* The last reference is gone: one byte, still to be written, in the pipe, or read.
Ending ==
  m_post_fn = Null /\ refs = {} =>
    \/ /\ pipe = 0 /\ loop = "read"
       /\ \E t \in Threads : pc[t] = "wake" /\ \A u \in Threads : pc[u] = "wake" => u = t
    \/ pipe = 1 /\ loop = "read" /\ \A t \in Threads : pc[t] # "wake"
    \/ /\ pipe = 0 /\ loop \in {"none", "woken", "closing", "closed", "gone"}
       /\ \A t \in Threads : pc[t] # "wake"

SlotInv ==
  /\ \A t \in Threads : pc[t] = "write" => m_post_fn = t
  /\ Posted /\ Resting /\ Ending
  /\ loop = "none" => refs = {} /\ m_post_fn = Null /\ \A t \in Threads : pc[t] = "idle"

IInv == TypeOK /\ WorkInv /\ RefsInv /\ SlotInv

-----------------------------------------------------------------------------
(* What holds of the references, of post() and of EventLoopRef::reset.      *)

\* Different holders have different references.
LEMMA RefsDistinct ==
  /\ m_loop_ref # connection
  /\ \A x : /\ post(x) # m_loop_ref /\ post(x) # connection
            /\ proxy(x) # m_loop_ref /\ proxy(x) # connection
            /\ conn_threads(x) # m_loop_ref /\ conn_threads(x) # connection
  /\ \A x, y : /\ post(x) # proxy(y) /\ post(x) # conn_threads(y) /\ proxy(x) # conn_threads(y)
               /\ (post(x) = post(y) => x = y) /\ (proxy(x) = proxy(y) => x = y)
BY Zenon DEF m_loop_ref, connection, post, proxy, conn_threads

\* The references a thread or an object may hold are among Refs.
LEMMA RefsTyped ==
  /\ m_loop_ref \in Refs /\ connection \in Refs
  /\ \A t \in Threads : post(t) \in Refs /\ conn_threads(t) \in Refs
  /\ \A p \in Proxies : proxy(p) \in Refs
BY Zenon DEF Refs, ConnThreads

\* A thread that posts a function, which it may do while some reference keeps the loop
\* there, preserves the invariant: post() takes a reference, and the slot or its place.
LEMMA PostPreserves ==
  ASSUME IInv, NEW t \in Threads, NEW op \in {"connect", "call", "destroy", "cleanup", "exit"},
         NEW p \in Proxies \cup {Null}, NEW q \in Proxies \cup {Null},
         DoPost(t, op, p, q), refs # {}, pc[t] \in {"idle", "reply"}, q # InitProxy,
         op = "exit" <=> p = Null,
         op = "connect" => p = InitProxy /\ proxy(InitProxy) \notin refs,
         op \in {"call", "destroy", "cleanup"} => proxy(p) \in refs,
         \A u \in Threads : u # t /\ p # Null /\ work[u].proxy = p => op = "call" /\ work[u].op = "call"
  PROVE  IInv'
<1> DEFINE w == [op |-> op, proxy |-> p, result |-> q]
<1>1. /\ refs' = refs \cup {post(t)} /\ work' = [work EXCEPT ![t] = w]
      /\ TakeSlot(t) /\ UNCHANGED <<pipe, loop, then, aborted>>
      /\ reply' = [reply EXCEPT ![t] = "none"]
  BY Zenon DEF DoPost, Post
<1>2. TypeOK'
  <2>1. w \in Work
    BY Zenon DEF Work
  <2>2. refs' \subseteq Refs /\ work' \in [Threads -> Work]
    BY <1>1, <2>1, RefsTyped, Zenon DEF IInv, TypeOK
  <2>3. m_post_fn' \in Threads \cup {Null} /\ asleep' \subseteq Threads /\ pc' \in [Threads -> Pcs]
    BY <1>1, Zenon DEF IInv, TypeOK, TakeSlot, Pcs
  <2>. QED  BY <1>1, <2>2, <2>3 DEF IInv, TypeOK
<1>3. /\ pc' = [pc EXCEPT ![t] = IF m_post_fn = Null THEN "write" ELSE "slot"]
      /\ m_post_fn' = (IF m_post_fn = Null THEN t ELSE m_post_fn)
  BY <1>1, Zenon DEF TakeSlot
<1>4. /\ work'[t] = w /\ pc'[t] \in {"write", "slot"} /\ reply'[t] = "none"
      /\ \A u \in Threads : u # t => work'[u] = work[u] /\ pc'[u] = pc[u] /\ reply'[u] = reply[u]
  BY <1>1, <1>3, Zenon DEF IInv, TypeOK
<1>5. WorkInv'
  <2>1. w.op = op /\ w.proxy = p /\ w.result = q
    BY Zenon
  <2> HIDE DEF w
  <2>2. ASSUME NEW u \in Threads, NEW v \in Threads, u # v,
               work'[u].proxy # Null, work'[u].proxy = work'[v].proxy
        PROVE  work'[u].op = "call" /\ work'[v].op = "call"
    <3>1. CASE u = t
      BY <3>1, <2>1, <2>2, <1>4, Zenon DEF IInv, WorkInv, Exclusive
    <3>2. CASE v = t
      BY <3>2, <2>1, <2>2, <1>4, Zenon DEF IInv, WorkInv, Exclusive
    <3>3. CASE u # t /\ v # t
      BY <3>3, <2>2, <1>4 DEF IInv, WorkInv, Exclusive
    <3>. QED  BY <3>1, <3>2, <3>3
  <2>3. ASSUME NEW u \in Threads
        PROVE  WorkOf(u)'
    <3>1. CASE u = t
      BY <3>1, <2>1, <1>4, Zenon DEF WorkOf
    <3>2. CASE u # t
      BY <3>2, <1>1, <1>4 DEF IInv, WorkInv, WorkOf
    <3>. QED  BY <3>1, <3>2
  <2>. QED  BY <2>2, <2>3 DEF WorkInv, Exclusive
<1>6. RefsInv'
  <2>1. w.op = op /\ w.proxy = p
    BY Zenon
  <2> HIDE DEF w
  <2>2. ASSUME NEW x PROVE proxy(x) \in refs' <=> proxy(x) \in refs
    BY <1>1, RefsDistinct, Zenon
  <2>3. connection \in refs => connection \in refs'
    BY <1>1, Zenon
  <2>4. \A u \in Threads : u # t => (post(u) \in refs' <=> post(u) \in refs)
    BY <1>1, RefsDistinct, Zenon
  <2>5. ASSUME NEW u \in Threads
        PROVE  RefsOf(u)'
    <3>1. CASE u = t
      BY <3>1, <2>1, <2>2, <1>1, <1>4, Zenon DEF RefsOf
    <3>2. CASE u # t
      <4>1. m_post_fn' = u <=> m_post_fn = u
        BY <3>2, <1>3, EventLoopAssumption, Zenon DEF IInv, TypeOK
      <4>. QED  BY <3>2, <4>1, <2>2, <2>3, <2>4, <1>1, <1>4 DEF IInv, RefsInv, RefsOf
    <3>. QED  BY <3>1, <3>2
  <2>. QED  BY <2>5 DEF RefsInv
<1>7. SlotInv'
  <2>1. loop # "none" /\ refs' # {} /\ m_post_fn' # Null
    BY <1>1, <1>3, EventLoopAssumption, Zenon DEF IInv, SlotInv
  <2>2. CASE m_post_fn = Null
    <3>1. pipe = 0 /\ loop = "read" /\ \A u \in Threads : pc[u] # "wake"
      BY <2>2, Zenon DEF IInv, SlotInv, Resting
    <3>2. \A u \in Threads : pc'[u] = "write" => u = t
      BY <2>2, <1>4, EventLoopAssumption, Zenon DEF IInv, SlotInv
    <3>3. \A u \in Threads : pc'[u] # "wake"
      BY <3>1, <1>4, Zenon
    <3>4. m_post_fn' = t /\ pc'[t] = "write"
      BY <2>2, <1>3, Zenon DEF IInv, TypeOK
    <3>. QED  BY <2>1, <3>1, <3>2, <3>3, <3>4, <1>1 DEF SlotInv, Posted, Resting, Ending
  <2>3. CASE m_post_fn # Null
    <3>1. m_post_fn \in Threads /\ m_post_fn # t /\ m_post_fn' = m_post_fn /\ pc'[t] = "slot"
      BY <2>3, <1>3, Zenon DEF IInv, TypeOK, SlotInv, Posted
    <3>2. \A u \in Threads : pc'[u] # "wake"
      BY <2>3, <1>4, Zenon DEF IInv, SlotInv, Posted
    <3>3. \A u \in Threads : pc'[u] = "write" => u = m_post_fn
      BY <3>1, <1>4, Zenon DEF IInv, SlotInv
    <3>4. pc'[m_post_fn] = pc[m_post_fn]
      BY <3>1, <1>4, Zenon
    <3>. QED  BY <2>1, <2>3, <3>1, <3>2, <3>3, <3>4, <1>1 DEF IInv, SlotInv, Posted, Resting, Ending
  <2>. QED  BY <2>2, <2>3
<1>. QED  BY <1>2, <1>5, <1>6, <1>7 DEF IInv

\* A thread that gives up a reference which is not the one of the posted function keeps
\* the wake-ups right: it is about to write one exactly if the reference was the last.
LEMMA ResetPreserves ==
  ASSUME IInv, NEW t \in Threads, NEW r, NEW next \in {"idle", "construct", "reply", "unref"},
         Reset(t, r, next), pc[t] \notin {"write", "wake"}, m_post_fn # t, loop # "none",
         m_post_fn # Null => r # post(m_post_fn)
  PROVE  /\ SlotInv'
         /\ refs' = refs \ {r} /\ (pc'[t] = next \/ (pc'[t] = "wake" /\ then'[t] = next /\ refs' = {}))
         /\ \A u \in Threads : u # t => pc'[u] = pc[u] /\ then'[u] = then[u]
         /\ pc' \in [Threads -> Pcs] /\ then' \in [Threads -> Pcs] /\ asleep' \subseteq Threads
         /\ UNCHANGED <<m_post_fn, pipe, loop, reply, aborted>>
<1>1. refs' = refs \ {r} /\ UNCHANGED <<m_post_fn, pipe, loop, reply, aborted>>
  BY Zenon DEF Reset
<1>2. CASE r \in refs /\ refs' = {}
  <2>1. /\ asleep' = {} /\ pc' = [pc EXCEPT ![t] = "wake"] /\ then' = [then EXCEPT ![t] = next]
    BY <1>2, Zenon DEF Reset
  <2>2. m_post_fn = Null
    <3>1. SUFFICES ASSUME m_post_fn # Null PROVE FALSE
      BY Zenon
    <3>2. m_post_fn \in Threads /\ post(m_post_fn) \in refs
      BY <3>1, Zenon DEF IInv, TypeOK, SlotInv, Posted, RefsInv, RefsOf
    <3>. QED  BY <3>1, <3>2, <1>1, <1>2
  <2>3. pipe = 0 /\ loop = "read" /\ \A u \in Threads : pc[u] # "wake"
    BY <1>2, <2>2, Zenon DEF IInv, SlotInv, Resting
  <2>4. pc'[t] = "wake" /\ then'[t] = next /\ \A u \in Threads : u # t => pc'[u] = pc[u] /\ then'[u] = then[u]
    BY <2>1, Zenon DEF IInv, TypeOK
  <2>5. Ending'
    BY <2>3, <2>4, <1>1, Zenon DEF Ending
  <2>6. \A u \in Threads : pc'[u] = "write" => m_post_fn' = u
    BY <2>4, <1>1, Zenon DEF IInv, SlotInv
  <2>7. SlotInv'
    BY <1>1, <1>2, <2>2, <2>3, <2>5, <2>6, Zenon DEF SlotInv, Posted, Resting
  <2>. QED  BY <1>1, <1>2, <2>1, <2>4, <2>7 DEF IInv, TypeOK, Pcs
<1>3. CASE ~(r \in refs /\ refs' = {})
  <2>1. pc' = [pc EXCEPT ![t] = next] /\ UNCHANGED <<asleep, then>>
    BY <1>3, Zenon DEF Reset
  <2>2. pc'[t] = next /\ \A u \in Threads : u # t => pc'[u] = pc[u] /\ then'[u] = then[u]
    BY <2>1, Zenon DEF IInv, TypeOK
  <2>3. refs = {} <=> refs' = {}
    BY <1>1, <1>3, Zenon
  <2>4. \A u \in Threads : pc'[u] = "wake" <=> pc[u] = "wake"
    BY <2>2, Zenon
  <2>5. Posted'
    BY <1>1, <2>2, <2>4, Zenon DEF IInv, TypeOK, SlotInv, Posted
  <2>6. Resting' /\ Ending'
    BY <1>1, <2>3, <2>4, Zenon DEF IInv, SlotInv, Resting, Ending
  <2>7. \A u \in Threads : pc'[u] = "write" => m_post_fn' = u
    BY <2>2, <1>1, Zenon DEF IInv, SlotInv
  <2>8. SlotInv'
    BY <1>1, <2>5, <2>6, <2>7, Zenon DEF SlotInv
  <2>. QED  BY <1>1, <2>1, <2>2, <2>8 DEF IInv, TypeOK, Pcs
<1>. QED  BY <1>2, <1>3

-----------------------------------------------------------------------------
(* The steps of a thread inside post(), clientInvoke() and the destructors. *)

\* A thread that waits for the slot takes it, or waits again.
LEMMA WaitForSlotPreserves == ASSUME IInv, NEW t \in Threads, WaitForSlot(t) PROVE IInv'
<1>1. /\ pc[t] = "slot" /\ UNCHANGED <<refs, pipe, loop, then, work, reply, aborted>>
      /\ m_post_fn' = (IF m_post_fn = Null THEN t ELSE m_post_fn)
      /\ pc' = [pc EXCEPT ![t] = IF m_post_fn = Null THEN "write" ELSE "slot"]
      /\ asleep' \subseteq asleep \cup {t}
  BY Zenon DEF WaitForSlot, TakeSlot
<1>2. TypeOK'
  BY <1>1, Zenon DEF IInv, TypeOK, Pcs
<1>3. /\ pc'[t] = IF m_post_fn = Null THEN "write" ELSE "slot"
      /\ \A u \in Threads : u # t => pc'[u] = pc[u] /\ (m_post_fn' = u <=> m_post_fn = u)
  BY <1>1, EventLoopAssumption, Zenon DEF IInv, TypeOK
<1>4. WorkInv'
  BY <1>1, <1>3 DEF IInv, WorkInv, WorkOf, Exclusive
<1>5. RefsInv'
  BY <1>1, <1>3 DEF IInv, RefsInv, RefsOf
<1>6. SlotInv'
  <2>1. refs # {} /\ loop # "none"
    BY <1>1, Zenon DEF IInv, RefsInv, RefsOf, SlotInv
  <2>2. \A u \in Threads : pc[u] # "wake"
    BY <2>1, Zenon DEF IInv, SlotInv, Posted, Resting
  <2>3. \A u \in Threads : pc'[u] # "wake" /\ (pc'[u] = "write" => m_post_fn' = u)
    BY <1>1, <1>3, <2>2 DEF IInv, SlotInv
  <2>4. Posted'
    BY <1>1, <1>3, <2>1, <2>3, Zenon DEF IInv, TypeOK, SlotInv, Posted, Resting
  <2>. QED  BY <1>1, <2>1, <2>3, <2>4, EventLoopAssumption DEF IInv, TypeOK, SlotInv, Resting, Ending
<1>. QED  BY <1>2, <1>4, <1>5, <1>6 DEF IInv

\* The byte of post() is written.
LEMMA WritePostPreserves == ASSUME IInv, NEW t \in Threads, WritePost(t) PROVE IInv'
<1>1. /\ pc[t] = "write" /\ pipe' = pipe + 1 /\ pc' = [pc EXCEPT ![t] = "check"]
      /\ UNCHANGED <<m_post_fn, refs, loop, asleep, then, work, reply, aborted>>
  BY Zenon DEF WritePost
<1>2. TypeOK'
  BY <1>1 DEF IInv, TypeOK, Pcs
<1>3. pc'[t] = "check" /\ \A u \in Threads : u # t => pc'[u] = pc[u]
  BY <1>1, Zenon DEF IInv, TypeOK
<1>4. m_post_fn = t /\ t # Null /\ pipe = 0 /\ loop = "read" /\ \A u \in Threads : pc[u] # "wake"
  BY <1>1, EventLoopAssumption, Zenon DEF IInv, SlotInv, Posted
<1>5. WorkInv'
  BY <1>1, <1>3 DEF IInv, WorkInv, WorkOf, Exclusive
<1>6. RefsInv'
  BY <1>1, <1>3, <1>4, ZenonT(30) DEF IInv, RefsInv, RefsOf
<1>7. SlotInv'
  BY <1>1, <1>3, <1>4 DEF IInv, SlotInv, Posted, Resting, Ending
<1>. QED  BY <1>2, <1>5, <1>6, <1>7 DEF IInv

\* post() waits until its function is run, and returns.
LEMMA WaitForRunPreserves == ASSUME IInv, NEW t \in Threads, WaitForRun(t) PROVE IInv'
<1>1. CASE m_post_fn = t
  <2>1. asleep' = asleep \cup {t} /\ UNCHANGED <<m_post_fn, refs, pipe, loop, pc, then, work, reply, aborted>>
    BY <1>1, Zenon DEF WaitForRun
  <2>. QED  BY <2>1 DEF IInv, TypeOK, WorkInv, WorkOf, Exclusive, RefsInv, RefsOf,
                        SlotInv, Posted, Resting, Ending
<1>2. CASE m_post_fn # t
  <2> DEFINE next == After(work[t])
  <2>1. pc[t] = "check" /\ Reset(t, post(t), next) /\ work' = work
    BY <1>2, Zenon DEF WaitForRun
  <2>2. /\ work[t].op \in {"connect", "call", "destroy", "cleanup", "exit"}
        /\ next = CASE work[t].op \in {"call", "destroy"} -> "reply"
                    [] work[t].op = "connect" -> "construct"
                    [] OTHER -> "unref"
    BY <2>1, Zenon DEF IInv, TypeOK, Work, WorkInv, WorkOf, After
  <2>3. /\ work[t].op \in {"call", "destroy"} => next = "reply"
        /\ work[t].op = "connect" => next = "construct"
        /\ work[t].op \in {"cleanup", "exit"} => next = "unref"
    BY <2>2, Zenon
  <2> HIDE DEF next
  <2>4. next \in {"idle", "construct", "reply", "unref"} /\ loop # "none"
    BY <2>1, <2>2, <2>3, Zenon DEF IInv, SlotInv
  <2>5. m_post_fn # Null => post(t) # post(m_post_fn)
    BY <1>2, RefsDistinct, Zenon
  <2>6. /\ SlotInv'
        /\ refs' = refs \ {post(t)} /\ (pc'[t] = next \/ (pc'[t] = "wake" /\ then'[t] = next /\ refs' = {}))
        /\ \A u \in Threads : u # t => pc'[u] = pc[u] /\ then'[u] = then[u]
        /\ pc' \in [Threads -> Pcs] /\ then' \in [Threads -> Pcs] /\ asleep' \subseteq Threads
        /\ UNCHANGED <<m_post_fn, pipe, loop, reply, aborted>>
    BY <2>1, <2>4, <2>5, <1>2, ResetPreserves, Zenon
  <2>7. TypeOK'
    BY <2>1, <2>6, Zenon DEF IInv, TypeOK
  <2>8. RefsInv'
    <3>1. /\ \A x : proxy(x) \in refs' <=> proxy(x) \in refs
          /\ connection \in refs' <=> connection \in refs
          /\ \A u \in Threads : u # t => (post(u) \in refs' <=> post(u) \in refs)
          /\ post(t) \notin refs'
      BY <2>6, RefsDistinct, ZenonT(30)
    <3>2. ASSUME NEW u \in Threads, u # t PROVE RefsOf(u)'
      BY <3>1, <3>2, <2>1, <2>6, Zenon DEF IInv, RefsInv, RefsOf
    <3>3. RefsOf(t)'
      BY <3>1, <1>2, <2>1, <2>3, <2>4, <2>6, Zenon DEF IInv, RefsInv, RefsOf
    <3>. QED  BY <3>2, <3>3 DEF RefsInv
  <2>9. WorkInv'
    <3>1. ASSUME pc'[t] = "wake" PROVE work[t].op = "exit" /\ then'[t] = "unref"
      <4>1. refs' = {} /\ then'[t] = next
        BY <3>1, <2>4, <2>6, Zenon
      <4>2. proxy(work[t].proxy) \notin refs /\ connection \notin refs
        BY <4>1, <2>6, RefsDistinct, Zenon
      <4>. QED  BY <4>1, <4>2, <2>1, <2>2, <2>3, <1>2 DEF IInv, RefsInv, RefsOf
    <3>2. ASSUME NEW u \in Threads, u # t PROVE WorkOf(u)'
      BY <3>2, <2>1, <2>6, ZenonT(30) DEF IInv, WorkInv, WorkOf
    <3>3. WorkOf(t)'
      BY <3>1, <2>1, <2>2, <2>3, <2>4, <2>6, Zenon DEF IInv, WorkInv, WorkOf
    <3>4. Exclusive'
      BY <2>1, Zenon DEF IInv, WorkInv, Exclusive
    <3>. QED  BY <3>2, <3>3, <3>4 DEF WorkInv
  <2>. QED  BY <2>6, <2>7, <2>8, <2>9 DEF IInv
<1>. QED  BY <1>1, <1>2

\* The byte for the last reference is written.
LEMMA WriteWakePreserves == ASSUME IInv, NEW t \in Threads, WriteWake(t) PROVE IInv'
<1>1. /\ pc[t] = "wake" /\ pipe' = pipe + 1 /\ pc' = [pc EXCEPT ![t] = then[t]]
      /\ then' = [then EXCEPT ![t] = "idle"]
      /\ UNCHANGED <<m_post_fn, refs, loop, asleep, work, reply, aborted>>
  BY Zenon DEF WriteWake
<1>2. TypeOK'
  BY <1>1 DEF IInv, TypeOK, Pcs
<1>3. /\ pc'[t] = then[t] /\ \A u \in Threads : u # t => pc'[u] = pc[u] /\ then'[u] = then[u]
      /\ \/ work[t].op = "none" /\ then[t] = "idle"
         \/ work[t].op = "exit" /\ then[t] = "unref"
  BY <1>1, Zenon DEF IInv, TypeOK, WorkInv, WorkOf
<1>4. m_post_fn = Null /\ refs = {} /\ pipe = 0 /\ loop = "read" /\ \A u \in Threads : pc[u] = "wake" => u = t
  BY <1>1, Zenon DEF IInv, SlotInv, Posted, Resting, Ending
<1>5. WorkInv'
  BY <1>1, <1>3 DEF IInv, WorkInv, WorkOf, Exclusive
<1>6. RefsInv'
  BY <1>1, <1>3, ZenonT(30) DEF IInv, RefsInv, RefsOf
<1>7. SlotInv'
  BY <1>1, <1>3, <1>4 DEF IInv, SlotInv, Posted, Resting, Ending
<1>. QED  BY <1>2, <1>5, <1>6, <1>7 DEF IInv

\* ConnectStream ends, while the connection it made still holds its reference.
LEMMA ConstructPreserves == ASSUME IInv, NEW t \in Threads, Construct(t) PROVE IInv'
<1>1. /\ pc[t] = "construct" /\ refs' = refs \cup {proxy(InitProxy)}
      /\ pc' = [pc EXCEPT ![t] = "idle"] /\ work' = [work EXCEPT ![t] = NoWork]
      /\ UNCHANGED <<m_post_fn, pipe, loop, asleep, then, reply, aborted>>
  BY Zenon DEF Construct
<1>2. TypeOK'
  <2>1. NoWork \in Work
    BY Zenon DEF NoWork, Work
  <2>2. refs' \subseteq Refs
    BY <1>1, RefsTyped, EventLoopAssumption, Zenon DEF IInv, TypeOK
  <2>. QED  BY <1>1, <2>1, <2>2 DEF IInv, TypeOK, Pcs
<1>3. /\ pc'[t] = "idle" /\ work'[t].op = "none" /\ work'[t].proxy = Null /\ work'[t].result = Null
      /\ \A u \in Threads : u # t => pc'[u] = pc[u] /\ work'[u] = work[u]
  BY <1>1, Zenon DEF IInv, TypeOK, NoWork
<1>4. /\ work[t].op = "connect" /\ work[t].proxy = InitProxy /\ connection \in refs
      /\ Null # InitProxy /\ reply[t] # "sent"
  BY <1>1, EventLoopAssumption, Zenon DEF IInv, WorkInv, WorkOf, RefsInv, RefsOf
<1>5. WorkInv'
  BY <1>1, <1>3, <1>4 DEF IInv, WorkInv, WorkOf, Exclusive
<1>6. RefsInv'
  <2>1. \A u \in Threads : u # t => work[u].op # "connect"
    BY <1>4, Zenon DEF IInv, WorkInv, WorkOf, Exclusive
  <2>2. \A u \in Threads : post(u) \in refs' <=> post(u) \in refs
    BY <1>1, RefsDistinct, Zenon
  <2>. QED  BY <1>1, <1>3, <2>1, <2>2 DEF IInv, RefsInv, RefsOf
<1>7. SlotInv'
  <2>1. \A u \in Threads : pc'[u] \in {"wake", "write"} => pc'[u] = pc[u]
    BY <1>3, Zenon
  <2>2. m_post_fn # t /\ refs # {} /\ refs' # {}
    BY <1>1, <1>4, EventLoopAssumption, Zenon DEF IInv, SlotInv, Posted
  <2>3. Posted'
    BY <1>1, <1>3, <2>1, <2>2, Zenon DEF IInv, TypeOK, SlotInv, Posted
  <2>. QED  BY <1>1, <1>3, <2>1, <2>2, <2>3 DEF IInv, SlotInv, Resting, Ending
<1>. QED  BY <1>2, <1>5, <1>6, <1>7 DEF IInv

\* clientInvoke returns, or the destructor that called it goes on.
LEMMA ReturnPreserves == ASSUME IInv, NEW t \in Threads, Return(t) PROVE IInv'
<1>1. /\ pc[t] = "reply" /\ reply[t] # "sent"
      /\ proxy(work[t].proxy) \in refs /\ work[t].proxy \in Proxies
      /\ m_post_fn # t /\ loop # "none"
  BY EventLoopAssumption DEF Return, IInv, TypeOK, Work, WorkInv, WorkOf, RefsInv, RefsOf, SlotInv, Posted
<1>2. CASE /\ work[t].op = "call"
           /\ pc' = [pc EXCEPT ![t] = "idle"] /\ work' = [work EXCEPT ![t] = NoWork]
           /\ UNCHANGED <<m_post_fn, refs, pipe, loop, asleep, then, reply, aborted>>
  <2>1. NoWork \in Work
    BY Zenon DEF NoWork, Work
  <2>2. TypeOK'
    BY <1>2, <2>1, Zenon DEF IInv, TypeOK, Pcs
  <2>3. /\ pc'[t] = "idle" /\ work'[t].op = "none" /\ work'[t].proxy = Null /\ work'[t].result = Null
        /\ \A u \in Threads : u # t => pc'[u] = pc[u] /\ work'[u] = work[u]
    BY <1>2, Zenon DEF IInv, TypeOK, NoWork
  <2>4. WorkInv'
    BY <1>1, <1>2, <2>3, EventLoopAssumption DEF IInv, WorkInv, WorkOf, Exclusive
  <2>5. RefsInv'
    BY <1>1, <1>2, <2>3 DEF IInv, RefsInv, RefsOf
  <2>6. Posted'
    BY <1>1, <1>2, <2>3, Zenon DEF IInv, TypeOK, SlotInv, Posted
  <2>7. SlotInv'
    BY <1>1, <1>2, <2>3, <2>6, ZenonT(30) DEF IInv, SlotInv, Resting, Ending
  <2>. QED  BY <2>2, <2>4, <2>5, <2>7 DEF IInv
<1>3. CASE work[t].op = "destroy" /\ DoPost(t, "cleanup", work[t].proxy, Null)
  <2>1. \A u \in Threads : u # t => work[u].proxy # work[t].proxy
    BY <1>1, <1>3, EventLoopAssumption, Zenon DEF IInv, WorkInv, Exclusive
  <2>. QED  BY <1>1, <1>3, <2>1, PostPreserves, EventLoopAssumption
<1>4. CASE aborted' = TRUE /\ UNCHANGED <<m_post_fn, refs, pipe, loop, asleep, pc, then, work, reply>>
  BY <1>4 DEF IInv, TypeOK, WorkInv, WorkOf, Exclusive, RefsInv, RefsOf, SlotInv, Posted, Resting, Ending
<1>. QED  BY <1>2, <1>3, <1>4 DEF Return

\* A destructor gives up the reference of its object.
LEMMA UnrefPreserves == ASSUME IInv, NEW t \in Threads, Unref(t) PROVE IInv'
<1> DEFINE r == IF work[t].op = "exit" THEN conn_threads(t) ELSE proxy(work[t].proxy)
<1>1. pc[t] = "unref" /\ Reset(t, r, "idle") /\ work' = [work EXCEPT ![t] = NoWork]
  BY Zenon DEF Unref
<1>2. /\ work[t].op \in {"cleanup", "exit"} /\ reply[t] # "sent" /\ loop # "none"
      /\ m_post_fn # t /\ (work[t].op # "exit" => work[t].proxy # Null)
  BY <1>1, EventLoopAssumption, Zenon DEF IInv, TypeOK, WorkInv, WorkOf, SlotInv, Posted
<1>3. /\ r # connection /\ \A x : r # post(x)
      /\ \A x : r = proxy(x) => work[t].op = "cleanup" /\ x = work[t].proxy
  BY <1>2, RefsDistinct, Zenon
<1> HIDE DEF r
<1>4. /\ SlotInv'
      /\ refs' = refs \ {r} /\ (pc'[t] = "idle" \/ (pc'[t] = "wake" /\ then'[t] = "idle" /\ refs' = {}))
      /\ \A u \in Threads : u # t => pc'[u] = pc[u] /\ then'[u] = then[u]
      /\ pc' \in [Threads -> Pcs] /\ then' \in [Threads -> Pcs] /\ asleep' \subseteq Threads
      /\ UNCHANGED <<m_post_fn, pipe, loop, reply, aborted>>
  BY <1>1, <1>2, <1>3, ResetPreserves, Zenon
<1>5. TypeOK'
  <2>1. NoWork \in Work
    BY Zenon DEF NoWork, Work
  <2>. QED  BY <1>1, <1>4, <2>1 DEF IInv, TypeOK
<1>6. /\ work'[t].op = "none" /\ work'[t].proxy = Null /\ work'[t].result = Null
      /\ \A u \in Threads : u # t => work'[u] = work[u]
  BY <1>1, Zenon DEF IInv, TypeOK, NoWork
<1>7. WorkInv'
  BY <1>2, <1>4, <1>6, EventLoopAssumption DEF IInv, WorkInv, WorkOf, Exclusive
<1>8. RefsInv'
  <2>1. RefsOf(t)'
    BY <1>1, <1>3, <1>4, <1>6, Zenon DEF IInv, RefsInv, RefsOf
  <2>2. ASSUME NEW u \in Threads, u # t PROVE RefsOf(u)'
    <3>1. work[u].op \in {"call", "destroy", "cleanup"} => r # proxy(work[u].proxy)
      BY <2>2, <1>2, <1>3 DEF IInv, WorkInv, WorkOf, Exclusive
    <3>. QED  BY <2>2, <3>1, <1>3, <1>4, <1>6 DEF IInv, RefsInv, RefsOf
  <2>. QED  BY <2>1, <2>2 DEF RefsInv
<1>. QED  BY <1>4, <1>5, <1>7, <1>8 DEF IInv

-----------------------------------------------------------------------------
(* The steps of the loop's thread and of the node.                          *)

\* A byte is read, and what it was for is found: a function, or the end.
LEMMA LoopWakesPreserves == ASSUME IInv, LoopRead \/ LoopWoken PROVE IInv'
<1>1. UNCHANGED <<m_post_fn, refs, asleep, pc, then, work, reply, aborted>>
  BY Zenon DEF LoopRead, LoopWoken
<1>2. CASE LoopRead
  <2>1. loop = "read" /\ pipe = 1 /\ loop' = "woken" /\ pipe' = 0 /\ \A t \in Threads : pc[t] # "wake"
    BY <1>2 DEF LoopRead, IInv, TypeOK, SlotInv, Posted, Resting, Ending
  <2>2. TypeOK' /\ WorkInv' /\ RefsInv'
    BY <1>1, <2>1 DEF IInv, TypeOK, LoopStates, WorkInv, WorkOf, Exclusive, RefsInv, RefsOf
  <2>3. SlotInv'
    BY <1>1, <2>1 DEF IInv, SlotInv, Posted, Resting, Ending
  <2>. QED  BY <2>2, <2>3 DEF IInv
<1>3. CASE LoopWoken
  <2>1. /\ loop = "woken" /\ pipe' = pipe
        /\ m_post_fn # Null => loop' = "run"
        /\ m_post_fn = Null => refs = {} /\ loop' = "closing"
    BY <1>3, Zenon DEF LoopWoken, IInv, SlotInv, Resting
  <2>2. TypeOK' /\ WorkInv' /\ RefsInv'
    BY <1>1, <2>1 DEF IInv, TypeOK, LoopStates, WorkInv, WorkOf, Exclusive, RefsInv, RefsOf
  <2>3. SlotInv'
    BY <1>1, <2>1, Zenon DEF IInv, SlotInv, Posted, Resting, Ending
  <2>. QED  BY <2>2, <2>3 DEF IInv
<1>. QED  BY <1>2, <1>3

\* ~Connection leaves the references of the objects and of post() alone.
LEMMA DeleteConnectionRefs ==
  ASSUME IInv, DeleteConnection
  PROVE  /\ refs' \subseteq Refs
         /\ \A x : (proxy(x) \in refs' <=> proxy(x) \in refs) /\ (post(x) \in refs' <=> post(x) \in refs)
         /\ reply' \in [Threads -> {"none", "sent", "ok", "raised"}]
         /\ \A t \in Threads : reply'[t] # "sent"
<1>1. refs' = refs \ ({connection} \cup ConnThreads)
  BY Zenon DEF DeleteConnection
<1>2. \A x : proxy(x) \notin ConnThreads /\ post(x) \notin ConnThreads
  BY RefsDistinct, Zenon DEF ConnThreads
<1>3. reply' = [t \in Threads |-> IF reply[t] = "sent" THEN "raised" ELSE reply[t]]
  BY Zenon DEF DeleteConnection
<1>. QED  BY <1>1, <1>2, <1>3, RefsDistinct DEF IInv, TypeOK

\* The posted function is run, whichever it is.
LEMMA LoopRunPreserves == ASSUME IInv, LoopRun PROVE IInv'
<1>1. /\ loop = "run" /\ loop' = "ran"
      /\ UNCHANGED <<m_post_fn, pipe, asleep, pc, then, work, aborted>>
  BY Zenon DEF LoopRun
<1>2. PICK t \in Threads : t = m_post_fn /\ RunFn(t)
  BY Zenon DEF LoopRun
<1>3. t # Null /\ pc[t] = "check" /\ post(t) \in refs
  BY <1>1, <1>2, EventLoopAssumption, Zenon DEF IInv, SlotInv, Posted, RefsInv, RefsOf
<1>4. /\ refs' \subseteq Refs
      /\ \A x : (proxy(x) \in refs' <=> proxy(x) \in refs) /\ (post(x) \in refs' <=> post(x) \in refs)
      /\ reply' \in [Threads -> {"none", "sent", "ok", "raised"}]
      /\ \A u \in Threads : reply'[u] = "sent" => reply[u] = "sent" \/ work[u].op \in {"call", "destroy"}
      /\ work[t].op = "connect" => connection \in refs'
      /\ (connection \in refs => connection \in refs') \/ \A u \in Threads : work[u].op # "connect"
  <2>1. CASE work[t].op = "connect" /\ refs' = refs \cup {connection} /\ UNCHANGED reply
    BY <2>1, RefsTyped, RefsDistinct, Zenon DEF IInv, TypeOK
  <2>2. CASE /\ work[t].op \in {"call", "destroy"}
             /\ refs' = refs \cup {conn_threads(t)} /\ reply' = [reply EXCEPT ![t] = "sent"]
    BY <2>2, RefsTyped, RefsDistinct, ZenonT(30) DEF IInv, TypeOK
  <2>3. CASE work[t].op \in {"call", "destroy"} /\ reply' = [reply EXCEPT ![t] = "raised"] /\ UNCHANGED refs
    BY <2>3, Zenon DEF IInv, TypeOK
  <2>4. CASE work[t].op = "cleanup" /\ work[t].proxy = InitProxy /\ DeleteConnection
    <3>1. \A u \in Threads : work[u].op # "connect"
      BY <2>4, Zenon DEF IInv, RefsInv, RefsOf
    <3>. QED  BY <2>4, <3>1, DeleteConnectionRefs
  <2>5. CASE work[t].op \in {"cleanup", "exit"} /\ UNCHANGED <<refs, reply>>
    BY <2>5, Zenon DEF IInv, TypeOK
  <2>. QED  BY <1>2, <2>1, <2>2, <2>3, <2>4, <2>5 DEF RunFn
<1>5. TypeOK'
  BY <1>1, <1>4, Zenon DEF IInv, TypeOK, LoopStates
<1>6. WorkInv'
  BY <1>1, <1>4 DEF IInv, WorkInv, WorkOf, Exclusive
<1>7. RefsInv'
  <2>1. ASSUME NEW u \in Threads PROVE RefsOf(u)'
    <3>1. CASE u = t
      BY <3>1, <1>1, <1>3, <1>4, Zenon DEF IInv, RefsInv, RefsOf
    <3>2. CASE u # t
      BY <3>2, <1>1, <1>2, <1>4, Zenon DEF IInv, RefsInv, RefsOf
    <3>. QED  BY <3>1, <3>2
  <2>. QED  BY <2>1 DEF RefsInv
<1>8. SlotInv'
  BY <1>1, <1>2, <1>3, <1>4, Zenon DEF IInv, SlotInv, Posted, Resting, Ending
<1>. QED  BY <1>5, <1>6, <1>7, <1>8 DEF IInv

\* The slot is free again; the post() that used it holds its reference until it sees that.
LEMMA LoopRanPreserves == ASSUME IInv, LoopRan PROVE IInv'
<1>1. /\ loop = "ran" /\ loop' = "read" /\ m_post_fn' = Null /\ asleep' = {}
      /\ UNCHANGED <<refs, pipe, pc, then, work, reply, aborted>>
  BY Zenon DEF LoopRan
<1>2. /\ m_post_fn \in Threads /\ pc[m_post_fn] = "check" /\ pipe = 0 /\ post(m_post_fn) \in refs
      /\ \A t \in Threads : pc[t] # "wake" /\ pc[t] # "write"
  BY <1>1, Zenon DEF IInv, TypeOK, SlotInv, Posted, Resting, Ending, RefsInv, RefsOf
<1>3. TypeOK' /\ WorkInv'
  BY <1>1 DEF IInv, TypeOK, LoopStates, WorkInv, WorkOf, Exclusive
<1>4. RefsInv'
  BY <1>1, <1>2, EventLoopAssumption, Zenon DEF IInv, RefsInv, RefsOf
<1>5. SlotInv'
  BY <1>1, <1>2, Zenon DEF IInv, SlotInv, Posted, Resting, Ending
<1>. QED  BY <1>3, <1>4, <1>5 DEF IInv

\* The loop is left and destroyed.
LEMMA LoopEndsPreserves == ASSUME IInv, LoopClose \/ LoopEnd PROVE IInv'
<1>1. /\ loop \in {"closing", "closed"} /\ loop' \in {"closed", "gone"} /\ asleep' \subseteq asleep
      /\ UNCHANGED <<m_post_fn, refs, pipe, pc, then, work, reply, aborted>>
  BY Zenon DEF LoopClose, LoopEnd
<1>2. TypeOK' /\ WorkInv' /\ RefsInv'
  BY <1>1 DEF IInv, TypeOK, LoopStates, WorkInv, WorkOf, Exclusive, RefsInv, RefsOf
<1>3. SlotInv'
  BY <1>1, Zenon DEF IInv, SlotInv, Posted, Resting, Ending
<1>. QED  BY <1>2, <1>3 DEF IInv

\* An answer, with or without an object, reaches a thread that is in a call.
LEMMA ReplyPreserves == ASSUME IInv, NEW t \in Threads, Reply(t) PROVE IInv'
<1>1. /\ loop = "read" /\ reply[t] = "sent"
      /\ UNCHANGED <<m_post_fn, pipe, loop, asleep, pc, then, work, aborted>>
      /\ \E a \in {"ok", "raised"} : reply' = [reply EXCEPT ![t] = a]
      /\ refs' \in {refs, refs \cup {proxy(q) : q \in {work[t].result} \ {Null}}}
  BY Zenon DEF Reply
<1>2. /\ proxy(work[t].proxy) \in refs
      /\ work[t].result \in (Proxies \cup {Null}) \ {InitProxy}
  BY <1>1, Zenon DEF IInv, TypeOK, Work, WorkInv, WorkOf, RefsInv, RefsOf
<1>3. /\ refs' \subseteq Refs /\ refs \subseteq refs'
      /\ (proxy(InitProxy) \in refs' <=> proxy(InitProxy) \in refs)
      /\ \A x : post(x) \in refs' <=> post(x) \in refs
  BY <1>1, <1>2, RefsTyped, RefsDistinct DEF IInv, TypeOK
<1>4. reply' \in [Threads -> {"none", "sent", "ok", "raised"}]
      /\ \A u \in Threads : reply'[u] = "sent" => reply[u] = "sent"
  BY <1>1, Zenon DEF IInv, TypeOK
<1>5. TypeOK' /\ WorkInv'
  BY <1>1, <1>3, <1>4 DEF IInv, TypeOK, WorkInv, WorkOf, Exclusive
<1>6. RefsInv'
  BY <1>1, <1>3, Zenon DEF IInv, RefsInv, RefsOf
<1>7. SlotInv'
  BY <1>1, <1>2, <1>3, Zenon DEF IInv, SlotInv, Posted, Resting, Ending
<1>. QED  BY <1>5, <1>6, <1>7 DEF IInv

\* The node goes away while the object that owns the connection exists.
LEMMA DisconnectPreserves == ASSUME IInv, Disconnect PROVE IInv'
<1>1. /\ loop = "read" /\ proxy(InitProxy) \in refs /\ DeleteConnection
      /\ UNCHANGED <<m_post_fn, pipe, loop, asleep, pc, then, work, aborted>>
  BY Zenon DEF Disconnect
<1>2. /\ refs' \subseteq Refs
      /\ \A x : (proxy(x) \in refs' <=> proxy(x) \in refs) /\ (post(x) \in refs' <=> post(x) \in refs)
      /\ reply' \in [Threads -> {"none", "sent", "ok", "raised"}]
      /\ \A t \in Threads : reply'[t] # "sent"
  BY <1>1, DeleteConnectionRefs, Zenon
<1>3. TypeOK' /\ WorkInv'
  BY <1>1, <1>2 DEF IInv, TypeOK, WorkInv, WorkOf, Exclusive
<1>4. RefsInv'
  BY <1>1, <1>2, Zenon DEF IInv, RefsInv, RefsOf
<1>5. SlotInv'
  BY <1>1, <1>2, Zenon DEF IInv, SlotInv, Posted, Resting, Ending
<1>. QED  BY <1>3, <1>4, <1>5 DEF IInv

-----------------------------------------------------------------------------
(* What the threads begin, and the theorem.                                 *)

\* What a thread begins, as a user of the library may, preserves the invariant.
LEMMA BeginPreserves == ASSUME IInv, NEW t \in Threads, Begin(t) PROVE IInv'
<1>1. pc[t] = "idle" /\ work[t].op = "none" /\ work[t].proxy = Null
  BY Zenon DEF Begin, StartLoop, Connect, Call, Destroy, Exit, Terminate, DropLoop, Idle, IInv, WorkInv, WorkOf
<1>2. Null # InitProxy /\ Null \notin Proxies /\ InitProxy \in Proxies
  BY EventLoopAssumption, Zenon
<1>3. CASE StartLoop(t)
  <2>1. /\ loop = "none" /\ loop' = "read" /\ refs' = {m_loop_ref}
        /\ UNCHANGED <<m_post_fn, pipe, asleep, pc, then, work, reply, aborted>>
    BY <1>3, Zenon DEF StartLoop
  <2>2. refs = {} /\ m_post_fn = Null /\ pipe = 0 /\ \A u \in Threads : pc[u] = "idle" /\ work[u].op = "none"
    BY <2>1, Zenon DEF IInv, SlotInv, Ending, WorkInv, WorkOf
  <2>3. TypeOK' /\ WorkInv'
    BY <2>1, RefsTyped DEF IInv, TypeOK, LoopStates, WorkInv, WorkOf, Exclusive
  <2>4. RefsInv'
    BY <2>1, <2>2, RefsDistinct, Zenon DEF IInv, RefsInv, RefsOf
  <2>5. SlotInv'
    BY <2>1, <2>2, Zenon DEF IInv, SlotInv, Posted, Resting, Ending
  <2>. QED  BY <2>3, <2>4, <2>5 DEF IInv
<1>4. CASE /\ m_loop_ref \in refs /\ proxy(InitProxy) \notin refs
           /\ (\A u \in Threads : ~Uses(u, InitProxy)) /\ Connect(t)
  <2>1. DoPost(t, "connect", InitProxy, Null) /\ \A u \in Threads : u # t => work[u].proxy # InitProxy
    BY <1>2, <1>4, Zenon DEF Connect, Uses, IInv, WorkInv, WorkOf
  <2>. QED  BY <1>1, <1>2, <1>4, <2>1, PostPreserves
<1>5. ASSUME NEW p \in Proxies, NEW q \in Proxies \cup {Null}, Exists(p), q # InitProxy, Call(t, p, q)
      PROVE  IInv'
  <2>1. proxy(p) \in refs /\ DoPost(t, "call", p, q)
    BY <1>5, Zenon DEF Exists, Call
  <2>2. \A u \in Threads : work[u].proxy = p => work[u].op = "call"
    BY <1>2, <1>5, Zenon DEF Exists, Uses, IInv, WorkInv, WorkOf
  <2>. QED  BY <1>1, <1>2, <1>5, <2>1, <2>2, PostPreserves
<1>6. ASSUME NEW p \in Proxies, Exists(p), \A u \in Threads : ~Uses(u, p), Destroy(t, p)
      PROVE  IInv'
  <2>1. proxy(p) \in refs /\ \A u \in Threads : work[u].proxy # p
    BY <1>2, <1>6, ZenonT(30) DEF Exists, Uses, IInv, WorkInv, WorkOf
  <2>2. PICK op \in {"destroy", "cleanup"} : DoPost(t, op, p, Null)
    BY <1>6, Zenon DEF Destroy
  <2>. QED  BY <1>1, <1>2, <2>1, <2>2, PostPreserves
<1>7. CASE Exit(t)
  <2>1. refs # {} /\ DoPost(t, "exit", Null, Null)
    BY <1>7, Zenon DEF Exit
  <2>. QED  BY <1>1, <1>2, <2>1, PostPreserves
<1>8. CASE Terminate(t)
  BY <1>8 DEF Terminate, IInv, TypeOK, WorkInv, WorkOf, Exclusive, RefsInv, RefsOf,
              SlotInv, Posted, Resting, Ending
<1>9. CASE m_loop_ref \in refs /\ DropLoop(t)
  <2>1. Reset(t, m_loop_ref, "idle") /\ work' = work /\ loop # "none" /\ m_post_fn # t
    BY <1>1, <1>9, EventLoopAssumption, Zenon DEF DropLoop, IInv, SlotInv, Posted
  <2>2. /\ SlotInv'
        /\ refs' = refs \ {m_loop_ref} /\ (pc'[t] = "idle" \/ (pc'[t] = "wake" /\ then'[t] = "idle" /\ refs' = {}))
        /\ \A u \in Threads : u # t => pc'[u] = pc[u] /\ then'[u] = then[u]
        /\ pc' \in [Threads -> Pcs] /\ then' \in [Threads -> Pcs] /\ asleep' \subseteq Threads
        /\ UNCHANGED <<m_post_fn, pipe, loop, reply, aborted>>
    BY <1>1, <2>1, ResetPreserves, RefsDistinct, Zenon
  <2>3. TypeOK'
    BY <2>1, <2>2, Zenon DEF IInv, TypeOK
  <2>4. WorkInv'
    BY <1>1, <2>1, <2>2 DEF IInv, WorkInv, WorkOf, Exclusive
  <2>5. RefsInv'
    BY <1>1, <2>1, <2>2, RefsDistinct DEF IInv, RefsInv, RefsOf
  <2>. QED  BY <2>2, <2>3, <2>4, <2>5 DEF IInv
<1>. QED  BY <1>3, <1>4, <1>5, <1>6, <1>7, <1>8, <1>9 DEF Begin

\* The invariant holds when a process starts.
LEMMA InitEstablishes == Init => IInv
<1> SUFFICES ASSUME Init PROVE IInv
  BY Zenon
<1>1. NoWork \in Work /\ NoWork.op = "none" /\ NoWork.proxy = Null /\ NoWork.result = Null
  BY Zenon DEF NoWork, Work
<1>2. TypeOK
  BY <1>1, Zenon DEF Init, TypeOK, Pcs, LoopStates
<1>3. \A t \in Threads : /\ pc[t] = "idle" /\ reply[t] = "none" /\ work[t].op = "none"
                         /\ work[t].proxy = Null /\ work[t].result = Null
  BY <1>1, Zenon DEF Init
<1>4. WorkInv /\ RefsInv
  BY <1>3, EventLoopAssumption DEF Init, WorkInv, WorkOf, Exclusive, RefsInv, RefsOf
<1>5. SlotInv
  BY <1>3, Zenon DEF Init, SlotInv, Posted, Resting, Ending
<1>. QED  BY <1>2, <1>4, <1>5 DEF IInv

\* Every step preserves the invariant.
LEMMA NextPreserves == IInv /\ [Next]_vars => IInv'
<1> SUFFICES ASSUME IInv, [Next]_vars PROVE IInv'
  BY ZenonT(30)
<1>1. CASE UNCHANGED vars
  BY <1>1 DEF vars, IInv, TypeOK, WorkInv, WorkOf, Exclusive, RefsInv, RefsOf, SlotInv, Posted, Resting, Ending
<1>2. CASE Restart
  <2>1. NoWork \in Work /\ NoWork.op = "none" /\ NoWork.proxy = Null /\ NoWork.result = Null
    BY Zenon DEF NoWork, Work
  <2>2. TypeOK'
    BY <1>2, <2>1, Zenon DEF Restart, TypeOK, Pcs, LoopStates
  <2>3. \A t \in Threads : /\ pc'[t] = "idle" /\ reply'[t] = "none" /\ work'[t].op = "none"
                           /\ work'[t].proxy = Null /\ work'[t].result = Null
    BY <1>2, <2>1, Zenon DEF Restart
  <2>4. WorkInv' /\ RefsInv'
    BY <1>2, <2>3, EventLoopAssumption DEF Restart, WorkInv, WorkOf, Exclusive, RefsInv, RefsOf
  <2>5. SlotInv'
    BY <1>2, <2>3, Zenon DEF Restart, SlotInv, Posted, Resting, Ending
  <2>. QED  BY <2>2, <2>4, <2>5 DEF IInv
<1>3. CASE LoopStep
  BY <1>3, LoopWakesPreserves, LoopRunPreserves, LoopRanPreserves, LoopEndsPreserves, Zenon DEF LoopStep
<1>4. CASE Disconnect
  BY <1>4, DisconnectPreserves, Zenon
<1>5. ASSUME NEW t \in Threads, ThreadStep(t) PROVE IInv'
  BY Zenon, <1>5, WaitForSlotPreserves, WritePostPreserves, WaitForRunPreserves, WriteWakePreserves,
     ConstructPreserves, ReturnPreserves, UnrefPreserves DEF ThreadStep
<1>6. ASSUME NEW t \in Threads, Reply(t) PROVE IInv'
  BY <1>6, ReplyPreserves, Zenon
<1>7. ASSUME NEW t \in Threads, Begin(t) PROVE IInv'
  BY <1>7, BeginPreserves, Zenon
<1>. QED  BY <1>1, <1>2, <1>3, <1>4, <1>5, <1>6, <1>7 DEF Next, Step

\* The invariant holds of every behaviour.
LEMMA Invariance == Spec => []IInv
BY InitEstablishes, NextPreserves, PTL DEF Spec

\* EventLoop::loop and EventLoopRef::reset, for any threads and objects: whoever writes to
\* m_post_fd, in post() or for the last reference, finds it open.
THEOREM WriteCorrect == Spec => []WriteSucceeds
<1>1. IInv => WriteSucceeds
  BY EventLoopAssumption DEF IInv, SlotInv, Posted, Resting, Ending, WriteSucceeds
<1>. QED  BY <1>1, Invariance, PTL

\* EventLoop::loop, for any threads and objects: its thread is woken up when there is a
\* function to run or the last reference is gone, once, and never for nothing.
THEOREM WakeCorrect == Spec => []WokenForCause
<1>1. ASSUME IInv, loop = "read" PROVE WokenForCause
  <2>1. CASE m_post_fn # Null
    <3>1. m_post_fn \in Threads /\ \A t \in Threads : pc[t] # "wake" /\ (pc[t] = "write" => m_post_fn = t)
      BY <1>1, <2>1, Zenon DEF IInv, TypeOK, SlotInv, Posted
    <3>2. \/ pc[m_post_fn] = "write" /\ pipe = 0
          \/ pc[m_post_fn] = "check" /\ pipe = 1
      BY <1>1, <2>1, Zenon DEF IInv, SlotInv, Posted
    <3>. QED  BY <1>1, <2>1, <3>1, <3>2 DEF WokenForCause
  <2>2. CASE m_post_fn = Null
    <3>1. \A t \in Threads : pc[t] # "write"
      BY <1>1, <2>2, EventLoopAssumption, Zenon DEF IInv, SlotInv
    <3>. QED  BY <1>1, <2>2, <3>1 DEF IInv, SlotInv, Resting, Ending, WokenForCause
  <2>. QED  BY <2>1, <2>2
<1>2. IInv => WokenForCause
  BY <1>1 DEF WokenForCause
<1>. QED  BY <1>2, Invariance, PTL

\* ~EventLoop, for any threads and objects: what it asserts holds, and no thread is left
\* in post(), in a call or before a write.
THEOREM EndCorrect == Spec => []EndsClean
<1>1. ASSUME IInv, loop \in {"closing", "closed", "gone"} PROVE EndsClean
  <2>1. m_post_fn = Null /\ refs = {} /\ pipe = 0 /\ \A t \in Threads : pc[t] # "wake"
    BY <1>1, Zenon DEF IInv, SlotInv, Posted, Resting, Ending
  <2>2. \A t \in Threads : pc[t] \notin {"slot", "write", "check", "reply", "construct"}
    BY <1>1, <2>1, Zenon DEF IInv, WorkInv, WorkOf, RefsInv, RefsOf
  <2>. QED  BY <2>1, <2>2 DEF EndsClean
<1>2. IInv => EndsClean
  BY <1>1 DEF EndsClean
<1>. QED  BY <1>2, Invariance, PTL
=============================================================================
