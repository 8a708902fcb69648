# A TLA+ model of the Stratum v2 Template Provider

`sv2-tp` stands between a Bitcoin node and mining software. It asks the node,
over IPC, for block templates, and serves them to any number of clients over
encrypted TCP connections, following the Stratum v2 Template Distribution
protocol. This directory holds TLA+ modules translated from its source, the TLC
models that check them on small instances, and TLAPS proofs of the properties
that matter most.

Source paths below are relative to the repository. The program itself is in
`src/sv2/`, `src/sv2-tp.cpp` and `src/common/sockman.*`; `src/ipc/` is the
library it talks to the node with, and the rest is imported from Bitcoin Core.

## 1. The system

| Part | Source | What it does | Here |
|---|---|---|---|
| Template provider | `src/sv2/template_provider.*` | handler thread, one thread per client, cache of templates, calls from clients | `Sv2TemplateProvider`; key files and the block saver in `Sv2Main` |
| Connection manager | `src/sv2/connman.*` | clients, message handlers, send queues | `Sv2Connman` |
| Socket manager | `src/common/sockman.*` | accepts, polls, sends, receives | `Sv2Connman` (its loop) |
| Encrypted transport | `src/sv2/transport.*` | handshake, frames, send and receive buffers | `Sv2Transport` |
| Noise protocol | `src/sv2/noise.*` | handshake, ciphers, chunks, certificate | `Sv2Transport` |
| Message codec | `src/sv2/messages.*` | layout of the messages | the header in `Sv2Transport`, kinds of messages in `Sv2Connman` |
| Mutexes | all of the above | who waits for whom | `Sv2Locks` |
| IPC library | `src/ipc/` | event loop, connection, proxies of the node's objects | `EventLoop` |
| Main program | `src/sv2-tp.cpp` | connection to the node, signals, shutdown | `Sv2Main` |
| Mining interface | `src/interfaces/mining.h` | the node | external: what its calls may answer |
| Cryptography, serialization, utilities | `src/crypto/`, `src/key.*`, ... | imported | not modelled |

Threads, and how they meet:

- The *sockets thread* (`SockMan::ThreadSocketHandler`) accepts connections,
  sends, receives, decrypts, handles messages, and removes flagged clients. Two
  handlers call the template provider: `RequestTransactionData` and
  `SubmitSolution`.
- The *handler thread* (`ThreadSv2Handler`) waits for the end of the initial block
  download, then starts a *client thread* for every client that is set up, and
  prunes the cache, until it is interrupted. Then it joins the client threads.
- A *client thread* (`ThreadSv2ClientHandler`) creates a template, caches it under
  a number and sends it, then waits for a better one, caches and sends it, and so
  on until its client is gone.
- A detached *block saver* writes a solved block to disk after a delay.
- The *event loop's thread* carries all calls to the node.
- The *main thread* interrupts and joins all of it but the saver.

They share the cache, the template counter, the best hash and its time
(`m_tp_mutex`), the map of clients (`m_clients_mutex`), each client's flags
(`cs_status`) and each client's queue (`cs_send`), and the one slot through which
functions are posted to the event loop (its `m_mutex`).

## 2. Modules

### How they fit together

    Sv2TemplateProvider --implements-->  ClientService  <--implements-- Sv2Connman
    Sv2Transport        --implements-->  SecureChannel
    Sv2Main             --extends, keeps to the contract of-->  EventLoop
    Sv2Locks            the mutexes of all of them

The provider and the connection manager are two models of the same process, each
with the other reduced to what it sees of it. `ClientService` is what they agree
on: the life of a client's entry in `m_sv2_clients`, its flag, and all that was
ever queued for it. Both are shown to implement it, by TLC on their runs and by
TLAPS for all instances, so that neither assumes of the other what the other does
not do.

### `Sv2TemplateProvider`

The threads and calls of `template_provider.cpp`. State:

| Variables | Code |
|---|---|
| `m_template_id`, `m_best_prev_hash`, `m_last_block_time`, `m_block_template_cache`, `m_flag_interrupt_sv2` | the members of the same name |
| `pc`, `template_id`, `block_template`, `prev_hash`, `future_template`, `check_fees`, `m_last_triggered` | position and locals of each client thread, and its `Timer` |
| `client_id` | the thread's argument, which is read through a reference captured before the thread starts |
| `handler`, `main`, `job`, `saves` | where the handler, main and sockets threads are, and the unfinished block savers |
| `clients`, `m_disconnect_flag`, `m_send_messages` | the connection manager, reduced to what the provider sees of it |
| `tip`, `top`, `fees`, `ibd`, `interrupted`, `now` | external: the node and the clock |
| `bestUntil`, `sentAt`, `calls` | history, and a counter for a bound |

A step is what happens between taking and releasing a lock, or one call to the
node. So a client thread has one action for each of: reserving an id, reading the
client's options, `createNewBlock`, caching, sending, the timer, `waitNext`, and
caching and sending what it returned. The same holds for the two calls of the
sockets thread, which release `m_tp_mutex` before they use the template.

Data: block hashes are numbers in the order in which they became the tip; fees
count multiples of `-sv2feedelta`; a template is who asked for it, what it
builds on, its fees, and whether it has the witness commitment that signet needs.
`m_send_messages` here keeps everything ever appended, so that properties can
speak of what a client was sent. What may go wrong is chosen by `Faults`: failing
calls, a node that returns to an earlier tip, an interrupt, and freed memory of a
client that is given to a new one.

A client is `"connected"` from `EventNewConnectionAccepted` on, when it gets its memory
and `GetClientById` finds it, `"ready"` once it has sent `CoinbaseOutputConstraints`, and
`"gone"` when it was removed.

`MCTemplateProvider` adds the symmetry of clients.

### `Sv2Connman`

The connection manager on the loop of the socket manager, with the client threads
as its other writers. State: the fields of `Sv2Client` by name (`m_send_messages`
is the real queue here), the transport's send buffer (at most one message, with
the number of its pieces that are left), the map `m_sv2_clients` and the sockets
`m_connected`, the control of the sockets thread (`sock`, `events`, `id`,
`data`), external remote sides (`incoming`, `sent`, `eof`), the client threads
(`thread`, `work`) and history (`queued`, `wire`, `sizeUsed`).

- `SendMessagesAsBytes` is one step under `cs_send`: the kernel accepts any number
  of whole messages and any part of the next; or it fails and the socket is closed.
- `EventReadyToSend`, `EventGotData`, `EventGotEOF` and `SocketHandlerListening`
  are the loop's turn for one socket.
- There is one action for each message type: `SetupConnection`,
  `CoinbaseOutputConstraints` (in two steps, because another thread may look
  between them), `SubmitSolution`, `RequestTransactionData`, and one for all that
  is ignored. The check of `m_disconnect_flag` is a step before them, as in the
  code, which releases `cs_status` in between.
- `SpawnThread`, `PrepareBlockCreateOptions`, `SendWork` and `ThreadEnd` are the
  parts of the template provider that touch a client.

A message is its kind. The first thing a client sends is its ephemeral key; the
responder's side of the handshake cannot refuse one.

### `ClientService`

Three actions. `Admit`: a client that is not flagged asked for templates. `Serve`:
messages are added at the end of one client's queue, templates and prevhashes only
once they were asked for, and the client may be flagged, which is for good.
`Remove`: flagged clients leave; nothing is queued for them any more. In both modules
a client is `"absent"` until its constraints are received, and `"gone"` when it is no
longer in the map; the flag and the queue are the variables themselves, or their history.

### `Sv2Transport`, `SecureChannel`, `MCTransport`

`transport.cpp` and `noise.cpp`, both ends of one connection. `SecureChannel` is
what the rest of the code relies on: two channels of complete messages, in order,
until a side refuses the stream.

State: `m_recv_state`, `m_send_state`, the two buffers, the header and message in
progress, the handshake state and the two cipher states of each side; the bytes on
the wire; the bytes `EventGotData` got and has not processed (`span`). A byte is a
record that says which byte of which object it is. Cryptography is symbolic: what
was sealed opens only with the same key, nonce and associated data, from all of its
own bytes. Both acts of the handshake, the certificate's checks, the keys of the two
directions, nonces, chunks (`EncryptMessage`, `DecryptMessage`,
`EncryptedMessageSize`) and the 24 bit length are translated. All sizes are
constants. The wire delivers any number of bytes at a time, and may alter one.

`MCTransport` lists certificates: a valid one and one for each reason to refuse.

### `Sv2Locks`

All that is kept of a function is which mutexes it takes while holding which. A
thread runs any of its functions, any number of times, along any path; the handler
thread joins the client threads and the main thread joins the handler and the
sockets thread, holding nothing. This over-approximates the code, which is what a
check for deadlock wants. The mutexes inside the IPC library are not in it; what waits
for what there is part of `EventLoop`.

### `EventLoop`

libmultiprocess as a process uses it that only connects out: `EventLoop::post` with
its one slot and its byte to wake the loop, `EventLoopRef` and the counting of
references, the loop itself from its start to the assertions of its destructor,
`clientInvoke` with its answers, the construction and destruction of proxies, the
disconnect callback, and the clean-up of a thread's entries when the thread or the
connection ends. Which calls are made, and when objects are destroyed, is left to
the threads that use it; the guards of `Call`, `Destroy` and `ThreadEnds` are the
library's contract.

### `Sv2Main`

Extends `EventLoop` with the process that uses it: connecting with retries, the key
files, starting and listening, the handler, client and sockets threads as users of
the mining object and the template, the template's shared pointers (the cache's and
the threads', and the saver's copy of the sockets thread's), `interruptWait()` and
`RequestTransactionData`'s `getBlock()` under `m_tp_mutex`, the detached block saver, signals, the order of destruction in `main()`, termination by an exception, and a
kill with a restart at any point. What the threads compute is left to
`Sv2TemplateProvider`.

### Proof modules

`ProviderProofs`, `ProviderServiceProofs`, `ProviderWorkProofs`, `ConnmanProofs`,
`LockProofs`, `EventLoopProofs`, `MainProofs`; see section 5.

## 3. Runs

Constants are chosen so that each run reaches the case it is about; every bound
is a constant whose name starts with `Max` (`MaxChunk` is not one: it is the code's
`NOISE_MAX_CHUNK_SIZE`), and acts only in the guard of an
external event (a block, a reorganisation, a fee rise, a tick, a call, a connection, a message from
a client, an altered byte) or, for `MaxWork`, of a client thread's sends.
Two more bounds, of `Sv2Main`: `ServeAfterError` ends a start whose key files failed before it
listens, and `RequestWhileSaving` ends a client's `RequestTransactionData` once a solution was
submitted; both are `FALSE` in the runs, and the theorems hold without them.

### Template provider

| Run | Instance | Shows |
|---|---|---|
| `TwoClients` | 2 clients, 2 blocks, no grace period, reuse of memory, fairness | `TypeOK`; `FirstTemplateMatchesCache`: the first template a client is sent is the one cached under its id; `TemplateIdsIncrease`: the ids its own thread sends a client strictly increase; `TipReachesClient`: who stays connected ends up on a stable tip |
| `OneClient` | 1 client, 2 blocks, a fee rise, 3 s, 1 call, failing calls | with one thread: `EveryTemplateMatchesCache`, `JobMatchesLastPrevHash`, `FeeUpdatesSpaced`, `GraceRespected`; `ServesClients`: the provider implements `ClientService` |
| `Faults` | 1 client on signet, failing calls, returning tips, interrupt, fairness | `GraceRespected`: nothing is pruned within the grace period after its block was replaced; `ShutdownCompletes`: `Interrupt` and `StopThreads` end |

Two clients are enough for the races between client threads that these properties
are about: the threads interact only through the counter, the best hash and the cache, and
each property is about one client disturbed by others. Two blocks give one change of
the tip. A grace period of one second and a clock that passes it put both sides of each
comparison within reach; with none, pruning competes with every other step. `OneClient`
makes a call, so that templates are refused as stale there; in `Faults` they are only
pruned.

Three runs contradict a comment of the code. They are listed under `findings` in
`PROJECT.json`, like the others below, with the line they contradict.

| Run | Property | What happens |
|---|---|---|
| `IdRace` | `EveryTemplateMatchesCache` | two threads cache templates before either sends: both send under the second id |
| `FeeUpdate` | `FeeUpdateIsNotFuture` | after the first change of tip every fee update is sent as a future template |
| `PruneTip` | `PruneKeepsTip` | a thread whose first template was slow moves `m_best_prev_hash` back to the block before (`template_provider.cpp:299`), and once the grace period is over the templates on the tip are pruned |

Some properties need the constants they are checked with:

- `EveryTemplateMatchesCache` holds with one client only, as `IdRace` shows; in `OneClient`
  it says that the id that is cached is the one that is sent when no other thread comes
  between.
- `JobMatchesLastPrevHash` fails with `"reorg"` in `Faults`: when the node returns to
  the block a thread started on, the comparison at `template_provider.cpp:369` finds no
  change, and no `SetNewPrevHash` is sent.
- `TemplateIdsIncrease` is about a client that is served by its own thread alone
  (`ServedAlone`). With `"reuse"` in `Faults` a thread started for a client that was removed
  meanwhile reads, through a reference (`template_provider.cpp:231`), the id of the client
  that got its memory; that client is then served by two threads whose ids interleave.
  `FeeUpdatesSpaced` is not promised then either.
- `ServesClients` fails with two clients and `"reuse"` in `Faults`: a client gets its memory
  when its connection is accepted (`connman.cpp:103-113`), so the thread that reads its
  id may send it work before it has sent anything. No comment or test speaks of this.
- `FirstTemplateMatchesCache` is about a thread's first template. On signet `SendWork` may
  refuse it and the thread goes on, so that an updated template, with the id that is
  read again, may be the first one the client is sent.

### Connection manager

| Run | Instance | Shows |
|---|---|---|
| `Conn` | 1 connection, messages of 2 pieces, all 13 kinds of messages, 2 after the key, 2 templates, failing sends and calls, refused templates, interrupt, fairness | `TypeOK`; `InOrder`: what was queued is what the kernel accepted followed by buffer and queue; `OneSetupReply`: at most one answer to `SetupConnection`; `SilentOnceRemoved`: nothing is queued for a removed client; `IsClientService`: the connection manager implements `ClientService`; `ReceiveProgress`: what arrived is received even if the peer never reads; `InterruptStops` |

Two pieces per message are enough for a send to stop before, inside and after one.
`MaxReceived` counts the key: two messages after it complete the set-up, or come in a
wrong order, or repeat. A third, which a client that is set up would send while its thread
flags it (`connman.cpp:269`), is beyond the run; the theorems `SetupCorrect` and
`ServiceCorrect` include it. One connection is enough here because connections share only the loop; the
theorems of section 5 are about any number of them and of messages.

| Run | Property | What happens |
|---|---|---|
| `ConnClose` | `ClosedAfterSent` | a flagged client is removed while its last message is still with the transport |

Two more properties of `Sv2Connman` fail. `ClosedIsRemoved`: after a failed send
(`connman.cpp:165`) the socket is closed but the client is not flagged; no event can flag
it any more, so it stays in the map and its thread goes on queueing for it.
`SizeRequested`: the handler sets
`m_coinbase_output_constraints_recv` (`connman.cpp:350`) before it assigns
`m_coinbase_tx_outputs_size` (`connman.cpp:372`), and a client thread that starts in
between uses the size before it has its value. No comment or test clearly promises the
contrary, so they are not runs.

### Transport

`Transport`: two messages in all, each empty or of a length that needs two chunks, sent
by either side; seven certificates; one byte altered anywhere; at most three bytes
in one read.

- `IsSecureChannel`: the two ends implement `SecureChannel`.
- `RefusedForCause`: a stream is refused only if a byte was altered, the certificate
  is not valid, or a message was empty. The last is what the code does: an empty
  message can be sent, but a header that announces one is refused.
- `NoMessageIsStuck`: once everything was sent and processed nothing waits in a buffer.
- `MaxReadIsNatural`: no `size_t` difference in `GetMaxBytesToProcess` wraps around, also
  if `ReceivedBytes` is called again after it refused.

The sizes are the smallest that keep every comparison of the code apart: a chunk that
holds a tag and two bytes, a key of two bytes, so that a stream is cut inside, before
and after each of them. A payload that fills its last chunk exactly is not in the run: with a
third length it takes more than five minutes (with lengths 0, 2 and 3 all four properties
hold).

### Mutexes

`Locks`: two clients, all threads. `NoDeadlock`: no set of threads exists in which each
waits for another of the set.

### The process

`Main`: the five threads, one client and one template at a time, a connection that may
break at any time, key files that may fail, a signal, a block saver, kills and restarts.

- `WriteSucceeds`, `WokenForCause`, `EndsClean`: the event loop's descriptor is open when
  it is written to; no wake-up is lost or left over; at the end there is no reference, no
  posted function, no unread byte and no thread inside.
- `RespectsEventLoop`: the process implements `EventLoop`'s specification: nothing of the node is
  used after it was destroyed, or destroyed twice.
- `ExitsLast`: `main()` returns after everyone else is done with the node's objects. The
  detached saver owns the template, the template holds a reference to the loop, and the
  loop's thread is joined last.
- `AuthorityKept`: a start that serves uses the authority key of the first one that did,
  whenever the process was killed, unless a key file could not be read or written.
- `ShutdownNotStuck`: once interrupted, somebody can always go on until the exit. It excludes
  that everyone waits, not that someone goes on forever; the graph is too large to check
  liveness.

`Destroy` contradicts a comment: `DestroyIsQuiet` fails, since the destructor of a
template's proxy calls `destroy` also after a disconnect, which raises.

### Deadlock

TLC checks for deadlock wherever the system must go on. The runs that stop on
purpose (an interrupt, an exit, a refused stream, threads that return) say so in their
configuration.

### Mutants

For every property of a passing run the modules contain a mutated definition
(marked `MUTANT`, used nowhere) that changes the code in a plausible way and
violates the property under the same configuration; `PROJECT.json` pairs them.

## 4. Fairness

Only threads of the process are assumed to run. In `Sv2TemplateProvider`: the
handler thread, each client thread, the sockets thread's pending call and the
block saver, and the main thread once it has begun to interrupt. That
calls to the node return is part of it: `waitNext` has a timeout, which the code
relies on when `interruptWait()` misses a thread. In `Sv2Connman`: the sockets
thread. Weak fairness is enough, since a thread that can take its next step can do so
until it does; the locks are held only within a step, and `Sv2Locks` shows that
they are obtained. Nothing is assumed of the node's tip and mempool, the clock, the
clients or their sockets. The other modules assume no fairness.

## 5. Proofs

The theorems hold for every value of the constants that satisfies the assumptions named
in the modules that declare them, with all faults unless a theorem says otherwise. Many
leaves name Zenon: it decides them at once, while the SMT backend gets slower with every
statement in scope.

`ProviderProofs`

- `TypeCorrect`: `Spec => []TypeOK`. `TypeOK` is not inductive: that a template goes
  into the cache under an id already given out needs what a thread knows at each
  point. `ThreadInv` says it: from `createNewBlock` on the thread holds a template,
  and until its first one is sent, a number between 1 and the counter.
- `GraceCorrect`: `Spec => GraceRespected`. The code has one time for all hashes,
  `m_last_block_time`. `GraceInv` relates it to the history: no hash lost
  its place as the best later than that time, which is not in the future. Then
  whatever pruning drops (`m_last_block_time <= now - grace`) or a call refuses was
  displaced at least a grace period ago. One lemma (`Changes`) says which actions
  touch the cache, the queues and the times, so that the proof only looks at those.
- `TemplateIdsCorrect`: `Spec => []TemplateIdsIncrease`, with all faults. The interesting point is that `SendWork` reads the
  counter again after releasing the lock. `IdInv`: no id in a queue is ahead of the
  counter; between caching and sending, the counter is strictly ahead of everything
  in this client's queue, because the thread itself incremented it and others only
  increment it further; before its first send a client has no template. All this is said of
  a client that is served alone; once another thread has read its id it never is again, and
  a thread that has not started may still come to serve another client.

`ProviderServiceProofs`

- `ServesCorrect`: without reused memory, `Spec => ServesClients`. A client thread looks
  its client up in the step that queues for it, and exists only for a client that has
  asked for templates (`AskedInv`). The sockets thread does not, between the
  two halves of a call; `JobInv` says why it need not: the client of the call it is in
  is not gone, since the same thread removes clients, between two calls. With reused memory
  it fails, see section 3.
- `FirstCorrect`: off signet, `Spec => []FirstTemplateMatchesCache`, also with reused
  memory. An id is *settled* for a template when it was given out, nothing else is
  cached under it and no thread has it reserved; `SettledStays` says that pruning,
  caching and reserving keep that, because reserved ids differ from each other and
  from all that is cached (`PendingInv`). `FirstInv`: the id of a template that is about to be
  sent first, or was, is settled, and a thread past its first send serves a client that
  has a template, so that the id that is read again is never that of a first one.
- `SpacedCorrect`: off signet and without reused memory, `Spec => FeeUpdatesSpaced`.
  `SpaceInv`: the timer never runs from before the last template that was sent; while a
  thread waits, what it holds is the last template its client was sent; what
  `waitNext` returned is on another block, unless the timer had triggered, an
  interval or more after that send.

`ProviderWorkProofs`

- `JobsCorrect`: for any number of clients, off signet, without reused memory and
  with a node that does not return to an earlier tip, `Spec => []JobMatchesLastPrevHash`.
  `JobsInv`: the last prevhash a client was sent lies between the block its thread started
  on and the one of the template it holds; a template that is not sent as a future one
  has these two equal.

`ConnmanProofs`

- `ConnTypeCorrect`: `Spec => []TypeOK`, by `Inv == TypeOK /\ LoopInv /\ ClientInv`:
  while data is handled, the client is in the map (only the same thread removes it)
  and its handshake is over once a message is; before the handshake the buffer and
  the queue are empty, so that the handshake reply finds an empty buffer.
- `OrderCorrect`: `Spec => []InOrder`. One lemma (`SendStep`) says what
  `SendMessagesAsBytes` does to a backlog, and `SplitAt` that sending `k` messages and
  handing over the next one splits it without loss; every place that appends does so
  at the end (`BacklogGrows`).
- `SilentCorrect`: `Spec => SilentOnceRemoved`. Everything that queues either looks
  the client up in the same step or runs in the thread that removes clients.
- `SetupCorrect`: `Spec => []OneSetupReply`. `SetupInv`: a client that is neither
  confirmed nor flagged has not been answered, and neither has one whose message is
  being handled and that is not confirmed, even if its thread flagged it after the
  check; the second half is why the first alone is not inductive.
- `ServiceCorrect`: `Spec => IsClientService`. `ServeInv` adds to the above that only
  accepted clients are in the map, that constraints are received only from them, that a
  client's thread exists only after that, and that a client that is flagged
  while its constraints are handled had sent constraints before: it is then admitted
  already, and `Admit` of a flagged client does not happen.

`LockProofs`

- `DeadlockFree`: `Spec => []NoDeadlock`, for any number of clients. Mutexes are ranked:
  `m_clients_mutex`, `m_tp_mutex`, `cs_send`, `cs_status`, `m_recv_mutex`,
  `m_send_mutex`, `m_connected_mutex`, `ConnectionSockets::mutex`. Every function takes
  a mutex that ranks above all it holds, a thread that joins holds nothing, and threads
  join in the order main, handler, client. A set of threads that wait for each other
  would have no one that waits for the highest rank.

`EventLoopProofs`

- `WriteCorrect`, `WakeCorrect`, `EndCorrect`: for any threads and objects,
  `Spec => []WriteSucceeds`, `[]WokenForCause` and `[]EndsClean`. The inductive invariant
  has three parts besides the types. `WorkInv`: what a thread posted fits where it is.
  `RefsInv`: who holds a reference when; in particular a thread in `post()` does. `SlotInv`:
  exactly one byte is still to be written, in the pipe or just read if and only if a
  function is posted or the last reference is gone. The last part is what makes
  `EventLoopRef::reset` sound, which writes after it unlocked: until that byte is read
  the loop cannot end, and nobody else writes one.

`MainProofs`

- `RespectsCorrect`: `MainSpec => RespectsEventLoop`: in any order of the threads' steps, of
  answers, disconnects, signals, kills and restarts the process keeps the contract that the
  theorems of `EventLoopProofs` assume. Besides their invariant it needs `LifeInv`. What a
  thread posted fits where it is in the code; the template's owners follow from where
  the threads are; a template that is owned exists and is not being destroyed; while `main()`
  is in `interruptWait()`, or the sockets thread in `getBlock()`, the cache keeps its template,
  as pruning needs the mutex that is held; threads are joined in an order in which the objects they use
  are still there.
- `ProcessCorrect`: hence `MainSpec => [](WriteSucceeds /\ WokenForCause /\ EndsClean)`.
- `ExitCorrect`: `MainSpec => []ExitsLast`, from `LifeInv` and `EndsClean`: an owner of the template
  keeps a reference, and the loop that `main()` joins last ends only without any.
- `AuthorityCorrect`: `MainSpec => []AuthorityKept`. `KeyFits`: until a file fails, the authority
  file holds the key of the first start that served, or nothing was served yet.

Only model-checked: the liveness properties (`TipReachesClient`, `ShutdownCompletes`,
`ReceiveProgress`, `InterruptStops`) and `ShutdownNotStuck`, since fairness and `ENABLED` are
outside the prover's reach; and the properties of `Sv2Transport`, which relate streams of
bytes cut at any place to the chunks they are made of.

## 6. What is not modelled

- The node, the kernel and the remote sides are external: what the code can observe
  of them is chosen nondeterministically.
- Cryptography (`secp256k1`, ChaCha20-Poly1305, hashing) is numeric code out of a model
  checker's reach; `Sv2Transport` has it in symbolic form. That a nonce
  reaches 2^64 - 1 is not followed.
- Serialization, consensus data types, lookup tables, argument parsing and logging are
  imported and have no state to check. One effect of logging is kept: with debug
  logging a message type without a name throws. These and cryptography are by far the
  most lines of the repository. Of the program's own code, about half of the lines,
  comments included, are covered by a definition; the rest is declarations, layout of fields,
  logging and parsing.
- The content of messages, except what the properties tell apart.
- The socket manager's outgoing side and I2P, which the program does not use, and the
  options of a listening socket.
- In the IPC library: serving objects to others and incoming connections, the thread for
  asynchronous clean-ups (the process passes no callbacks), the order of events inside
  KJ, a disconnect between `ConnectStream`'s post and the construction of its proxy, and
  the race of a thread's exit with a disconnect over its thread-local map. The
  references of `request_threads` and `callback_threads` are one.
- `Sv2Main` has one client and one template at a time; what a second client adds is in
  `Sv2TemplateProvider`.
- What the block saver writes: a second solution for the same template may replace the
  first before it is fetched, but what a template then holds is the node's business.
- Growth: a client thread that has ended is joined only at shutdown. The number of
  clients is a constant here, and the code states no limit.

## 7. What could come next

1. The refinement of `SecureChannel` by `Sv2Transport` for any sizes.
2. A second template in `Sv2Main`, for the cache that drops one while another is waited
   for. The state space is then too large for one run.
