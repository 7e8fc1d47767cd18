# A TLA+ development of INA2A

INA2A is a prototype of in-network aggregation for the all-to-all exchange of a
mixture-of-experts layer. Every *host* owns a list of tokens and is itself an
*expert*. A host computes attention for a token, dispatches it to the *switch*,
the switch sends it to the experts chosen for the token, adds up the results
that the experts send back, and hands the sum out when the owner pulls it.

This directory models that system in TLA+, checks the models with TLC on small
instances, and proves its central properties with TLAPS for every instance.

Paths below are relative to the repository: `src/src/host_main.cc` is
`host_main.cc`, and so on.

## 1. Inventory of the system

### Wire protocol and workload (`protocol.h`, `workload.cc`)

* *State*: none. Eight message types; a header names the token by `run_id`,
  `microbatch_id`, `origin_host_rank`, `token_id` and `global_idx`, the chosen
  experts by a 64-bit `expert_bitmap`.
* *Operations*: `make_workload` picks `topk` distinct experts for every token,
  after clamping `topk` to `1 .. num_hosts`.
* *What makes it correct*: the five fields identify a token among all live
  tokens; they are functions of the owner's rank and the index in its list, so
  the pair (origin, idx) identifies it too.

### Host (`host_main.cc`)

* *State*: `HostState`: the token window (`window_base`, `next_to_admit`, one
  `TokenWindowState` per token) under `state_mutex`; `send_queue` and
  `compute_queue`; `running`; `finish_enqueued`.
* *Operations*: `try_admit_raw_tokens_to_compute_queue`, `control_tick`,
  `enqueue_combine_pull`, `process_local_attention`, `process_expert_mlp`,
  `process_out_msg`, `handle_incoming_message` (one case per type),
  `shutdown_runtime`; the loops that call them, in three arrangements: mode
  `four` (a thread each for control, compute, send and read), mode `io` (send
  and read in one thread), mode `all` (everything in one thread).
* *Interactions*: with the switch by messages; between its threads by the two
  queues, by the token states, and by a condition variable.
* *Hard*: four threads decide on the same token at once; a pull is answered,
  refused and repeated after 10 ms; answers arrive out of order inside the
  window; a host that is done must go on serving others; shutdown races with
  queued work.
* *Correct when*: every token is combined exactly once with the exact sum; the
  marks of a token always agree with what is under way for it; nothing is lost
  at shutdown; in the end every host has all tokens and exits.

### Switch (`switch_main.cc`)

* *State*: `combine_queue` (a slot per live token: payload accumulated so far,
  expected and pending experts, `ready`) under `queue_mutex`;
  `finished_hosts` under `finish_mutex`; `hosts` with a `write_mutex` for each
  connection; `running`.
* *Operations*: the accept loop with its HELLO exchange; per host a reader
  thread that runs `handle_dispatch_token`, `handle_expert_result`,
  `handle_combine_pull_req` or `mark_host_finished` and `broadcast_finish`;
  `close_all_host_connections`.
* *Interactions*: a reader sends to *other* hosts' connections while it handles
  a message of its own host, and blocks there.
* *Hard*: the results of a token arrive through different readers while the
  dispatch of the same token is still being sent; a slot is erased before its
  sum is delivered; exactly one reader may broadcast FINISH; connections are
  closed and freed while other readers wait on them; everyone may wait for
  everyone.
* *Correct when*: each chosen expert is counted once in each slot; no live slot
  is overwritten; a pull always finds its slot; the number of slots is bounded;
  nothing is under way when the switch stops.

### Transport (`transport_softroce.cc`)

* *State*: one send and one receive buffer per connection end, two completion
  queues, `recv_posted`; a listener with room for eight requests.
* *Operations*: `sr_write` (fill the buffer, post a send, poll until it
  completes), `sr_read` (post a receive if none is posted, poll until it
  completes, copy out, post the next one), `sr_read_for` (the same with a
  timeout), `sr_connect`, `sr_listen`, `sr_accept`, `sr_close`; headers are
  turned into network order and back.
* *Hard*: the adapter reads the send buffer after `ibv_post_send` has returned;
  a timeout leaves a receive posted; the buffers keep the tails of earlier
  messages. With one buffer posted, and `rnr_retry_count = 7` (retry for ever), a
  writer waits until the peer has read its previous message. `sr_read` polls a
  completion queue and never looks at the events of the connection, so it need
  not notice that the peer is gone.
* *Correct when*: messages come out as they went in, each once and in order, and
  a buffer in use is never written.

### Start: the accept loop and HELLO (`switch_main.cc`, `host_main.cc`)

* *State*: `hosts`, `accepted_hosts`, the listener's queue of requests.
* *Operations*: one thread accepts a connection, reads its HELLO, turns wrong
  and duplicate ranks away, registers the others and acknowledges; then it
  starts all readers. A host starts its threads as soon as it has its ACK.
* *Hard*: hosts call in any order, some with a rank that is taken, and die at any
  point; early hosts send before their reader exists.
* *Correct when*: each rank has one connection, for good; only registered hosts
  run; nothing they send is lost; the loop comes to its end.

### Stop: closing the connections (`switch_main.cc`)

* The reader of the last FINISH broadcasts FINISH, clears `running` and closes
  and frees every connection, while other readers are inside `sr_read`.
* *Correct when*: a reader has left before what it polls is destroyed.

### Queues of a host (`BlockingQueue` in `host_main.cc`)

* *State*: a deque, `closed_`, a mutex and a condition variable.
* *Operations*: `push`, `pop`, `try_pop`, `try_pop_for`, `close`.
* *Hard*: notifications are sent after the mutex is released.
* *Correct when*: no consumer sleeps over an item or a close.

### Logger (`log.h`)

* *State*: a queue of lines, a worker thread, a stop flag, a line under
  construction for each of `std::cout` and `std::cerr`.
* *Operations*: `log`, `logf`, `overflow` and `sync` of the stream buffers,
  `processQueue`, the destructor that flushes, stops and joins.
* *Correct when*: the file gets every entry once and in order, and the
  destructor returns.

### Main paths of failure

`sr_write` fails when the peer has died; `sr_read` may fail or poll for ever. A
reader whose read fails leaves its loop; a failed EXPERT_INPUT clears the
expert's pending bit, any other failed send of the switch is only logged; a host
leaves through `shutdown_runtime`. Nobody tells the other hosts.

`PROJECT.json` lists these parts under `components`, and under `hazards` every
place where the code is hard to test, with the properties that guard it.

## 2. Modules

| Module | Models | Builds on |
|---|---|---|
| `Protocol` | headers, types, workload, the arithmetic of one payload byte | - |
| `Links` | the connections, as the one-message buffers that the code above the verbs sees | `Protocol` |
| `Host` | one host in mode `four`: four threads and the clock | `Links` |
| `Switch` | the readers, the slots, the finish protocol | `Links` |
| `INASystem` | all hosts and the switch; the properties | `Host`, `Switch` |
| `CombineService` | the abstract promise: combine every token once, then stop | - |
| `MCINASystem` | `INASystem` with a fixed workload, for larger instances | `INASystem` |
| `INASystem_proof` | the theorems about what its messages and results say | `INASystem` |
| `Accounting_proof` | the theorems about what is under way in it | `INASystem_proof` |
| `HostLoops` | modes `io` and `all`: the same handlers in combined loops | `INASystem` |
| `MCHostLoops` | `HostLoops` with one mode for all hosts | `HostLoops` |
| `HostLoops_proof` | every loop mode implements the four loops; when they cannot get stuck | `HostLoops`, `Accounting_proof` |
| `Failures` | the system when hosts or the switch die, and the error paths | `INASystem` |
| `DegradedService` | what is left of the promise then | - |
| `Failures_proof` | the theorems about them | `Failures`, `Accounting_proof` |
| `Handshake` | connecting, HELLO, the accept loop, the start of the readers | - |
| `Handshake_proof` | the theorems about it | `Handshake` |
| `Teardown` | the last FINISH and the closing of the connections | - |
| `WireFormat` | the byte order of headers | - |
| `Transport` | one direction of a connection with its buffers, posts and completions | `WireFormat`, `Links` (as its abstraction) |
| `MCTransport` | payloads for `Transport` | `Transport` |
| `Transport_proof` | the theorems about `Transport` and `WireFormat` | `Transport` |
| `BlockingQueue` | the queue class with its condition variable | - |
| `BlockingQueue_proof` | the theorems about it | `BlockingQueue` |
| `Logger` | the logger from its first entry to its destructor | - |
| `Logger_proof` | the theorems about it | `Logger` |

Each layer is checked where it is and then used in its abstract form: `Host`
uses a queue as a sequence and a connection as a one-message buffer (`Links`),
which `Transport` is shown to implement; `INASystem` starts in the state in which
`Handshake` ends, every rank registered and connected, and ends where `Teardown`
begins.

### How state and actions correspond to the code

`Links`. A direction of a connection is a buffer that holds a message or
`None`. `sr_write` completes when the peer has a receive posted, so the write is
enabled when the buffer is empty and otherwise blocks the thread; `sr_read`
copies the message out and posts the buffer again at once, so reading empties
it. A FIFO of messages would hide the waiting that this causes.

`Host`. Each variable is a field of `HostState` or `TokenWindowState` (named in
the comment beside its declaration) or the local state of a thread: `sending`
and `computing` are what a thread holds after its pop; `needPull`, `admitting`
and `sendFinish` are what `control_tick` has decided under `state_mutex` and
carries out after releasing it. The Boolean fields of the token states are sets
of tokens.

| Action | Code |
|---|---|
| `AdmitToken` | an iteration of `try_admit_raw_tokens_to_compute_queue` |
| `ControlTick` | the critical section of `control_tick` |
| `EnqueuePull`, `EnqueueFinish` | its pushes after the critical section |
| `BackOffExpires` | the clock passes `next_pull_time` |
| `ComputePop`, `ProcessLocalAttention`, `ProcessExpertMlp` | `compute_loop` and the two tasks |
| `SendPop`, `SendWrite` | `send_loop`, `process_out_msg` |
| `RecvAck` ... `RecvFinish` | `read_loop`, a case of `handle_incoming_message` each |
| `HostExit` | `main` after its joins |

`Switch`. `readerUp`, `fan`, `targets` and `reply` are the local state of the
reader threads: a reader that has finished the critical section of its handler
still has messages to send to `targets` and an answer in `reply` to send, one
step per send. It reads again only after the last.

| Action | Code |
|---|---|
| `HandleDispatchToken` | `handle_dispatch_token` up to its first send |
| `SendFan` | one send of its loop, or of `broadcast_finish` |
| `SendReply` | the ACK, the NOT_READY or the COMBINE_RESULT |
| `HandleExpertResult` | `handle_expert_result` |
| `HandlePullReady`, `HandlePullNotReady` | `handle_combine_pull_req` |
| `HandleFinish` | `mark_host_finished` |
| `CloseAll` | `broadcast_finish` done: `running = false`, `close_all_host_connections` |
| `ReaderExit` | the reader leaves `host_reader_loop` |

`HostLoops`. `loopAt` is the place of the one thread that both writes and reads,
`drained` counts the messages that the current `drain_send_queue` has popped.
Each action is an action of `Host` at its place in the loop (`DrainWrite` is
`SendWrite`, `LoopRead` is `ReadThread`, and so on) or moves the place only
(`DrainDone`, `LoopTimeout`, `LoopNoTask`). The limit of 64 messages is the
constant `DrainLimit`; the run `loops` sets it to 1 so that it is reached.

`Failures`. `HostCrash` and `SwitchCrash` take a process and its memory away at
any step; `FanFails`, `ReplyFails`, `HostSendFails`, `HostReadFails` and
`ComputeDrop` are the error branches of `handle_dispatch_token`,
`broadcast_finish`, the three replies, `process_out_msg`, `read_loop` and
`process_compute_task`. A shutdown by one thread may overtake another that has
tested `running` already and goes on to the end of its turn: `lateReads` are the
hosts whose read thread was in `sr_read` when the send thread failed,
`lateTicks` those whose control thread was about to tick. `LateRead` handles a
message that had been delivered before the connection failed, as `read_loop`
does without another test of `running` (host_main.cc:734-744); the receive queue
has a completion queue of its own, so the failed send does not hide it. `LateTick`
is one more `control_tick`. Both may also find nothing, and `HostExit` waits for
both (`Joined`), as `main` joins the threads. Everything else is a step of
`INASystem`, where the test of `running` and the turn after it are one step
(`ReadThread`, `ControlThread`): without failures only the read thread clears
`running`, and when it does nothing is left to tick for.

`Handshake`. One action per exit of each iteration of the accept loop:
`Register` and `SendAck`, or `Reject` (wrong or duplicate rank), `HelloFails`,
`AcceptFails` (return 4), `AckFails` (return 5). A process is followed from
`sr_connect` to its first DISPATCH_TOKEN; its rank is any number up to and
including the switch's `num_hosts`, which stands for every rank that is too
large.

`Transport`. `holder` is `write_mutex`; `stage` is how far a sender is in
`sr_write`; `sendQueue`, `unacked`, `sendCq`, `recvQueue` and `recvCq` are the
queues of the two adapters. Buffers are sequences of bytes that later messages
overwrite from the front. `Deliver` and `Acknowledge` are the adapters, which
are modelled from how the code uses them: a reliable connection delivers in
order and reads the send buffer at any time until the send completes.

`BlockingQueue`, `Logger`. A critical section is one step, the notification that
follows it another, and testing the predicate and falling asleep is one step, as
`wait` releases the mutex atomically. Wakeups may be spurious. An entry of the
log is the sequence of the pieces it was put together from.

`Teardown`. `reader` is where each reader is, down to the call of `sr_read` with
`host->conn`; the closer disconnects, destroys and clears the pointer of one
connection after the other, each as a step.

### What is abstracted

* A token is (origin, idx). `run_id`, `microbatch_id` and `token_id` are
  functions of these two and are left out.
* One byte of the payload, at position `ByteIndex`, stands for all: every
  operation on a payload works on each position separately. Its width is kept
  (`% 256`). `two_hosts` follows byte 200, which wraps when it is doubled (400) and
  again in the sum of two results (144 + 144), and `window` byte 255, which wraps in
  the attention of the second token (255 + 1), when it is doubled, and not in the
  sum, as there is one expert. In the other runs values only have to be told apart.
* `choose_topk_bitmap` is a nondeterministic choice of any set of the right
  size. The generator is seeded from the clock when a host process starts.
* `sr_read` and the first critical section of the handler are one step: between
  them a thread touches only its own stack. For the same reason `shutdown_runtime`
  is one step: once `running` is false nothing observes that a queue is not yet
  closed, because nothing is queued (`FinishQuiescent`).
* `received_combines` is left out: it counts the tokens the base has slid over
  and is equal to `window_base`. `pull_attempts` is only logged.
* The 10 ms of a back-off are a set `backingOff` that the clock may empty at any
  time. So a pull may be repeated as early and as often as the fairness allows.
* In `INASystem`, a popped task that `process_compute_task` drops because
  `running` is false,
  and an item that is popped from a closed queue, are not modelled:
  `FinishQuiescent` shows that nothing is held or queued when a host stops.
* Header fields that nobody reads are not carried. A payload of the wrong length
  and an unknown message type cannot come from this program's own hosts.
* In `INASystem` no send or receive fails before the switch closes the
  connections; in `Failures` they fail when the peer has died and not before.
  There a send or compute thread past its test of `running` may still pop one item
  after the shutdown. Nothing comes of it, so the model leaves the item in the
  queue, which nothing observes any more: `process_compute_task` drops its task, and
  a write fails, because a host is shut down with messages left to send only if the
  switch is dead. The late turns of the read and control threads do change the
  host and are modelled.
* A header in `WireFormat` has one field of each width that occurs.
* `Handshake` has no HELLO of a wrong type: the program's hosts send none.
* In `Logger` only `main` writes to `std::cout`, and the worker's output to the
  console is left out.

## 3. Runs

The runs of `INASystem`, `HostLoops` and `Failures` keep deadlock checking on: in
those that pass the only state without a successor of its own is `Terminated`,
for which `Next` has an explicit stuttering disjunct. In the others everyone may
be done, and deadlock checking is off.

| Run | Instance | Asks |
|---|---|---|
| `two_hosts` | 2 hosts, 1 token, window 1, topk 2 | do two experts, four threads each, and two readers combine exactly once, with nothing overwritten, lost or left? can somebody always do something that leads on? |
| `window` | 1 host, 4 tokens, window 3, topk 1, fair | do the window, the pulls and the back-offs agree with what is under way, does the base slide over combined tokens only when results come out of order, and is every pull answered? |
| `ring` | 3 hosts, 1 token, window 1, topk 1, fixed choice | the same across three readers; do both invariants of the proofs hold; is the system quiet at the last FINISH? |
| `loops` | 2 hosts, 1 token, window 1, topk 1, fair, all hosts in the same of the three modes | is every token combined exactly, every host stopped, every `main` past its joins, with no host and reader waiting for each other? |
| `loops_window` | 1 host, 2 tokens, window 2, topk 1, fair, mode `io` | does a host with two tokens in its window exit? **No.** |
| `failures` | 2 hosts, 1 token, window 1, topk 2, fair, a host may die | what do the living still get? |
| `switch_lost` | 2 hosts, 1 token, window 1, topk 1, fair, the switch may die | do the hosts stop, and with what, when a shutdown overtakes the other threads? |
| `handshake` | 2 ranks, 3 processes with any ranks, backlog 2, 1 death, fair | does the run start with the right hosts and lose nothing? |
| `teardown` | 2 hosts | has every reader left a connection before it is freed? **No.** |
| `transport` | 2 writers, 4 messages of 4 lengths (one too long), fair | are messages read as they were written? is the connection what `Links` says? |
| `blocking_queue` | 2 producers, 2 consumers, 4 pushes, fair | is a wakeup ever lost? |
| `logger` | 2 threads with 2 entries, 3 insertions of `main`, fair | is everything logged in the file when the destructor returns, and does it? |

Properties:

* `CombineExact`: a combined result is the sum modulo 256 over the chosen
  experts, each once.
* `PendingExact`: a pending bit of a slot and the piece of work it stands for
  exist together: sum of all places where the work can be = 1 or 0.
* `PullInflightExact`: the same for `pull_inflight` and the request or answer.
* `NoSlotOverwritten`, `PullFindsSlot`: the two situations that the switch
  reports as errors do not occur.
* `SlotsWithinWindow`: at most `window_size` slots per host.
* `FinishQuiescent`: at the last FINISH nothing but FINISH is under way.
* `NeverStuck`: until the last host has closed its connection some thread can take
  a step that leads on, if the window holds at least one token. It says more than
  the absence of a TLC deadlock: a control thread that only polls for slots that
  are not ready does not count.
* `Truthful`: what every message, task and slot says is true of its owner
  (`TruthfulBut` with nobody excused), what is below the base of a window is combined,
  and a FINISH is sent by a host that has all its tokens only.
* `Accounted`: the ledgers behind the counting properties balance (section 4).
* `ImplementsService`, `ImplementsFairService`: refinement of `CombineService`.
* `NoWriteCycle`: no host and its reader on the switch wait in `sr_write` for
  each other to read.
* `PullsAnswered`, `HostsExit`: liveness. A NOT_READY answers a pull: that no token
  is polled for ever is part of `ImplementsFairService`.
* `ImplementsDegradedService`: refinement of `DegradedService`: when processes
  die a result misses the part of dead experts only, a token is still combined
  at most once, and a host stops early only if the switch is dead. Then, and only
  then, it may combine one more result after it has stopped, the one that its read
  thread was reading (`leaving`): `switch_lost` has such behaviours.
* `LivingWorkExact`, `LivingQuiescent`: `PendingExact` and `FinishQuiescent` for
  the hosts that live.
* `FailureInvariant`: every message and slot is truthful but for the dead experts,
  and the ledgers of the living balance (section 4).
* `ServedOrBereft`: a living host gets all its tokens, or one of them waits for
  dead experts. The second case is real: an expert that dies with an
  EXPERT_INPUT in hand is never given up, and its owner polls for ever.
* `StopsOrAwaitsSwitch`: after the death of the switch a host with anything left
  to send stops. One that only waits for an answer may wait for ever.
* `RegistryExact`, `OnlyRegisteredRun`: one connection per rank, that of the
  process with that rank; no other process runs.
* `ReadersFindEveryHost`, `EarlyMessagesKept`: the readers start with every host
  connected, and find what the hosts have sent before.
* `RunStarts`: without deaths, and if every rank keeps a process that is not
  refused for want of room in the listener, the run starts.
* `ReadInOrder`, `OneBufferInUse`, `WireIsBigEndian`, `WritesReturn`: the
  transport; `ImplementsLinks`: it behaves as the model of the connections that
  the other modules use.
* `NoLostWakeup`, `ItemsTaken`, `ConsumersReleased`: the queue.
* `DestructorDrains`, `WorkerSleepsIdle`, `DestructorTerminates`: the logger.

### The combined loops get stuck

`loops_window` is violated by what the code does. In modes `io` and `all` one
thread drains the send queue with blocking writes before it reads. In the
counterexample the switch handles the dispatch of the second token while the
host still has messages queued: the reader has filled the host's receive buffer
and waits in `send_to_host` with the next message, the host has filled the
reader's receive buffer and waits in `sr_write` with its next message. Each
would have to read for the other to go on, and `rnr_retry_count = 7` means that
neither write ever fails. The usage text (`host_main.cc:839-840`) offers
`[window_size]` and `loop_mode: four | io | all` side by side, for any window.

A window of one is no guarantee either. With three hosts, one token each and
three experts per token, checking `NoWriteCycle` under `LoopSpec` finds the
same cycle in modes `all` and `io`, in behaviours of less than 40 states: results for
two other owners take the place of the second token. That instance is not one
of the runs: its counterexample is the same waiting, found in a larger graph.
Mode `four` cannot get into this state, since its read thread never writes; the
theorem `NeverStuckAlways` (section 4) shows that some step that leads on is always
possible, and the runs `loops` and `window` that it goes on.

### Readers poll connections that have been freed

`teardown` is violated by what the code does. The reader of the last FINISH
calls `sr_close` on every connection. `rdma_disconnect` makes the receives that
other readers wait for fail, and a reader that polls in time leaves, as the test
of `running` after a failed `sr_read` expects. But nothing waits for it: the next
statements destroy its completion queue and free the connection, and a reader
that was not scheduled in between polls freed memory. Every run with two hosts
or more gets into this race, since the other readers are all in `sr_read` when
the last FINISH comes. `Switch closed normally.` is printed only if they get out.

**Why the bounds are enough.** Two hosts with `topk = 2` give every
interaction between two readers: both insert, aggregate, send to both hosts and
race for the last FINISH, and the owner of a token is also an expert of it. With
three hosts a token's owner, its expert and a third party that only finishes
differ. Window 3 over 4 tokens has tokens combined out of order, a base that
jumps, and an admission after the first slide.

In `failures` both experts of a token may
be the dead one or the owner, and the death may come at every step of the others.
Three processes for two ranks give a duplicate or a rank out of range beside a
complete set, and with a backlog of two a third request is refused. Four
messages of different lengths put a shorter one behind a longer one and a longer
one behind a shorter one in the same buffer, and the fourth is written when the
first buffer has been used by both writers. Two sleeping consumers are the least
for a notification to reach the wrong one.

No behaviour depends on a particular rank, and no message carries more than one
token.

**Fairness.** Each of the four threads of a host, and the clock, is weakly
fair (in `HostLoops`, each thread of the host's mode): they are operating system
threads that wait on a queue, on a buffer or on the 1 ms timeout of the control
loop. The handling step of a reader is weakly
fair for the same reason. The *sends* of a reader are strongly fair. A reader
waits for the destination's `write_mutex` and for its receive buffer, both of
which other readers take too; weak fairness would let the answers to a host's own
polling overtake another reader's EXPERT_INPUT for ever. Between two polls of a
token there are at least 10 ms in which the link is idle, so the waiting
reader's send (which the RNR retry of the adapter repeats without bound) gets
through: the buffer is free again and again and strong fairness is what that
amounts to. So starvation by polling is excluded by this assumption, not
checked. In the same way the weak fairness of the control thread stands for the
1 ms timeout of its `wait_for`, which has no predicate and may miss a
notification: the runs cannot tell what would happen without the timeout.
`ReaderExit` is not fair: the reader polls a completion queue that
`close_all_host_connections` destroys, and what it sees then is not defined. No
property depends on it. `HostsExit` therefore speaks of the hosts only.

In `Failures` the threads of the living are fair in the same way, and a write to a
dead process is sure to fail (the retries of the transport run out), but no
process is sure to die and no `sr_read` is sure to fail. In `Handshake` processes
and the accept loop go on, but a read from a dead client need not fail: a client
that dies between its request and its HELLO may hold the loop for ever, so
`RunStarts` is about runs without deaths. In `Transport` writers, adapters and the
reader go on; nobody has to begin a write and `sr_read_for` need not time out. In
`BlockingQueue` a thread that has pushed or closed goes on to notify, and a
consumer that is awake tests its predicate; nobody has to push, and no wakeup is
counted on that nobody sent. In `Logger` the worker and the destructor go on, and
the other threads return, which `HostsExit` shows for a host.

Every property of every run has a mutant in `PROJECT.json`: the operators
commented *Seeded fault* are plausible bugs in the definition they precede, and
the property is violated when the definition is replaced by them.

## 4. Proofs

`INASystem_proof` proves, for all constants that satisfy `ConstantsAssumption`
(1 to 64 hosts, any number of tokens, *any* integer as window and topk, any
byte of the payload):

* `TypeCorrect`: `Spec => []TypeOK`;
* `TruthfulAlways`: `Spec => []Truthful`;
* `CombineExactAlways`: `Spec => []CombineExact`;
* `Implementation`: `Spec => ImplementsService`.

*Argument.* `CombineExact` speaks of a value that the read thread stores; that
value comes from a message, the message from a slot, the slot from the results
of experts, these from EXPERT_INPUTs and these from the owner's DISPATCH_TOKEN.
So the invariant must say of each of these places that what is in it is true:
`SendPathTruthful`, `TaskPathTruthful`, `ReceivePathTruthful`, `SlotsTruthful`.
The central conjunct is `TruthfulSlot`: the data of a slot is the sum over
`expected \ pending`, and `ready` holds exactly when nothing is pending. It
survives `AddResult` because `Accepts` lets a result in only while its sender is
pending, and the sum over one more expert is the sum plus one more byte (lemmas
on cardinality and on `%`). These parts take a set of *excused* experts, whose
result a sum may miss (`Owed`), and `HostsTruthful` takes a condition `lost` under
which a host may stop early. In `INASystem` nobody is excused and nothing is lost;
the lemmas are stated for any excuse, so that `Failures_proof` can use them. For the stopping half of the refinement the
conjuncts of `HostsTruthful` and the FINISH clauses carry "this host has all
tokens" from the window base through the FINISH message to `finishedHosts`, and
"all hosts have all tokens" from there to the broadcast FINISH.

`IInv(excused, lost) == TypeOK /\ TruthfulBut(excused, lost)` is inductive; the proof
has a lemma per action, grouped by thread, and `Invariance` combines them. `Implementation` maps
`RecvCombineResult` to `Combine` (or to a stutter, if the token was combined
before), `RecvFinish` to `Stop`, and every other action to a stutter.

`Accounting_proof` proves the properties that count: `PendingExact`,
`PullInflightExact`, `NoSlotOverwritten`, `PullFindsSlot`, `SlotsWithinWindow` and
`FinishQuiescent`, for all the same constants. None of them is inductive.
`Accounted` (in `INASystem`, checked by `ring`) is, together with `IInv`. Its
parts are:

* *Addresses* (`Addressed`): whatever lies in a queue, a hand or a buffer belongs
  there: a request names the host it comes from, an answer the host it goes to,
  and a reader that still has inputs to send has an answer in its hand.
* *Ledgers* of each token (`TokenLedger`, and `WorkLedger` for each of its
  experts). The places where its attention task, its dispatch, its
  acknowledgement, its pull, its result and its slot can be are counted, and the
  counts add up to what the owner's marks say: between admission and
  `attentionDone` there is one task, between that and `dispatchAcked` one
  dispatch or one ACK; from the handling of the dispatch on there is one slot, one
  COMBINE_RESULT or the result; `pullInflight` is one pull, refusal or result.
  A step moves one piece from a place to the next, so an action changes two terms
  of a sum. The lemmas at the start say how the count in a queue changes with
  `Append` and `Tail`, and which counts an action leaves alone.
  `NoSlotOverwritten` and `PullFindsSlot` are read off the ledgers: a dispatch
  under way excludes a slot, a pull under way excludes a result. A slot stands for
  a token between admission and release, and `WithinWindow` bounds these, so
  `SlotsWithinWindow` follows by counting.
* *The end* (`FinishLedger`, `StopInOrder`). A host's FINISH is still to be sent,
  under way, or counted in `finishedHosts`; only one reader broadcasts, after all
  hosts are in `finishedHosts`; a host stops after that only. By `IInv` a
  finished host has combined all its tokens, so when all have finished every
  ledger is at zero and nothing is queued, held or under way
  (`AllFinishedQuiet`), which is `FinishQuiescent`. Conversely a host that still
  has work in hand runs (`WorkingHostRuns`), so no push meets a closed queue, and
  the ledgers lose nothing to `shutdown_runtime`.

An assumption says that `None` is neither a message, a task (`NoneAssumption`) nor
a slot (`NoSlotAssumption`); otherwise an empty place could not be told from a
full one. `None` stands for an empty buffer, an idle thread and a missing map entry.

`NeverStuckAlways` (`Spec => []NeverStuck`) is what the ledgers say of progress in
mode `four`, for any number of hosts, tokens and experts and any window but an
empty one: the blocking sends, the one-message buffers, the window, the polling and
the finish protocol cannot leave everybody waiting. *Argument*: suppose nobody can
do anything, with some connection open. `EndInOrder` says when readers and
connections are up, and `AdmittingExact` that the control thread has admitted what
its window allows; both are inductive with `IInv` and `Accounted`. If a host has
not finished, every connection is up, so no buffer, hand or queue holds anything
(`Still`, `NobodyActsStill`): each waits only for a next one, up to the host's read
thread, which always reads. By the work ledgers nothing is pending in a slot then,
so every slot is ready and can be pulled, and by the token ledgers a token that is
not combined has a slot (`StillTokens`); so all tokens are combined, the base has
reached the end, and the FINISH, which is not under way, has been counted
(`StillFinished`), for every host. If all hosts have finished, the one reader that
broadcasts has a next host to tell, which is still running and whose buffer is
free, or every host has been told and can read, finish what is in its hands or
exit (`ClosingActs`). `NeverStuck` spells the guards of the
actions out, one predicate per thread, since ENABLED is out of the prover's reach.
It is a statement about each state; that under the fairness of section 3 every
host does exit is `HostsExit`, which stays with TLC.

`HostLoops_proof` proves, for any mix of loop modes, `LoopSpec => Spec`
(`LoopsImplementFourLoops`): an action of a combined loop is an action of one of
the four threads or changes only the place in the loop. So whatever is proved of
`Spec` holds in every mode (`LoopsCombineExact`, `LoopsImplementService`,
`LoopsKeepAccounts`). This is about safety only: what the modes lose is progress.

`NoWriteCycleWhenFew` states when they do not lose it to a cycle of writes:
`LoopSpec => []NoWriteCycle` if there are at most two hosts, each with at most one
token in flight (`FewTokens`: `window_size` or the number of tokens is at most
one), for any number of experts per token, any `DrainLimit` and any mix of modes.
*Argument*: the cycle takes four messages. The one that the reader holds, or owes
after the inputs it still sends, is an answer about a token of the host. By the
ledgers of `Accounted` it is the only answer, and excludes a dispatch, a pull and
a FINISH of that host. So the two messages of the host are results of its expert,
and the one in its buffer is an input for its expert. Each is of a token in flight
and no two are of the same token: the three have three owners (`NoRoomForCycle`).
The condition cannot be relaxed in either direction, as section 3 shows: one host
with two tokens in flight, or three hosts with one each, can get stuck.

`Failures_proof` proves, for any number of hosts that die, at any moment, and also
if the switch dies, `FailureInvariant`, `LivingWorkExact`, `LivingQuiescent` and
`ImplementsDegradedService`. *Argument*: what is said of the dead must hold without
what they took with them.

* *Truth* is `IInv` with the dead as the excused and the death of the switch as
  `lost`. The steps of `INASystem` keep it by the lemmas above. An error path that
  gives up expert `t` takes `t` out of `pending` without adding to the sum, which
  `Owed` allows since `t` is dead (`DropExpertTruthful`, `GivenUpDead`): a
  connection is closed by a dead host, or by one that has stopped, and nobody
  stops while an EXPERT_INPUT is still to be sent. A death makes more results
  truthful, never fewer (`OwedMore`).
* *Ledgers* hold of the living only, and while the switch lives
  (`LivingAccounted`): the tokens of a host that lives, and the work of an expert
  that lives, for dead owners too. The ledger of a dead host says nothing, since its
  marks are gone, but its dispatch may still be unread and make a slot for which
  the living work; what is left of the ledger then is `TokenOnce`, that a
  token has at most one dispatch, slot or result. When the switch has died,
  `ResultOnce` is left of that.
* *The end* (`StopsLast`): nobody who lives stops, is told to stop or loses its
  connection before every host is in `finishedHosts`, the dead included. If one of
  the dead had not finished, nobody stops for ever. If all have, every ledger of the
  living is at zero (`FinishedQuiet`), hence `LivingQuiescent`; and hence a living
  host that notices the loss of its connection, while the switch lives, has
  nothing in its hands (`NoticesEnd`), and an answer that cannot be sent was for a
  dead host (`AnswerLostDead`).

* *Late turns* (`LateTurns`): a host with a late turn lives and has been shut
  down, and no read is late unless the switch has died. For the send thread's
  write can fail while the switch lives only after the last FINISH, and then
  there is nothing left to write (`NoticesEnd`). So while the books of the living
  are kept no message is read late, and a late tick counts as any other.

For the refinement, a COMBINE_RESULT that arrives, in time or late, is for a token
not combined yet, by `ResultOnce`, and its value is owed (`ResultCombines`); FINISH
and the failures of a host's own reads and writes map to `Stop`, or to a stutter if
the host has stopped before; a late turn of the read thread that combines nothing
maps to `Leave`; the two crashes map to the deaths of `DegradedService`, the rest to
stutters.

`Handshake_proof` proves, for any number of ranks, processes and deaths and any
backlog, `RegistryExact`, `ReadersFindEveryHost`, `OnlyRegisteredRun` and
`EarlyMessagesKept`. *Argument*: the connection in the
hand of the accept loop is not registered while it is read (`AcceptLoopExact`),
so closing it takes nothing from anybody; an ACK goes to a registered process
only (`WelcomeExact`); `hosts` and `accepted_hosts` grow together, so a full list
means that every rank is taken (`AllRegistered`, by counting).

`Transport_proof` proves, for any number of writers and messages, any payloads and
any size of the buffers, `OneBufferInUse`, `ReadInOrder`, `WireIsBigEndian` and
`ImplementsLinks`, and that `header_from_wire` undoes `header_to_wire` for every
header. *Argument*: first who may touch a buffer (`IInv`): the holder of the mutex
is the one thread inside `sr_write`, a send is under way exactly while it polls,
and `recv_posted` says where the receive buffer is, also after a timeout. Then what
is in it (`Contents`): from the copying into `send_buf` to the delivery its front
is the last message byte for byte (`SendBufExact`), from the delivery to the
copying out the front of `recv_buf` is the next message to be read, and its
completion has that message's length (`RecvBufExact`); sent messages are read,
arrived or not yet delivered (`NoneLost`), with at most one in each of the last two
places. `ReadBack` is the lemma on the bytes: from a buffer whose front is a
message, and whatever is behind it, `sr_read` makes that message again. With these
the delivery is a `WriteToSwitch` of `Links`, copying is a `ReadFromHost`, and every
other step leaves the buffer of `Links` alone. So the layer that the models of
hosts and switch assume is proved of the layer below, up to the direction: both
directions of a connection are the same code.

`BlockingQueue_proof` proves `NoLostWakeup` by counting, for any numbers of
producers and consumers: each push adds a notification to come, each
notification adds an awake consumer unless nobody sleeps, and a consumer that
goes to sleep has found the queue empty.

`Logger_proof` proves `DestructorDrains` and `WorkerSleepsIdle` for any number of
threads and entries. File, entry in hand and queue together are always what was
logged (`OrderKept`), and the destructor passes through its stages only when the
threads, then the line of `main`, then the queue and the worker are done
(`ShutdownOrder`).

Assumptions: those on the constants (`ConstantsAssumption`, `NoneAssumption`,
`NoSlotAssumption`, `HandshakeAssumption`, `TransportAssumption`,
`QueueAssumption`, `LoggerAssumption`, `CrashAssumption`), which TLC evaluates in the runs.

What is only model-checked is all liveness (`ImplementsFairService`,
`PullsAnswered`, `HostsExit`, `ServedOrBereft`, `StopsOrAwaitsSwitch`, `RunStarts`,
`WritesReturn`, `ItemsTaken`, `ConsumersReleased`, `DestructorTerminates`), which is
out of the prover's reach, and `NoWriteCycle` beyond `FewTokens`, where it is false.

## 5. Not modelled

* Failures other than the death of a process: memory registration, creation of
  queues, a log file that cannot be opened. They end the process at once.
* A client that connects and never sends its HELLO. The accept loop waits for it
  for ever; the program's own hosts send HELLO right after connecting, and a host
  that dies in between is in the model.
* `window_size` of zero or less, given on the command line: the host then admits
  no token and runs for ever. The safety theorems hold for it; the fair runs use
  positive windows.
* What the hardware does with freed queues beyond "fails or finds nothing"
  (`Teardown`).
* Two threads that write to the same stream: the buffer of `LogStreamBuf` is a
  string without a lock, and a data race on it has no defined outcomes to model.
  The program writes to `std::cerr` from several threads on error paths only.
  Apart from the race, `std::cerr` flushes after every insertion, so a message of
  several insertions becomes several entries.
* Wording of logs, argument parsing, building.

## 6. Plan

1. *(done)* `Protocol`, `Links`, `Host`, `Switch`, `INASystem`,
   `CombineService`, and the proofs above.
2. *(done)* `HostLoops` and its proofs.
3. *(done)* `Failures` and `DegradedService`, `Handshake`, `Transport` over
   `WireFormat`, `BlockingQueue`, `Logger`, `Teardown`, and the proofs about them.
4. *(done)* Proofs of the counting invariants of `INASystem`, and of the contents
   of the buffers in `Transport` with the refinement of `Links`.
5. *(done)* Proofs of the safety properties of `Failures`, with the invariant and the
   ledgers of `INASystem` restricted to the living.
6. *(done)* `NeverStuck` for mode `four`.
7. *(done)* `NoWriteCycle` from the ledgers, under the conditions on hosts and window
   under which it holds.
